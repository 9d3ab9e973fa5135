-------------------------- MODULE RuntimeRefinement --------------------------
(***************************************************************************)
(* FrpcRuntime under the coordinator's lock implements FrpcProcess.  To    *)
(* the invariants of RuntimeProofs it adds what a task that waits or       *)
(* starts knows: the generation it holds is the present one.               *)
(***************************************************************************)
EXTENDS RuntimeProofs

Asking   == {"status", "exited", "read"}
Watching == {"turn", "faults", "proxies", "answer"}

(* What the record r of a task may be when the generation is g.            *)
Fits(r, g) ==
  /\ r.pc \in Asking => r.op \in {"status", "wait_ready"}
  /\ r.pc \in Watching \cup {"watch"} => r.op = "wait_ready"
  /\ r.pc \in Watching => r.own = g
  /\ r.pc \in Asking /\ r.op = "wait_ready" => r.own = g
  /\ r.pc \in {"clear", "spawn"} => r.own = g

TurnInv == \A c \in Callers : Fits(call[c], gen)

Inv == RuntimeInv /\ SoleInv /\ SilentInv /\ TurnInv

-----------------------------------------------------------------------------
(* While a task works on the process, the others are idle or ask for the   *)
(* status.                                                                 *)
LEMMA OthersAsk ==
  ASSUME Inv, NEW c \in Callers, call[c].op \notin Free, NEW d \in Callers \ {c}
  PROVE  /\ call[d].pc \in Asking \cup {"idle"}
         /\ call[d].pc \in Asking => call[d].op = "status"
<1>1. call[d].op \in Free
  BY DEF Inv, SoleInv
<1> QED BY <1>1 DEF Inv, SoleInv, Free, Asking

(* A task that is not idle and not asking has a call of its own.           *)
LEMMA Busy ==
  ASSUME Inv, NEW c \in Callers, call[c].pc \notin Asking \cup {"idle"}
  PROVE  call[c].op \notin Free
  BY DEF Inv, SoleInv, Free, Asking

(* A step that moves the generation finds nobody else with it in hand.     *)
LEMMA BumpFits ==
  ASSUME Inv, NEW c \in Callers, StartBumps(c) \/ StopBumps(c)
  PROVE  TurnInv'
<1>1. call \in [Callers -> Calls] /\ gen \in Nat
  BY DEF Inv, RuntimeInv, Typed
<1>2. call[c].pc \in {"bump", "stop"}
  BY DEF StartBumps, StopBumps, At
<1>3. call[c].op \notin Free
  BY <1>2, Busy DEF Asking
<1>4. \A d \in Callers \ {c} : call'[d] = call[d]
  BY <1>1 DEF StartBumps, StopBumps, Goto
<1>5. Fits(call'[c], gen')
  <2>1. CASE StartBumps(c)
    BY <1>1, <2>1 DEF StartBumps, Fits, Asking, Watching, Calls
  <2>2. CASE StopBumps(c)
    BY <1>1, <2>2 DEF StopBumps, Goto, Fits, Asking, Watching, Calls
  <2> QED BY <2>1, <2>2
<1>6. ASSUME NEW d \in Callers \ {c} PROVE Fits(call'[d], gen')
  <2>1. /\ call[d].pc \in Asking \cup {"idle"}
        /\ call[d].pc \in Asking => call[d].op = "status"
    BY <1>3, OthersAsk
  <2> QED BY <1>4, <2>1 DEF Fits, Asking, Watching
<1> QED BY <1>5, <1>6 DEF TurnInv

(* Any other step of a task leaves it with what fits.                      *)
LEMMA StepFits ==
  ASSUME Inv, NEW c \in Callers, Step(c), gen' = gen
  PROVE  Fits(call'[c], gen)
<1>1. call \in [Callers -> Calls] /\ gen \in Nat /\ call[c] \in Calls /\ Fits(call[c], gen)
  BY CallFields DEF Inv, RuntimeInv, Typed, TurnInv
<1>2. ASSUME NEW l, Goto(c, l)
      PROVE  call'[c].pc = l /\ call'[c].op = call[c].op /\ call'[c].own = call[c].own
  BY <1>1, <1>2 DEF Goto, Calls
<1>3. ASSUME Return(c) PROVE Fits(call'[c], gen)
  BY <1>3, ReturnFacts DEF Inv, RuntimeInv, Fits, Asking, Watching
<1>4. ASSUME NEW r, Answer(c, r)
      PROVE  call'[c].pc = "answer" /\ call'[c].op = call[c].op /\ call'[c].own = call[c].own
  BY <1>1, <1>4 DEF Answer, Calls
<1>5. CASE StartStep(c)
  <2>1. CASE StartLocks(c)
    BY <1>1, <1>2, <1>3, <2>1 DEF StartLocks, Fits, Asking, Watching
  <2>2. CASE StartBumps(c)
    BY <1>1, <2>2 DEF StartBumps
  <2>3. CASE StartClears(c)
    BY <1>1, <1>2, <2>3 DEF StartClears, At, Fits, Asking, Watching
  <2>4. CASE StartSpawns(c) \/ SpawnFails(c)
    BY <1>3, <2>4 DEF StartSpawns, SpawnFails
  <2> QED BY <1>5, <2>1, <2>2, <2>3, <2>4 DEF StartStep
<1>6. CASE StopStep(c)
  <2>1. CASE StopBumps(c)
    BY <1>1, <2>1 DEF StopBumps
  <2>2. CASE StopLocks(c)
    BY <1>1, <2>2 DEF StopLocks, Fits, Asking, Watching, Calls
  <2>3. CASE StopKills(c)
    BY <1>2, <2>3 DEF StopKills, Fits, Asking, Watching
  <2>4. CASE StopEnds(c)
    <3>1. CASE call' = [call EXCEPT ![c].pc = "start", ![c].own = 0]
      BY <1>1, <3>1 DEF Fits, Asking, Watching, Calls
    <3> QED BY <1>3, <2>4, <3>1 DEF StopEnds
  <2> QED BY <1>6, <2>1, <2>2, <2>3, <2>4 DEF StopStep
<1>7. CASE StatusStep(c)
  <2>1. CASE StatusLocks(c) \/ StatusWrites(c)
    <3>1. call[c].pc \in Asking
      BY <2>1 DEF StatusLocks, StatusWrites, At, Asking
    <3>2. Goto(c, "exited") \/ Goto(c, "read")
      BY <2>1 DEF StatusLocks, StatusWrites
    <3> QED BY <1>1, <1>2, <3>1, <3>2 DEF Fits, Asking, Watching
  <2>2. CASE StatusReads(c)
    <3>1. CASE call[c].op = "status"
      BY <1>3, <2>2, <3>1 DEF StatusReads
    <3>2. CASE call[c].op # "status"
      <4>1. call[c].op = "wait_ready" /\ call[c].own = gen
        BY <1>1, <2>2, <3>2 DEF StatusReads, At, Fits, Asking
      <4>2. call'[c].pc = "faults" /\ call'[c].op = call[c].op /\ call'[c].own = call[c].own
        BY <1>1, <2>2, <3>2 DEF StatusReads, Calls
      <4> QED BY <4>1, <4>2 DEF Fits, Asking, Watching
    <3> QED BY <3>1, <3>2
  <2> QED BY <1>7, <2>1, <2>2 DEF StatusStep
<1>8. CASE WaitStep(c)
  <2>1. CASE WaitWatches(c)
    BY <1>1, <2>1 DEF WaitWatches, At, Fits, Asking, Watching, Calls
  <2>2. CASE WaitEnds(c)
    BY <1>3, <2>2 DEF WaitEnds
  <2>3. CASE WaitTurns(c) \/ WaitReadsFaults(c) \/ WaitReadsProxies(c)
    <3>1. call[c].op = "wait_ready" /\ call[c].own = gen
      BY <1>1, <2>3 DEF WaitTurns, WaitReadsFaults, WaitReadsProxies, At, Fits, Watching
    <3>2. CASE \E l : Goto(c, l) /\ l \in {"status", "proxies"}
      BY <1>2, <3>1, <3>2 DEF Fits, Asking, Watching
    <3>3. CASE \E r : Answer(c, r)
      BY <1>4, <3>1, <3>3 DEF Fits, Asking, Watching
    <3>4. CASE call' = [call EXCEPT ![c].pc = "turn", ![c].ready = FALSE]
      BY <1>1, <3>1, <3>4 DEF Fits, Asking, Watching, Calls
    <3>5. CASE WaitTurns(c)
      BY <3>2, <3>3, <3>5 DEF WaitTurns
    <3>6. CASE WaitReadsProxies(c)
      BY <3>3, <3>4, <3>6 DEF WaitReadsProxies
    <3>7. CASE WaitReadsFaults(c)
      <4>1. Answer(c, "node") \/ Answer(c, "refused") \/ Answer(c, "exited") \/ Goto(c, "proxies")
        BY <3>7 DEF WaitReadsFaults
      <4> QED BY <3>2, <3>3, <4>1
    <3> QED BY <2>3, <3>5, <3>6, <3>7
  <2> QED BY <1>8, <2>1, <2>2, <2>3 DEF WaitStep
<1> QED BY <1>5, <1>6, <1>7, <1>8 DEF Step

LEMMA TurnStep == Inv /\ [Next]_vars => TurnInv'
<1> SUFFICES ASSUME Inv, [Next]_vars PROVE TurnInv'
  OBVIOUS
<1>1. CASE UNCHANGED <<gen, call>>
  BY <1>1 DEF Inv, TurnInv
<1>2. ASSUME NEW c \in Callers, Step(c) PROVE TurnInv'
  <2>1. CASE gen' = gen
    BY <1>2, <2>1, StepFits, OwnCall DEF Inv, TurnInv
  <2>2. CASE StartBumps(c) \/ StopBumps(c)
    BY <2>2, BumpFits
  <2>3. gen' = gen \/ StartBumps(c) \/ StopBumps(c)
    BY <1>2
    DEF Step, StartStep, StopStep, StatusStep, WaitStep, StartLocks, StartClears, StartSpawns,
        SpawnFails, StopLocks, StopKills, StopEnds, StatusLocks, StatusWrites, StatusReads,
        WaitWatches, WaitTurns, WaitReadsFaults, WaitReadsProxies, WaitEnds
  <2> QED BY <2>1, <2>2, <2>3
<1>3. ASSUME NEW c \in Callers, BeginUnderLock(c) PROVE TurnInv'
  <2>1. PICK o \in {"start", "stop", "restart", "status", "wait_ready"},
             l \in {"start", "stop", "status", "watch"} :
          /\ Begin(c, o, l)
          /\ l = "status" => o = "status"
          /\ l = "watch" => o = "wait_ready"
    BY <1>3 DEF BeginUnderLock, BeginLifecycle, BeginWait, BeginStatus
  <2>2. /\ call'[c].op = o /\ call'[c].pc = l /\ gen' = gen
        /\ \A d \in Callers \ {c} : call'[d] = call[d]
    BY <2>1, CallFields DEF Begin, Inv, RuntimeInv, Typed, Calls
  <2> QED BY <2>1, <2>2 DEF Inv, TurnInv, Fits, Asking, Watching
<1>4. CASE ReaderStep \/ ProcessExits
  BY <1>1, <1>4 DEF ReaderStep, ReadLine, LineWritesRuntime, LineIsRecorded, ProcessExits
<1> QED BY <1>1, <1>2, <1>3, <1>4 DEF Next, vars

(* Under the coordinator's lock a task that waits or starts holds the      *)
(* present generation, in every reachable state.                           *)
THEOREM TurnInvariant == Spec => []Inv
<1>1. Init => SoleInv /\ SilentInv /\ TurnInv
  BY DEF Init, NoCall, SoleInv, SilentInv, TurnInv, Fits, Asking, Watching, Free
<1>2. Inv /\ [Next]_vars => RuntimeInv'
  BY UnderLockIsButtons, RuntimeStep DEF Inv
<1>3. Inv /\ [Next]_vars => SoleInv' /\ SilentInv'
  BY SoleStep, SilentStep DEF Inv
<1>4. Init => Inv
  BY <1>1, RuntimeInit DEF Inv
<1>5. Inv /\ [Next]_vars => Inv'
  BY <1>2, <1>3, TurnStep DEF Inv
<1> QED BY <1>4, <1>5, PTL DEF Spec

-----------------------------------------------------------------------------
(* What the contract sees is the process of the present generation, its    *)
(* faults, and whether somebody is about to blame the node.                *)
SameView ==
  /\ gen' = gen
  /\ ProcessOf(gen)' = ProcessOf(gen)
  /\ HasFault(gen)' = HasFault(gen)

SomeoneBlames == \E c \in Callers : Blaming(c)

(* Only a task that waits blames: no task that works does, and the others  *)
(* then ask for the status at most.                                        *)
LEMMA NobodyBlames ==
  ASSUME Inv, NEW c \in Callers, call[c].op \notin Free, ~Blaming(c)
  PROVE  ~SomeoneBlames
<1>1. ASSUME NEW d \in Callers \ {c} PROVE ~Blaming(d)
  BY OthersAsk DEF Blaming, At, Asking
<1> QED BY <1>1 DEF SomeoneBlames

(* A step of one task leaves the others as they blame.                     *)
LEMMA BlameOfOne ==
  ASSUME NEW c \in Callers, \A d \in Callers \ {c} : call'[d] = call[d],
         Blaming(c)' = Blaming(c)
  PROVE  SomeoneBlames' = SomeoneBlames
  BY DEF SomeoneBlames, Blaming, At

(* A start or a stop that moves the generation.                            *)
LEMMA BumpRenews ==
  ASSUME Inv, NEW c \in Callers, StartBumps(c) \/ StopBumps(c)
  PROVE  Process!Renew
<1>1. /\ call \in [Callers -> Calls] /\ gen \in Nat
      /\ Spawned \subseteq 1..gen /\ alive \subseteq Spawned /\ killed \subseteq Spawned
  BY DEF Inv, RuntimeInv, Typed
<1>2. call[c].pc \in {"bump", "stop"}
  BY DEF StartBumps, StopBumps, At
<1>3. ~SomeoneBlames
  BY <1>2, Busy, NobodyBlames DEF Asking, Blaming, At
<1>4. gen' = gen + 1 /\ alive' = alive /\ killed' = killed /\ said' = said
  BY DEF StartBumps, StopBumps, procs
<1>5. gen' \notin alive' /\ gen' \notin killed' /\ gen' \notin Spawned'
  BY <1>1, <1>4 DEF Spawned
<1>6. ~Blaming(c)'
  <2>1. call'[c].pc \in {"clear", "stop_lock"}
    BY <1>1 DEF StartBumps, StopBumps, Goto, Calls
  <2> QED BY <2>1 DEF Blaming, At
<1>7. \A d \in Callers \ {c} : call'[d] = call[d]
  BY <1>1 DEF StartBumps, StopBumps, Goto
<1>8. ~SomeoneBlames'
  BY <1>3, <1>6, <1>7 DEF SomeoneBlames, Blaming, At
<1>9. ProcessOf(gen)' = "none" /\ HasFault(gen)' = FALSE
  BY <1>5 DEF ProcessOf, HasFault
<1> QED BY <1>3, <1>4, <1>8, <1>9 DEF Process!Renew, SomeoneBlames

(* A start that has a process.                                             *)
LEMMA SpawnLaunches ==
  ASSUME Inv, NEW c \in Callers, StartSpawns(c)
  PROVE  Process!Launch
<1>1. /\ call \in [Callers -> Calls] /\ gen \in Nat
      /\ alive \subseteq Spawned /\ killed \subseteq Spawned
  BY DEF Inv, RuntimeInv, Typed
<1>2. /\ call[c].pc = "spawn" /\ call[c].own = gen /\ gen # 0 /\ gen \notin Spawned
  BY DEF StartSpawns, At, Inv, TurnInv, Fits, RuntimeInv, OwnInv
<1>3. ~SomeoneBlames
  BY <1>2, Busy, NobodyBlames DEF Asking, Blaming, At
<1>4. /\ gen' = gen /\ alive' = alive \cup {gen}
      /\ said' = [g \in Spawned \cup {gen} |-> IF g \in Spawned THEN said[g] ELSE {}]
  BY <1>2 DEF StartSpawns
<1>5. ProcessOf(gen) = "none" /\ ProcessOf(gen)' = "running"
  BY <1>1, <1>2, <1>4 DEF ProcessOf
<1>6. HasFault(gen) = FALSE /\ HasFault(gen)' = FALSE
  BY <1>2, <1>4 DEF HasFault, Spawned
<1>7. call'[c].pc = "idle" /\ \A d \in Callers \ {c} : call'[d] = call[d]
  BY ReturnFacts DEF StartSpawns, Inv, RuntimeInv
<1>8. ~SomeoneBlames'
  BY <1>3, <1>7 DEF SomeoneBlames, Blaming, At
<1>9. gen > 0 /\ gen' = gen
  BY <1>1, <1>2, <1>4
<1>10. SomeoneBlames' = SomeoneBlames /\ HasFault(gen)' = HasFault(gen)
  BY <1>3, <1>6, <1>8 DEF SomeoneBlames
<1> QED BY <1>3, <1>5, <1>9, <1>10 DEF Process!Launch, SomeoneBlames

(* The process that is killed is not of the present generation any more.   *)
LEMMA KillUnseen ==
  ASSUME Inv, NEW c \in Callers, StopKills(c)
  PROVE  SameView
<1>1. gen \notin Spawned /\ call[c].own \in Spawned \cup {0} /\ gen \in Nat
  BY DEF StopKills, At, Inv, SilentInv, RuntimeInv, OwnInv, Typed
<1>2. /\ gen' = gen /\ said' = said /\ alive' = alive \ {call[c].own}
      /\ killed' = killed \cup ({call[c].own} \ {0})
  BY DEF StopKills, locks
<1>3. gen \notin alive /\ gen \notin killed
  BY <1>1 DEF Inv, RuntimeInv, Typed
<1> QED BY <1>1, <1>2, <1>3 DEF SameView, ProcessOf, HasFault, Spawned

(* A process that ends by itself: the present one, or one being killed.    *)
LEMMA ExitExits ==
  ASSUME Inv, ProcessExits
  PROVE  Process!Exit \/ UNCHANGED <<gen, ProcessOf(gen), HasFault(gen), SomeoneBlames>>
<1>1. PICK g \in alive : alive' = alive \ {g}
  BY DEF ProcessExits
<1>2. gen' = gen /\ killed' = killed /\ said' = said /\ call' = call
  BY DEF ProcessExits
<1>3. gen \notin killed /\ g \in Spawned
  BY DEF Inv, SilentInv, RuntimeInv, Typed
<1>4. HasFault(gen)' = HasFault(gen) /\ SomeoneBlames' = SomeoneBlames
  BY <1>2 DEF HasFault, SomeoneBlames, Blaming, At, Spawned
<1>5. CASE g = gen
  <2>1. ProcessOf(gen) = "running" /\ ProcessOf(gen)' = "exited"
    BY <1>1, <1>2, <1>3, <1>5 DEF ProcessOf, Spawned
  <2> QED BY <1>2, <1>4, <2>1 DEF Process!Exit, SomeoneBlames
<1>6. CASE g # gen
  <2>1. ProcessOf(gen)' = ProcessOf(gen)
    BY <1>1, <1>2, <1>6 DEF ProcessOf, Spawned
  <2> QED BY <1>2, <1>4, <2>1
<1> QED BY <1>5, <1>6

(* A line read is a report of the present process, or says nothing of the  *)
(* node.                                                                   *)
LEMMA LineReports ==
  ASSUME Inv, ReaderStep
  PROVE  Process!Report \/ UNCHANGED <<gen, ProcessOf(gen), HasFault(gen), SomeoneBlames>>
<1>1. gen' = gen /\ alive' = alive /\ killed' = killed /\ call' = call
  BY DEF ReaderStep, ReadLine, LineWritesRuntime, LineIsRecorded, procs
<1>2. SomeoneBlames' = SomeoneBlames
  BY <1>1 DEF SomeoneBlames, Blaming, At
<1>3. CASE said' = said
  <2>1. ProcessOf(gen)' = ProcessOf(gen) /\ HasFault(gen)' = HasFault(gen)
    BY <1>1, <1>3 DEF ProcessOf, HasFault, Spawned
  <2> QED BY <1>1, <1>2, <2>1
<1>4. ASSUME NEW s \in Readers, NEW text \in Lines, ReadLine(s, text)
      PROVE  Process!Report \/ UNCHANGED <<gen, ProcessOf(gen), HasFault(gen), SomeoneBlames>>
  <2>1. /\ said \in [Spawned -> SUBSET (Proxies \cup {"fault"})] /\ gen \in Spawned
        /\ gen \notin killed
    BY <1>4 DEF ReadLine, Inv, RuntimeInv, Typed, SilentInv
  <2>2. /\ Spawned' = Spawned
        /\ said'[gen] = said[gen] \cup (IF text \in NodeFaults THEN {"fault"} ELSE {text} \cap Proxies)
    BY <1>4, <2>1 DEF ReadLine, Spawned
  <2>3. ProcessOf(gen)' = ProcessOf(gen) /\ ProcessOf(gen) # "none"
    BY <1>1, <2>1, <2>2 DEF ProcessOf
  <2>4. CASE HasFault(gen)' = TRUE
    BY <1>1, <1>2, <2>3, <2>4 DEF Process!Report, SomeoneBlames
  <2>5. CASE HasFault(gen)' = FALSE
    <3>1. HasFault(gen) = FALSE
      BY <1>1, <2>1, <2>2, <2>5 DEF HasFault
    <3> QED BY <1>1, <1>2, <2>3, <2>5, <3>1
  <2>6. HasFault(gen)' \in BOOLEAN
    BY DEF HasFault
  <2> QED BY <2>4, <2>5, <2>6
<1> QED BY <1>3, <1>4 DEF ReaderStep, LineWritesRuntime, LineIsRecorded

(* A step that leaves generation and processes alone.                      *)
Unmoved == gen' = gen /\ alive' = alive /\ killed' = killed /\ said' = said

LEMMA UnmovedView ==
  ASSUME Unmoved
  PROVE  SameView
  BY DEF Unmoved, SameView, ProcessOf, HasFault, Spawned

(* The answer of wait_ready blames the node for a fault of the present     *)
(* process.                                                                *)
LEMMA FaultsBlame ==
  ASSUME Inv, NEW c \in Callers, WaitReadsFaults(c)
  PROVE  Process!Blame \/ UNCHANGED <<gen, ProcessOf(gen), HasFault(gen), SomeoneBlames>>
<1>1. Unmoved
  BY DEF WaitReadsFaults, Unmoved, procs
<1>2. SameView
  BY <1>1, UnmovedView
<1>3. call \in [Callers -> Calls] /\ call[c].pc = "faults" /\ ~Blaming(c)
  BY DEF WaitReadsFaults, At, Blaming, Inv, RuntimeInv, Typed
<1>4. Step(c)
  BY DEF Step, WaitStep
<1>5. \A d \in Callers \ {c} : call'[d] = call[d]
  BY <1>4, OwnCall DEF Inv
<1>6. CASE Blaming(c)'
  <2>1. nodeFault # 0 /\ nodeFault = call[c].own
    <3>1. SUFFICES ASSUME ~(nodeFault # 0 /\ nodeFault = call[c].own) PROVE FALSE
      OBVIOUS
    <3>2. Answer(c, "refused") \/ Answer(c, "exited") \/ Goto(c, "proxies")
      BY <3>1 DEF WaitReadsFaults
    <3>3. call'[c].pc = "proxies" \/ call'[c].result # "node"
      BY <1>3, <3>2 DEF Answer, Goto, Inv, RuntimeInv, Typed, Calls
    <3> QED BY <1>6, <3>3 DEF Blaming, At
  <2>2. HasFault(gen)
    <3>1. call[c].own = gen
      BY <1>3 DEF Inv, TurnInv, Fits, Watching
    <3>2. Reported(nodeFault)
      BY <2>1 DEF Inv, RuntimeInv, FaultInv
    <3> QED BY <2>1, <3>1, <3>2 DEF Reported, HasFault
  <2>3. SomeoneBlames' = TRUE
    BY <1>6 DEF SomeoneBlames
  <2> QED BY <1>2, <2>2, <2>3 DEF Process!Blame, SameView, SomeoneBlames
<1>7. CASE ~Blaming(c)'
  <2>1. Blaming(c)' = Blaming(c)
    BY <1>3, <1>7 DEF Blaming
  <2>2. SomeoneBlames' = SomeoneBlames
    BY <1>5, <2>1, BlameOfOne
  <2> QED BY <1>2, <2>2 DEF SameView
<1> QED BY <1>6, <1>7

LEMMA EndAnswers ==
  ASSUME Inv, NEW c \in Callers, WaitEnds(c)
  PROVE  Process!Answer \/ UNCHANGED <<gen, ProcessOf(gen), HasFault(gen), SomeoneBlames>>
<1>1. SameView
  BY UnmovedView DEF WaitEnds, Unmoved, procs
<1>2. call'[c].pc = "idle" /\ \A d \in Callers \ {c} : call'[d] = call[d]
  BY ReturnFacts DEF WaitEnds, Inv, RuntimeInv
<1>3. ~Blaming(c)'
  BY <1>2 DEF Blaming, At
<1>4. call[c].op \notin Free
  BY Busy DEF WaitEnds, At, Asking
<1>5. \A d \in Callers \ {c} : ~Blaming(d)
  BY <1>4, OthersAsk DEF Blaming, At, Asking
<1>6. SomeoneBlames' = FALSE
  BY <1>2, <1>3, <1>5 DEF SomeoneBlames, Blaming, At
<1>7. CASE Blaming(c)
  <2>1. SomeoneBlames
    BY <1>7 DEF SomeoneBlames
  <2> QED BY <1>1, <1>6, <2>1 DEF Process!Answer, SameView, SomeoneBlames
<1>8. CASE ~Blaming(c)
  <2>1. SomeoneBlames = FALSE
    BY <1>5, <1>8 DEF SomeoneBlames
  <2> QED BY <1>1, <1>6, <2>1 DEF SameView
<1> QED BY <1>7, <1>8

(* Every other step of a task changes neither the process nor the verdict. *)
LEMMA OtherUnseen ==
  ASSUME Inv, NEW c \in Callers, Step(c), SameView, ~Blaming(c), ~Blaming(c)'
  PROVE  UNCHANGED <<gen, ProcessOf(gen), HasFault(gen), SomeoneBlames>>
<1>1. \A d \in Callers \ {c} : call'[d] = call[d]
  BY OwnCall DEF Inv
<1>2. Blaming(c)' = Blaming(c)
  BY DEF Blaming
<1>3. SomeoneBlames' = SomeoneBlames
  BY <1>1, <1>2, BlameOfOne
<1> QED BY <1>3 DEF SameView

(* Steps of a task that no one outside the manager can tell.               *)
Inner(c) ==
  \/ StartLocks(c) \/ StartClears(c) \/ SpawnFails(c)
  \/ StopLocks(c) \/ StopKills(c) \/ StopEnds(c)
  \/ StatusStep(c)
  \/ WaitWatches(c) \/ WaitTurns(c) \/ WaitReadsProxies(c)

LEMMA InnerUnseen ==
  ASSUME Inv, NEW c \in Callers, Inner(c)
  PROVE  UNCHANGED <<gen, ProcessOf(gen), HasFault(gen), SomeoneBlames>>
<1>1. Step(c)
  BY DEF Inner, Step, StartStep, StopStep, WaitStep
<1>2. SameView
  <2>1. CASE StopKills(c)
    BY <2>1, KillUnseen
  <2>2. CASE ~StopKills(c)
    <3>1. Unmoved
      BY <2>2
      DEF Inner, StartLocks, StartClears, SpawnFails, StopLocks, StopEnds, StatusStep, StatusLocks,
          StatusWrites, StatusReads, WaitWatches, WaitTurns, WaitReadsProxies, Unmoved, procs
    <3> QED BY <3>1, UnmovedView
  <2> QED BY <2>1, <2>2
<1>3. call[c].pc # "answer"
  BY DEF Inner, StartLocks, StartClears, SpawnFails, StopLocks, StopKills, StopEnds, StatusStep,
         StatusLocks, StatusWrites, StatusReads, WaitWatches, WaitTurns, WaitReadsProxies, At
<1>4. ~Blaming(c)'
  <2>1. call \in [Callers -> Calls]
    BY DEF Inv, RuntimeInv, Typed
  <2>2. ASSUME NEW l, l # "answer", Goto(c, l) PROVE ~Blaming(c)'
    BY <2>1, <2>2 DEF Goto, Blaming, At
  <2>3. ASSUME Return(c) PROVE ~Blaming(c)'
    BY <2>3, ReturnFacts DEF Inv, RuntimeInv, Blaming, At
  <2>4. ASSUME NEW r, r # "node", Answer(c, r) PROVE ~Blaming(c)'
    BY <2>1, <2>4 DEF Answer, Blaming, At, Calls
  <2>5. CASE StartLocks(c) \/ StartClears(c) \/ SpawnFails(c) \/ StopKills(c)
    BY <2>2, <2>3, <2>5 DEF StartLocks, StartClears, SpawnFails, StopKills
  <2>6. CASE StopLocks(c) \/ WaitWatches(c)
    BY <2>1, <2>6 DEF StopLocks, WaitWatches, Blaming, At, Calls
  <2>7. CASE StopEnds(c)
    <3>1. CASE call' = [call EXCEPT ![c].pc = "start", ![c].own = 0]
      BY <2>1, <3>1 DEF Blaming, At
    <3> QED BY <2>3, <2>7, <3>1 DEF StopEnds
  <2>8. CASE StatusStep(c)
    <3>1. CASE StatusReads(c) /\ call[c].op # "status"
      BY <2>1, <3>1 DEF StatusReads, Blaming, At, Calls
    <3> QED BY <2>2, <2>3, <2>8, <3>1 DEF StatusStep, StatusLocks, StatusWrites, StatusReads
  <2>9. CASE WaitTurns(c)
    BY <2>2, <2>4, <2>9 DEF WaitTurns
  <2>10. CASE WaitReadsProxies(c)
    <3>1. CASE call' = [call EXCEPT ![c].pc = "turn", ![c].ready = FALSE]
      BY <2>1, <3>1 DEF Blaming, At
    <3> QED BY <2>4, <2>10, <3>1 DEF WaitReadsProxies
  <2> QED BY <2>5, <2>6, <2>7, <2>8, <2>9, <2>10 DEF Inner
<1> QED BY <1>1, <1>2, <1>3, <1>4, OtherUnseen DEF Blaming, At

-----------------------------------------------------------------------------
(* Every step of the manager is one of the contract or leaves it alone.    *)
LEMMA ProcessStep == Inv /\ [Next]_vars => [Process!Next]_(Process!processVars)
<1> SUFFICES ASSUME Inv, [Next]_vars
             PROVE  Process!Next \/ UNCHANGED <<gen, ProcessOf(gen), HasFault(gen), SomeoneBlames>>
  BY DEF Process!processVars, SomeoneBlames
<1>1. CASE UNCHANGED vars
  <2>1. Unmoved /\ call' = call
    BY <1>1 DEF vars, Unmoved
  <2>2. SomeoneBlames' = SomeoneBlames
    BY <2>1 DEF SomeoneBlames, Blaming, At
  <2> QED BY <2>1, <2>2, UnmovedView DEF SameView
<1>2. ASSUME NEW c \in Callers, Step(c)
      PROVE  Process!Next \/ UNCHANGED <<gen, ProcessOf(gen), HasFault(gen), SomeoneBlames>>
  <2>1. \/ Inner(c) \/ StartBumps(c) \/ StopBumps(c) \/ StartSpawns(c)
        \/ WaitReadsFaults(c) \/ WaitEnds(c)
    BY <1>2 DEF Step, StartStep, StopStep, WaitStep, Inner
  <2> QED BY <2>1, InnerUnseen, BumpRenews, SpawnLaunches, FaultsBlame, EndAnswers DEF Process!Next
<1>3. ASSUME NEW c \in Callers, BeginUnderLock(c)
      PROVE  UNCHANGED <<gen, ProcessOf(gen), HasFault(gen), SomeoneBlames>>
  <2>1. PICK o \in {"start", "stop", "restart", "status", "wait_ready"},
             l \in {"start", "stop", "status", "watch"} : Begin(c, o, l)
    BY <1>3 DEF BeginUnderLock, BeginLifecycle, BeginWait, BeginStatus
  <2>2. call'[c].pc = l /\ \A d \in Callers \ {c} : call'[d] = call[d]
    BY <2>1 DEF Begin, Inv, RuntimeInv, Typed
  <2>3. Blaming(c) = FALSE /\ Blaming(c)' = FALSE
    BY <2>1, <2>2 DEF Begin, Blaming, At
  <2>4. SomeoneBlames' = SomeoneBlames
    BY <2>2, <2>3, BlameOfOne
  <2>5. SameView
    BY <2>1, UnmovedView DEF Begin, Unmoved, procs
  <2> QED BY <2>4, <2>5 DEF SameView
<1>4. CASE ReaderStep
  BY <1>4, LineReports DEF Process!Next
<1>5. CASE ProcessExits
  BY <1>5, ExitExits DEF Process!Next
<1> QED BY <1>1, <1>2, <1>3, <1>4, <1>5 DEF Next

(* To the coordinator, FRPC is one process at a time with a generation of  *)
(* its own: every behaviour of the manager under its lock is one of        *)
(* FrpcProcess.                                                            *)
THEOREM ManagerImplements == Spec => ImplementsProcess
<1>1. Init => Process!Init
  <2> SUFFICES ASSUME Init PROVE Process!Init
    OBVIOUS
  <2>1. Spawned = {} /\ \A c \in Callers : call[c].pc = "idle"
    BY DEF Init, NoCall, Spawned
  <2>2. ProcessOf(gen) = "none" /\ HasFault(gen) = FALSE /\ (\E c \in Callers : Blaming(c)) = FALSE
    BY <2>1 DEF Init, ProcessOf, HasFault, Blaming, At
  <2> QED BY <2>2 DEF Init, Process!Init
<1> QED BY <1>1, TurnInvariant, ProcessStep, PTL DEF Spec, ImplementsProcess, Process!Spec
=============================================================================
