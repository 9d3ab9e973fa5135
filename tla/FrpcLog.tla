------------------------------- MODULE FrpcLog -------------------------------
(***************************************************************************)
(* From a line of FRPC's output to what the fault watcher does about it.   *)
(*                                                                         *)
(* start reads the configuration file and asks whether two proxies in it   *)
(* have the same name; classify uses the answer to tell a conflict at the  *)
(* server from a broken configuration; the watcher spawns a switch, asks   *)
(* ChmlFrp first, or does nothing.  A log line is the set of the phrases   *)
(* it contains, a configuration a sequence of the lines that matter.       *)
(***************************************************************************)
EXTENDS Naturals, Sequences, SequencesExt

CONSTANTS
  Names,    \* names of proxies
  Tables    \* names of the tables a proxy may have in a TOML file

ASSUME NamesAssumption == Names \cap Tables = {}

VARIABLES
  style,      \* the format of the configuration file
  section,    \* what the last line belongs to: a proxy of a TOML file without
              \* or with its name, another section, or nothing that takes a name
  declared,   \* the names its proxies have so far
  repeated,   \* two of its proxies have the same name
  scan,       \* the local variables of config_has_duplicate_proxy_names
  dup,        \* its result, as the readers keep it
  pc,         \* "config", "log", "watch", "confirm" or "done"
  line,       \* the phrases of the line in hand
  event,      \* what classify made of it
  reaction    \* what the watcher did

vars == <<style, section, declared, repeated, scan, dup, pc, line, event, reaction>>

-----------------------------------------------------------------------------
(* classify: the first group of phrases found in the line decides. *)

Rules == <<
  [phrase |-> "login",   type |-> "LoginSuccess",            domain |-> "Unknown", triggers |-> FALSE],
  [phrase |-> "added",   type |-> "ProxyAdded",              domain |-> "Unknown", triggers |-> FALSE],
  [phrase |-> "started", type |-> "ProxyStarted",            domain |-> "Unknown", triggers |-> FALSE],
  [phrase |-> "auth",    type |-> "AuthFailure",             domain |-> "Auth",    triggers |-> FALSE],
  [phrase |-> "config",  type |-> "ConfigMismatch",          domain |-> "Config",  triggers |-> FALSE],
  [phrase |-> "exists",  type |-> "ServerProxyConflict",     domain |-> "Node",    triggers |-> TRUE],
  [phrase |-> "session", type |-> "ServerConnectionFailure", domain |-> "Node",    triggers |-> TRUE],
  [phrase |-> "dial",    type |-> "NetworkAmbiguous",        domain |-> "Network", triggers |-> FALSE],
  [phrase |-> "local",   type |-> "LocalServiceFailure",     domain |-> "Local",   triggers |-> FALSE],
  [phrase |-> "error",   type |-> "UnknownError",            domain |-> "Unknown", triggers |-> FALSE] >>

Phrases == {r.phrase : r \in ToSet(Rules)}

Event(r) == [type |-> r.type, domain |-> r.domain, triggers |-> r.triggers]

Info == [type |-> "Info", domain |-> "Unknown", triggers |-> FALSE]

LocalDuplicate == [type |-> "LocalDuplicateProxy", domain |-> "Config", triggers |-> FALSE]

(* The groups the line has a phrase of, and the one that comes first.      *)
Found(l) == {i \in DOMAIN Rules : Rules[i].phrase \in l}
Deciding(l) == Rules[CHOOSE i \in Found(l) : \A j \in Found(l) : i <= j]

(* A mutant of classify: the configuration is not considered.              *)
classify_line_only(l, duplicates) == IF Found(l) = {} THEN Info ELSE Event(Deciding(l))

classify(l, duplicates) ==
  IF Found(l) = {} THEN Info
  ELSE IF Deciding(l).phrase = "exists" /\ duplicates THEN LocalDuplicate
  ELSE Event(Deciding(l))

(* The watcher's answer from ChmlFrp makes a node fault of the event.      *)
Confirmed == [type |-> "ServerConnectionFailure", domain |-> "Node", triggers |-> TRUE]

-----------------------------------------------------------------------------
NoScan == [seen |-> {}, in_toml_proxy |-> FALSE]

(* A configuration that nobody has read.                                   *)
Fresh ==
  /\ section = "none" /\ declared = {} /\ repeated = FALSE
  /\ scan = NoScan /\ dup = FALSE
  /\ pc = "config"
  /\ line = {} /\ event = Info /\ reaction = "none"

Init == style \in {"ini", "toml"} /\ Fresh

Declare(n) == declared' = declared \cup {n} /\ repeated' = (repeated \/ n \in declared)

(* A mutant of SeeName: no name is remembered.                             *)
ForgetName(n, inProxy) == scan' = [scan EXCEPT !.in_toml_proxy = inProxy] /\ UNCHANGED <<dup, pc>>

(* The scan sees a name: it ends when it has seen the name before.         *)
SeeName(n, inProxy) ==
  IF n \in scan.seen
  THEN dup' = TRUE /\ scan' = NoScan /\ pc' = "log"
  ELSE scan' = [seen |-> scan.seen \cup {n}, in_toml_proxy |-> inProxy] /\ UNCHANGED <<dup, pc>>

(* [name]: a proxy of an INI file; in a TOML file a table, here one of the *)
(* proxy above it.                                                         *)
SectionLine ==
  /\ pc = "config" /\ (style = "toml" => section = "named")
  /\ \E n \in IF style = "ini" THEN Names ELSE Tables :
       /\ SeeName(n, FALSE)
       /\ IF style = "ini" THEN Declare(n) ELSE UNCHANGED <<declared, repeated>>
  /\ section' = "other"
  /\ UNCHANGED <<style, line, event, reaction>>

(* [[proxies]], or another array of tables.                                *)
ArrayLine ==
  /\ pc = "config" /\ style = "toml"
  /\ section' \in {"proxy", "other"}
  /\ scan' = [scan EXCEPT !.in_toml_proxy = (section' = "proxy")]
  /\ UNCHANGED <<style, declared, repeated, dup, pc, line, event, reaction>>

(* name = ..., which is a proxy's name in a proxy's own section.           *)
NameLine ==
  /\ pc = "config" /\ style = "toml" /\ section \in {"proxy", "other"}
  /\ \E n \in Names :
       /\ IF scan.in_toml_proxy THEN SeeName(n, TRUE) ELSE UNCHANGED <<scan, dup, pc>>
       /\ IF section = "proxy" THEN Declare(n) ELSE UNCHANGED <<declared, repeated>>
  /\ section' = IF section = "proxy" THEN "named" ELSE "none"
  /\ UNCHANGED <<style, line, event, reaction>>

EndOfConfig ==
  /\ pc = "config"
  /\ dup' = FALSE /\ scan' = NoScan /\ pc' = "log"
  /\ UNCHANGED <<style, section, declared, repeated, line, event, reaction>>

-----------------------------------------------------------------------------
AcceptLine ==
  /\ pc = "log"
  /\ \E l \in SUBSET Phrases :
       /\ line' = l
       /\ event' = classify(l, dup)
  /\ pc' = "watch"
  /\ UNCHANGED <<style, section, declared, repeated, scan, dup, reaction>>

WatcherSwitches ==
  /\ pc = "watch" /\ event.triggers
  /\ reaction' = "switch" /\ pc' = "done"
  /\ UNCHANGED <<style, section, declared, repeated, scan, dup, line, event>>

(* A mutant of WatcherAsks: a network fault is taken for a node fault.     *)
WatcherDoesNotAsk ==
  /\ pc = "watch" /\ ~event.triggers /\ event.type = "NetworkAmbiguous"
  /\ reaction' = "switch" /\ pc' = "done"
  /\ UNCHANGED <<style, section, declared, repeated, scan, dup, line, event>>

WatcherAsks ==
  /\ pc = "watch" /\ ~event.triggers /\ event.type = "NetworkAmbiguous"
  /\ pc' = "confirm"
  /\ UNCHANGED <<style, section, declared, repeated, scan, dup, line, event, reaction>>

WatcherIgnores ==
  /\ pc = "watch" /\ ~event.triggers /\ event.type # "NetworkAmbiguous"
  /\ pc' = "done"
  /\ UNCHANGED <<style, section, declared, repeated, scan, dup, line, event, reaction>>

(* ChmlFrp reports the active node as anything but online.                 *)
NodeIsDown ==
  /\ pc = "confirm"
  /\ event' = Confirmed /\ reaction' = "switch" /\ pc' = "done"
  /\ UNCHANGED <<style, section, declared, repeated, scan, dup, line>>

(* It is online, there is no active node, or ChmlFrp does not answer.      *)
NodeIsNotDown ==
  /\ pc = "confirm"
  /\ pc' = "done"
  /\ UNCHANGED <<style, section, declared, repeated, scan, dup, line, event, reaction>>

(* The next line.                                                          *)
NextLine ==
  /\ pc = "done"
  /\ line' = {} /\ event' = Info /\ reaction' = "none" /\ pc' = "log"
  /\ UNCHANGED <<style, section, declared, repeated, scan, dup>>

Next ==
  \/ SectionLine \/ ArrayLine \/ NameLine \/ EndOfConfig
  \/ AcceptLine \/ WatcherSwitches \/ WatcherAsks \/ WatcherIgnores
  \/ NodeIsDown \/ NodeIsNotDown \/ NextLine

Spec == Init /\ [][Next]_vars

-----------------------------------------------------------------------------
(* What the classification promises. *)

Switched == pc = "done" /\ reaction = "switch"

(* An authentication or configuration error, and a conflict that a broken  *)
(* local configuration explains, never switches, whatever else is in the   *)
(* line.                                                                   *)
OwnFaultsStay ==
  Switched => "auth" \notin line /\ "config" \notin line
              /\ ("exists" \in line => ~repeated)

(* A line that names no fault of the node switches only after ChmlFrp has  *)
(* been asked about the node.                                              *)
DoubtIsConfirmed ==
  Switched /\ line \cap {"exists", "session"} = {} => "dial" \in line /\ event = Confirmed

(* Two proxies of the same name never go unnoticed, in either format, and  *)
(* an INI file is called broken only for that.                             *)
DuplicatesAreSeen ==
  pc # "config" => (repeated => dup) /\ (style = "ini" /\ dup => repeated)

(* frpc-log: in a TOML file only the name field is a proxy name.           *)
OnlyNamesCount == pc # "config" => (dup <=> repeated)

(* README.md: local-service faults do not trigger node failover.           *)
LocalNeverSwitches == Switched => "local" \notin line
=============================================================================
