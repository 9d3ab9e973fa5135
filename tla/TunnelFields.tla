---------------------------- MODULE TunnelFields ----------------------------
(***************************************************************************)
(* One ChmlFrp tunnel, field by field: what the server reads from a list,  *)
(* writes with create and update, and keeps as a plan.  The other modules  *)
(* only ask on which node a tunnel is.                                     *)
(*                                                                         *)
(* The list has one of two shapes, and says neither the port of a web      *)
(* tunnel nor, in the documented shape, the domain of another one; every   *)
(* field a shape has is there.  Protocols and domains are compared without *)
(* regard to case, so case is left out, as are blanks around names.  http  *)
(* and https are `web`, tcp and udp not; `at` is the local address with    *)
(* its port.  A switch is followed until the plan changes beside it.       *)
(***************************************************************************)
EXTENDS Naturals

CONSTANTS
  Places,     \* ChmlFrp nodes
  Locals,     \* local addresses
  Domains,
  Ports,      \* remote ports
  Extras,     \* extra parameters, blank included
  Blank       \* no node, domain, port or extra parameter; no such field

ASSUME FieldsAssumption == Blank \notin Places \cup Domains \cup Ports /\ Blank \in Extras

VARIABLES
  shape,   \* of the list: "documented" or "legacy"
  held,    \* the tunnel ChmlFrp holds, or NoTunnelHeld
  plan,    \* the plan of its name, or NoPlan
  taken,   \* the listed tunnel a switch has kept for its rollback, or NoPlan
  asked,   \* where the tunnel was last brought or found for this plan, or Blank
  test     \* the answer of the last write test

fieldVars == <<shape, held, plan, taken, asked, test>>

NoPlan       == [web |-> FALSE, at |-> Blank]
NoTunnelHeld == NoPlan

Held == [node : Places, at : Locals, web : {TRUE}, domain : Domains, port : {Blank},
         encryption : BOOLEAN, compression : BOOLEAN, extra : Extras]
        \cup
        [node : Places, at : Locals, web : {FALSE}, domain : Domains \cup {Blank}, port : Ports,
         encryption : BOOLEAN, compression : BOOLEAN, extra : Extras]

FieldsInit ==
  /\ shape \in {"documented", "legacy"}
  /\ held = NoTunnelHeld /\ plan = NoPlan /\ taken = NoPlan
  /\ asked = Blank /\ test = "none"

-----------------------------------------------------------------------------
(* Reading a list. *)

(* A flag comes as a string, a Boolean or a number and is kept as text.    *)
deserialize_string_or_bool(b) ==
  IF shape = "documented" THEN IF b THEN "true" ELSE "false"
  ELSE IF b THEN "1" ELSE "0"

parse_boolish(text) == text \in {"1", "true", "yes", "on"}

(* list_tunnels, for the tunnel t.                                         *)
Listed(t) ==
  [node |-> t.node, at |-> t.at, web |-> t.web,
   remote_endpoint |-> IF shape = "documented" /\ t.web THEN t.domain ELSE t.port,
   band_domain     |-> IF shape = "documented" THEN {} ELSE {t.domain},
   encryption      |-> deserialize_string_or_bool(t.encryption),
   compression     |-> deserialize_string_or_bool(t.compression),
   extra           |-> t.extra]

remote_port_number(r) == IF r.remote_endpoint \in Ports THEN r.remote_endpoint ELSE Blank

(* A mutant of effective_domain: the documented shape is forgotten.        *)
effective_domain_of_band(r) == IF r.band_domain # {} THEN CHOOSE d \in r.band_domain : TRUE ELSE Blank

effective_domain(r) ==
  IF r.band_domain # {} THEN CHOOSE d \in r.band_domain : TRUE
  ELSE IF r.web THEN r.remote_endpoint ELSE Blank

matches_plan_on_node(r, p, node) ==
  /\ r.node = node /\ r.at = p.at /\ r.web = p.web
  /\ p.web => effective_domain(r) = p.domain

-----------------------------------------------------------------------------
(* What is sent. *)

from_plan(p, node, port) ==
  [node |-> node, at |-> p.at, web |-> p.web, domain |-> p.domain, port |-> port,
   encryption |-> FALSE, compression |-> TRUE, extra |-> Blank]

(* A mutant of sync_payload: only what the plan says is sent.              *)
sync_payload_of_plan(r, p, node) == from_plan(p, node, Blank)

(* The plan decides where the tunnel leads; what it does not know is sent  *)
(* back as it was listed.                                                  *)
sync_payload(r, p, node) ==
  [node |-> node, at |-> p.at, web |-> p.web,
   domain |-> IF p.web THEN p.domain ELSE effective_domain(r),
   port   |-> IF p.web THEN Blank ELSE remote_port_number(r),
   encryption |-> parse_boolish(r.encryption), compression |-> parse_boolish(r.compression),
   extra |-> r.extra]

from_remote_input(input) ==
  [input EXCEPT !.port = IF input.web THEN Blank ELSE @, !.domain = IF input.web THEN @ ELSE Blank]

(* ChmlFrp keeps what it is sent, and gives a port where none is asked for. *)
Keep(payload) ==
  IF ~payload.web /\ payload.port = Blank
  THEN \E p \in Ports : held' = [payload EXCEPT !.port = p]
  ELSE held' = payload

-----------------------------------------------------------------------------
(* The plan. *)

Exists  == held # NoTunnelHeld
Planned == plan # NoPlan

(* A plan that is written is not what the tunnel is like any more.         *)
PlanWritten ==
  /\ \E w \in BOOLEAN, a \in Locals, d \in Domains \cup {Blank} :
       /\ w => d # Blank
       /\ plan' = [web |-> w, at |-> a, domain |-> d]
  /\ asked' = Blank /\ taken' = NoPlan /\ test' = "none"
  /\ UNCHANGED <<shape, held>>

PlanRemoved ==
  /\ Planned /\ plan' = NoPlan
  /\ asked' = Blank /\ taken' = NoPlan /\ test' = "none"
  /\ UNCHANGED <<shape, held>>

(* import_remote_tunnel and import_all_remote_tunnels.                     *)
Imported ==
  /\ ~Planned /\ Exists
  /\ LET r == Listed(held) IN
     /\ r.web => effective_domain(r) # Blank
     /\ plan' = [web |-> r.web, at |-> r.at, domain |-> effective_domain(r)]
     /\ asked' = r.node
  /\ test' = "none"
  /\ UNCHANGED <<shape, held, taken>>

-----------------------------------------------------------------------------
(* reconcile_all, migrate_to and rollback_provider, for this tunnel. *)

Reconciled(node) ==
  /\ Planned
  /\ IF ~Exists THEN Keep(from_plan(plan, node, Blank))
     ELSE IF matches_plan_on_node(Listed(held), plan, node) THEN UNCHANGED held
     ELSE Keep(sync_payload(Listed(held), plan, node))
  /\ asked' = node /\ taken' = NoPlan /\ test' = "none"
  /\ UNCHANGED <<shape, plan>>

Moved(node) ==
  /\ Planned /\ Exists
  /\ taken' = Listed(held)
  /\ Keep(sync_payload(Listed(held), plan, node))
  /\ asked' = node /\ test' = "none"
  /\ UNCHANGED <<shape, plan>>

RolledBack ==
  /\ taken # NoPlan
  /\ Keep(sync_payload(taken, plan, taken.node))
  /\ asked' = taken.node /\ taken' = NoPlan /\ test' = "none"
  /\ UNCHANGED <<shape, plan>>

-----------------------------------------------------------------------------
(* Tunnels without a plan. *)

(* create_remote_tunnel and update_remote_tunnel, with an input that       *)
(* validate_remote_tunnel accepts.                                         *)
Edited ==
  /\ ~Planned
  /\ \E input \in Held : Keep(from_remote_input(input))
  /\ test' = "none"
  /\ UNCHANGED <<shape, plan, taken, asked>>

(* In ChmlFrp's own panel.                                                 *)
Deleted ==
  /\ Exists /\ held' = NoTunnelHeld
  /\ asked' = Blank /\ taken' = NoPlan /\ test' = "none"
  /\ UNCHANGED <<shape, plan>>

HasMutation(r) == r.web \/ r.remote_endpoint \in Ports

mutation_from_remote(r) ==
  [node |-> r.node, at |-> r.at, web |-> r.web, domain |-> effective_domain(r),
   port |-> IF r.web THEN Blank ELSE r.remote_endpoint,
   encryption |-> parse_boolish(r.encryption), compression |-> parse_boolish(r.compression),
   extra |-> r.extra]

(* A mutant of preserved: the write has taken the domain away.             *)
preserved_but_domain(before, after) == [after EXCEPT !.domain = before.domain] = before

preserved(before, after) == after = before

(* chmlfrp_test_write: what was listed is written back, and listed again.  *)
(* It exists to find out what ChmlFrp makes of a write, which may be       *)
(* anything.                                                               *)
TestedWrite ==
  /\ ~Planned /\ Exists /\ HasMutation(Listed(held))
  /\ LET m == mutation_from_remote(Listed(held)) IN
     /\ Keep(from_remote_input(m)) \/ held' \in Held
     /\ test' = IF /\ HasMutation(Listed(held'))
                   /\ preserved(m, mutation_from_remote(Listed(held')))
                THEN "preserved" ELSE "conflict"
  /\ UNCHANGED <<shape, plan, taken, asked>>

FieldsNext ==
  \/ PlanWritten \/ PlanRemoved \/ Imported
  \/ \E n \in Places : Reconciled(n) \/ Moved(n)
  \/ RolledBack
  \/ Edited \/ Deleted \/ TestedWrite

FieldsSpec == FieldsInit /\ [][FieldsNext]_fieldVars

-----------------------------------------------------------------------------
(* What the server promises. *)

(* What was brought somewhere, or found there by an import, is seen to be  *)
(* there and as planned, in either shape of the list: the verification     *)
(* passes and the next reconcile leaves the tunnel alone.                  *)
SyncIsSeen == asked # Blank => Exists /\ matches_plan_on_node(Listed(held), plan, asked)

(* What a plan does not say is the same in two listed tunnels; a web       *)
(* tunnel has no port of its own.                                          *)
SameRest(r, s) ==
  /\ r.encryption = s.encryption /\ r.compression = s.compression /\ r.extra = s.extra
  /\ r.web \/ s.web \/ r.remote_endpoint = s.remote_endpoint

(* Moves to another node, repairs and rollbacks keep what the plan does    *)
(* not say: port, flags and extra parameters of the tunnel are those of    *)
(* the list the server started from, however many moves there are.         *)
MovesKeepTheRest ==
  [][/\ Exists /\ (\E n \in Places : Moved(n) \/ Reconciled(n)) => SameRest(Listed(held), Listed(held)')
     /\ RolledBack => SameRest(taken, Listed(held)')]_fieldVars

(* A write test that succeeds has left every field the list shows as it    *)
(* was, whatever ChmlFrp made of the write.                                *)
TestIsHonest == [][TestedWrite /\ test' = "preserved" => Listed(held)' = Listed(held)]_fieldVars

(* The rollback is reported as a restoration of every tunnel it touches    *)
(* (coordinator.rs:847): a tunnel that was not as planned before comes     *)
(* back as planned.                                                        *)
RollbackIsExact == [][RolledBack => Listed(held)' = taken]_fieldVars
=============================================================================
