--------------------------- MODULE FunctionProofs ---------------------------
(***************************************************************************)
(* What FrpcLog, OrderedCandidates, StatusRows and TunnelFields promise,   *)
(* for any names, lists, nodes, addresses, ports and parameters.           *)
(***************************************************************************)
EXTENDS FrpcLog, OrderedCandidates, StatusRows, TunnelFields, FiniteSetTheorems, TLAPS

-----------------------------------------------------------------------------
(* The rows of the dashboard. *)

RowsTyped ==
  /\ dns_managed \in BOOLEAN /\ info \in BOOLEAN
  /\ chml \in {"off", "down", "up"} /\ cf \in {"off", "down", "up"}
  /\ tunnel \in Tunnel /\ addresses \in SUBSET Servers
  /\ phase \in {"idle", "failover", "dns_switching", "degraded_dns", "failed"}
  /\ shown \in [Keys -> {"none", "ok", "starting", "failed"}]

(* What is shown as started was reported by the process started last.      *)
ShownWell == \A k \in Keys : shown[k] = "ok" => k \in well

RowsInv == RowsTyped /\ ShownWell

LEMMA RowsStep == RowsInv /\ [RowsNext]_rowVars => RowsInv'
<1> SUFFICES ASSUME RowsInv, [RowsNext]_rowVars PROVE RowsInv'
  OBVIOUS
<1>0. RowsTyped /\ ShownWell
  BY DEF RowsInv
<1>1. CASE ProvidersChange
  <2>1. UNCHANGED <<dns_managed, phase, shown, well>>
    BY <1>1 DEF ProvidersChange, localVars, frpcVars
  <2>2. /\ chml' \in {"off", "down", "up"} /\ cf' \in {"off", "down", "up"}
        /\ tunnel' \in Tunnel /\ addresses' \in SUBSET Servers /\ info' \in BOOLEAN
    BY <1>0, <1>1 DEF ProvidersChange, RowsTyped
  <2> QED BY <1>0, <2>1, <2>2 DEF RowsInv, RowsTyped, ShownWell
<1>2. CASE RowsChange
  <2>1. UNCHANGED <<chml, cf, tunnel, addresses, info, shown, well>>
    BY <1>2 DEF RowsChange, remoteVars, frpcVars
  <2>2. /\ dns_managed' \in BOOLEAN
        /\ phase' \in {"idle", "failover", "dns_switching", "degraded_dns", "failed"}
    BY <1>0, <1>2 DEF RowsChange, RowsTyped
  <2> QED BY <1>0, <2>1, <2>2 DEF RowsInv, RowsTyped, ShownWell
<1>3. ASSUME UNCHANGED <<remoteVars, localVars>>,
             shown' \in [Keys -> {"none", "ok", "starting", "failed"}],
             \A k \in Keys : shown'[k] = "ok" => k \in well'
      PROVE  RowsInv'
  BY <1>0, <1>3 DEF RowsInv, RowsTyped, ShownWell, remoteVars, localVars
<1>4. CASE FrpcStarts
  BY <1>3, <1>4 DEF FrpcStarts
<1>5. CASE FrpcEnds \/ UNCHANGED rowVars
  <2>1. UNCHANGED <<shown, well, remoteVars, localVars>>
    BY <1>5 DEF FrpcEnds, rowVars, frpcVars
  <2> QED BY <1>0, <1>3, <2>1 DEF RowsTyped, ShownWell
<1>6. CASE FrpcSays
  <2>1. CASE UNCHANGED <<shown, well>>
    BY <1>0, <1>3, <1>6, <2>1 DEF FrpcSays, RowsTyped, ShownWell
  <2>2. CASE shown' = [k \in Keys |-> IF shown[k] = "none" THEN "none" ELSE "failed"]
    BY <1>3, <1>6, <2>2 DEF FrpcSays
  <2>3. CASE \E k \in Keys, l \in {"ok", "starting", "failed"} :
               /\ shown' = [shown EXCEPT ![k] = l]
               /\ well' = IF l = "ok" THEN well \cup {k} ELSE well \ {k}
    BY <1>0, <1>3, <1>6, <2>3 DEF FrpcSays, RowsTyped, ShownWell
  <2> QED BY <1>6, <2>1, <2>2, <2>3 DEF FrpcSays
<1> QED BY <1>1, <1>2, <1>4, <1>5, <1>6 DEF RowsNext

LEMMA RowsInvariant == RowsSpec => []RowsInv
<1>1. RowsInit => RowsInv
  BY DEF RowsInit, RowsInv, RowsTyped, ShownWell, Tunnel, NoTunnel
<1> QED BY <1>1, RowsStep, PTL DEF RowsSpec

(* A row of the dashboard during an outage says that it does not know.     *)
THEOREM OutageShown == RowsSpec => []OutageIsNotAbsence
<1>1. OutageIsNotAbsence
  <2> SUFFICES ASSUME NEW l \in find_frpc_state
               PROVE
        /\ chml = "down" => chmlfrp_status = "unknown"
                            /\ (phase = "idle" => overall_status(l) = "unknown")
        /\ cf = "down" /\ dns_managed => cloudflare_status = "unknown" /\ overall_status(l) # "ok"
        /\ cf = "down" /\ phase = "idle" /\ chmlfrp_status = "ok" => overall_status(l) # "drift"
    BY DEF OutageIsNotAbsence, build_rows
  <2>1. chml = "down" => chmlfrp_status = "unknown"
    BY DEF chmlfrp_status
  <2>2. cf = "down" => cloudflare_status \in {"disabled", "unknown"}
    BY DEF cloudflare_status
  <2>3. cf = "down" /\ dns_managed => cloudflare_status = "unknown"
    BY DEF cloudflare_status
  <2> QED BY <2>1, <2>2, <2>3 DEF overall_status
<1> QED BY <1>1, PTL

(* Of the states FRPC may be shown in for the plan, one that is well is    *)
(* that of a proxy which has reported so.                                  *)
LEMMA OkIsReported == ASSUME RowsInv, "ok" \in find_frpc_state PROVE well # {}
<1>1. fallback_frpc_status # "ok"
  BY DEF fallback_frpc_status
<1>2. \E k \in Keys : shown[k] = "ok"
  BY <1>1 DEF find_frpc_state, Keys
<1> QED BY <1>2 DEF RowsInv, ShownWell

(* A row that is well is well at both providers and in FRPC.               *)
THEOREM OkEverywhere == RowsSpec => []OkIsEverywhere
<1>1. RowsInv => OkIsEverywhere
  <2> SUFFICES ASSUME RowsInv, NEW l \in find_frpc_state, overall_status(l) = "ok"
               PROVE
        /\ phase = "idle" /\ chml = "up" /\ tunnel.same /\ active \in {tunnel.node, NoServer}
        /\ well # {}
        /\ dns_managed => cf = "up" /\ Cardinality(addresses) = 1
                          /\ (info => active \in addresses \cup {NoServer})
    BY DEF OkIsEverywhere, build_rows
  <2>1. /\ phase = "idle" /\ chmlfrp_status = "ok" /\ l = "ok"
        /\ dns_managed => cloudflare_status = "ok"
    BY DEF overall_status, RowsInv, RowsTyped
  <2>2. chml = "up" /\ tunnel.same /\ active \in {tunnel.node, NoServer}
    BY <2>1 DEF chmlfrp_status, RowsInv, RowsTyped, Tunnel, NoTunnel
  <2>3. well # {}
    BY <2>1, OkIsReported
  <2>4. ASSUME dns_managed
        PROVE  cf = "up" /\ Cardinality(addresses) = 1
               /\ (info => active \in addresses \cup {NoServer})
    <3>1. cf = "up" /\ addresses # {} /\ ~(Cardinality(addresses) > 1)
          /\ ~(AddressKnown /\ active \notin addresses)
      BY <2>1, <2>4 DEF cloudflare_status, RowsInv, RowsTyped
    <3>2. IsFiniteSet(addresses)
      BY RowsAssumption, FS_Subset DEF RowsInv, RowsTyped
    <3>3. Cardinality(addresses) \in Nat /\ Cardinality(addresses) # 0
      BY <3>1, <3>2, FS_CardinalityType, FS_EmptySet
    <3> QED BY <2>2, <3>1, <3>3 DEF AddressKnown
  <2> QED BY <2>1, <2>2, <2>3, <2>4
<1> QED BY <1>1, RowsInvariant, PTL

-----------------------------------------------------------------------------
(* The fields of a tunnel. *)

Plans == [web : {TRUE}, at : Locals, domain : Domains]
         \cup [web : {FALSE}, at : Locals, domain : Domains \cup {Blank}]

(* What create and update may be sent: a tunnel, its port perhaps open.    *)
Payloads == [node : Places, at : Locals, web : {TRUE}, domain : Domains, port : {Blank},
             encryption : BOOLEAN, compression : BOOLEAN, extra : Extras]
            \cup
            [node : Places, at : Locals, web : {FALSE}, domain : Domains \cup {Blank},
             port : Ports \cup {Blank},
             encryption : BOOLEAN, compression : BOOLEAN, extra : Extras]

FieldsTyped ==
  /\ shape \in {"documented", "legacy"}
  /\ held \in Held \cup {NoTunnelHeld}
  /\ plan \in Plans \cup {NoPlan}
  /\ taken = NoPlan \/ \E t \in Held : taken = Listed(t)
  /\ asked \in Places \cup {Blank}

(* Only what is planned is brought somewhere or kept for a rollback.       *)
ForPlan == ~Planned => asked = Blank /\ taken = NoPlan

FieldsInv == FieldsTyped /\ ForPlan /\ SyncIsSeen

LEMMA Absent == NoPlan \notin Plans /\ NoTunnelHeld \notin Held
<1>1. \A p \in Plans : DOMAIN p = {"web", "at", "domain"}
  BY DEF Plans
<1>2. \A t \in Held : DOMAIN t = {"node", "at", "web", "domain", "port", "encryption", "compression", "extra"}
  BY DEF Held
<1>3. DOMAIN NoPlan = {"web", "at"}
  BY DEF NoPlan
<1>4. "domain" \notin {"web", "at"}
  OBVIOUS
<1> QED BY <1>1, <1>2, <1>3, <1>4 DEF NoTunnelHeld

LEMMA HeldFields ==
  ASSUME NEW t \in Held
  PROVE  /\ t.node \in Places /\ t.at \in Locals /\ t.web \in BOOLEAN
         /\ t.web => t.domain \in Domains /\ t.port = Blank
         /\ ~t.web => t.domain \in Domains \cup {Blank} /\ t.port \in Ports
         /\ t.encryption \in BOOLEAN /\ t.compression \in BOOLEAN /\ t.extra \in Extras
  BY DEF Held

LEMMA PlanFields ==
  ASSUME NEW p \in Plans
  PROVE  /\ p.at \in Locals /\ p.web \in BOOLEAN
         /\ p.web => p.domain \in Domains
         /\ p.domain \in Domains \cup {Blank}
  BY DEF Plans

(* The text of a flag is read back as the flag.                            *)
LEMMA FlagText ==
  ASSUME shape \in {"documented", "legacy"}, NEW b \in BOOLEAN
  PROVE  parse_boolish(deserialize_string_or_bool(b)) = b
  BY DEF parse_boolish, deserialize_string_or_bool

(* What the list shows of a tunnel.                                        *)
LEMMA ListedFields ==
  ASSUME shape \in {"documented", "legacy"}, NEW t \in Held
  PROVE  /\ Listed(t).node = t.node /\ Listed(t).at = t.at /\ Listed(t).web = t.web
         /\ Listed(t).extra = t.extra
         /\ parse_boolish(Listed(t).encryption) = t.encryption
         /\ parse_boolish(Listed(t).compression) = t.compression
         /\ ~t.web => Listed(t).remote_endpoint = t.port
         /\ effective_domain(Listed(t)) = IF t.web \/ shape = "legacy" THEN t.domain ELSE Blank
<1>1. /\ Listed(t).node = t.node /\ Listed(t).at = t.at /\ Listed(t).web = t.web
      /\ Listed(t).extra = t.extra
      /\ Listed(t).encryption = deserialize_string_or_bool(t.encryption)
      /\ Listed(t).compression = deserialize_string_or_bool(t.compression)
      /\ Listed(t).remote_endpoint = IF shape = "documented" /\ t.web THEN t.domain ELSE t.port
      /\ Listed(t).band_domain = IF shape = "documented" THEN {} ELSE {t.domain}
  BY DEF Listed
<1>2. t.encryption \in BOOLEAN /\ t.compression \in BOOLEAN /\ t.web \in BOOLEAN
  BY HeldFields
<1>3. shape = "legacy" => (CHOOSE d \in Listed(t).band_domain : TRUE) = t.domain
  BY <1>1
<1> HIDE DEF Listed
<1> QED BY <1>1, <1>2, <1>3, FlagText DEF effective_domain

(* What is sent for a plan, of a listed tunnel or a new one, leads where   *)
(* the plan says and is a tunnel; the listed one keeps the rest.           *)
LEMMA SyncPayload ==
  ASSUME shape \in {"documented", "legacy"}, NEW t \in Held, NEW p \in Plans, NEW node \in Places
  PROVE  LET m == sync_payload(Listed(t), p, node) IN
         /\ m \in Payloads
         /\ m.node = node /\ m.at = p.at /\ m.web = p.web /\ (p.web => m.domain = p.domain)
         /\ m.encryption = t.encryption /\ m.compression = t.compression /\ m.extra = t.extra
         /\ ~t.web /\ ~p.web => m.port = t.port
<1> DEFINE r == Listed(t)
           m == sync_payload(r, p, node)
<1>1. /\ r.extra \in Extras /\ r.extra = t.extra /\ r.web = t.web
      /\ parse_boolish(r.encryption) = t.encryption /\ parse_boolish(r.compression) = t.compression
      /\ t.encryption \in BOOLEAN /\ t.compression \in BOOLEAN
      /\ ~t.web => r.remote_endpoint = t.port /\ t.port \in Ports
      /\ effective_domain(r) \in Domains \cup {Blank}
  BY ListedFields, HeldFields
<1>2. remote_port_number(r) \in Ports \cup {Blank} /\ (~t.web => remote_port_number(r) = t.port)
  BY <1>1 DEF remote_port_number
<1>3. p.at \in Locals /\ p.web \in BOOLEAN /\ (p.web => p.domain \in Domains)
  BY PlanFields
<1> HIDE DEF r
<1>4. m = [node |-> node, at |-> p.at, web |-> p.web,
           domain |-> IF p.web THEN p.domain ELSE effective_domain(r),
           port   |-> IF p.web THEN Blank ELSE remote_port_number(r),
           encryption |-> t.encryption, compression |-> t.compression, extra |-> t.extra]
  BY <1>1 DEF sync_payload
<1> HIDE DEF m
<1>5. m \in Payloads
  BY <1>1, <1>2, <1>3, <1>4 DEF Payloads
<1>6. /\ m.node = node /\ m.at = p.at /\ m.web = p.web /\ (p.web => m.domain = p.domain)
      /\ m.encryption = t.encryption /\ m.compression = t.compression /\ m.extra = t.extra
      /\ ~t.web /\ ~p.web => m.port = t.port
  BY <1>2, <1>3, <1>4
<1> QED BY <1>5, <1>6 DEF m, r

LEMMA PlanPayload ==
  ASSUME NEW p \in Plans, NEW node \in Places
  PROVE  LET m == from_plan(p, node, Blank) IN
         /\ m \in Payloads
         /\ m.node = node /\ m.at = p.at /\ m.web = p.web /\ m.domain = p.domain
<1>1. p.at \in Locals /\ p.web \in BOOLEAN /\ (p.web => p.domain \in Domains)
      /\ p.domain \in Domains \cup {Blank}
  BY PlanFields
<1> QED BY <1>1, FieldsAssumption DEF from_plan, Payloads

(* ChmlFrp holds what it is sent, with a port of its own where none was    *)
(* asked for.                                                              *)
LEMMA Kept ==
  ASSUME NEW m \in Payloads, Keep(m)
  PROVE  /\ held' \in Held
         /\ held'.node = m.node /\ held'.at = m.at /\ held'.web = m.web /\ held'.domain = m.domain
         /\ held'.encryption = m.encryption /\ held'.compression = m.compression
         /\ held'.extra = m.extra
         /\ m.port # Blank => held'.port = m.port
<1>1. CASE ~m.web /\ m.port = Blank
  <2>1. PICK q \in Ports : held' = [m EXCEPT !.port = q]
    BY <1>1 DEF Keep
  <2>2. m \in [node : Places, at : Locals, web : {FALSE}, domain : Domains \cup {Blank},
               port : Ports \cup {Blank},
               encryption : BOOLEAN, compression : BOOLEAN, extra : Extras]
    BY <1>1 DEF Payloads
  <2> QED BY <1>1, <2>1, <2>2 DEF Held
<1>2. CASE ~(~m.web /\ m.port = Blank)
  <2>1. held' = m
    BY <1>2 DEF Keep
  <2>2. m \in Held
    BY <1>2 DEF Payloads, Held
  <2> QED BY <2>1, <2>2
<1> QED BY <1>1, <1>2

(* A tunnel that leads where a plan says is seen to do so in the list.     *)
LEMMA Matches ==
  ASSUME shape \in {"documented", "legacy"}, NEW t \in Held, NEW p \in Plans, NEW node,
         t.node = node, t.at = p.at, t.web = p.web, p.web => t.domain = p.domain
  PROVE  matches_plan_on_node(Listed(t), p, node)
  BY ListedFields DEF matches_plan_on_node

LEMMA Synced ==
  ASSUME shape \in {"documented", "legacy"}, NEW p \in Plans, NEW node \in Places,
         NEW m \in Payloads, Keep(m),
         m.node = node, m.at = p.at, m.web = p.web, p.web => m.domain = p.domain,
         shape' = shape, plan' = p, plan = p, asked' = node
  PROVE  held' \in Held /\ SyncIsSeen'
<1>1. /\ held' \in Held
      /\ held'.node = m.node /\ held'.at = m.at /\ held'.web = m.web /\ held'.domain = m.domain
  BY Kept
<1>2. matches_plan_on_node(Listed(held'), p, node)
  BY <1>1, Matches
<1>3. matches_plan_on_node(Listed(held), plan, asked)'
  BY <1>2 DEF matches_plan_on_node, effective_domain, Listed, deserialize_string_or_bool
<1>4. Exists'
  BY <1>1, Absent DEF Exists, NoTunnelHeld, NoPlan
<1> QED BY <1>1, <1>3, <1>4 DEF SyncIsSeen

LEMMA EditPayload ==
  ASSUME NEW m \in Payloads
  PROVE  from_remote_input(m) \in Payloads
  BY FieldsAssumption DEF from_remote_input, Payloads

LEMMA HeldPayload == Held \subseteq Payloads
  BY DEF Held, Payloads

(* What the write test reads, and writes back.                             *)
LEMMA TestPayload ==
  ASSUME shape \in {"documented", "legacy"}, NEW t \in Held
  PROVE  mutation_from_remote(Listed(t)) \in Payloads
<1> DEFINE r == Listed(t)
<1>1. /\ r.node \in Places /\ r.at \in Locals /\ r.web \in BOOLEAN /\ r.extra \in Extras
      /\ parse_boolish(r.encryption) \in BOOLEAN /\ parse_boolish(r.compression) \in BOOLEAN
      /\ ~r.web => r.remote_endpoint \in Ports
      /\ r.web => effective_domain(r) \in Domains
      /\ effective_domain(r) \in Domains \cup {Blank}
  BY ListedFields, HeldFields
<1> HIDE DEF r
<1> QED BY <1>1 DEF mutation_from_remote, Payloads, r

LEMMA FieldsStep == FieldsInv /\ [FieldsNext]_fieldVars => FieldsInv'
<1> SUFFICES ASSUME FieldsInv, [FieldsNext]_fieldVars PROVE FieldsInv'
  OBVIOUS
<1>0. FieldsTyped /\ ForPlan /\ SyncIsSeen /\ shape \in {"documented", "legacy"}
  BY DEF FieldsInv, FieldsTyped
<1>1. shape' = shape
  BY DEF FieldsNext, fieldVars, PlanWritten, PlanRemoved, Imported, Reconciled, Moved, RolledBack,
         Edited, Deleted, TestedWrite
<1>2. \A t : Listed(t)' = Listed(t)
  BY <1>1 DEF Listed, deserialize_string_or_bool
<1>3. plan = NoPlan <=> ~Planned
  BY DEF Planned
<1>4. Planned => plan \in Plans
  BY <1>0, <1>3 DEF FieldsTyped
<1>5. Exists => held \in Held
  BY <1>0 DEF FieldsTyped, Exists
<1>6. \A x : x = NoPlan \/ (\E t \in Held : x = Listed(t)) =>
             x = NoPlan \/ (\E t \in Held : x = Listed(t)')
  BY <1>2
<1>7. ASSUME held' \in Held \cup {NoTunnelHeld}, plan' \in Plans \cup {NoPlan},
             asked' = Blank, taken' = NoPlan
      PROVE  FieldsInv'
  BY <1>0, <1>1, <1>7 DEF FieldsInv, FieldsTyped, ForPlan, SyncIsSeen
<1>8. ASSUME NEW node \in Places, NEW m \in Payloads, Planned, Keep(m),
             m.node = node, m.at = plan.at, m.web = plan.web, plan.web => m.domain = plan.domain,
             plan' = plan, asked' = node,
             taken' = NoPlan \/ \E t \in Held : taken' = Listed(t)
      PROVE  FieldsInv'
  <2>1. held' \in Held /\ SyncIsSeen'
    BY <1>0, <1>1, <1>4, <1>8, Synced
  <2>2. Planned'
    BY <1>8 DEF Planned
  <2>3. FieldsTyped'
    BY <1>0, <1>1, <1>6, <1>8, <2>1 DEF FieldsTyped
  <2> QED BY <2>1, <2>2, <2>3 DEF FieldsInv, ForPlan
<1>9. CASE PlanWritten
  <2>1. PICK w \in BOOLEAN, a \in Locals, d \in Domains \cup {Blank} :
                (w => d # Blank) /\ plan' = [web |-> w, at |-> a, domain |-> d]
    BY <1>9 DEF PlanWritten
  <2>2. w = TRUE \/ w = FALSE
    OBVIOUS
  <2>3. w = TRUE => [web |-> w, at |-> a, domain |-> d] \in [web : {TRUE}, at : Locals, domain : Domains]
    BY <2>1
  <2>4. plan' \in Plans
    BY <2>1, <2>2, <2>3 DEF Plans
  <2> QED BY <1>0, <1>7, <1>9, <2>4 DEF PlanWritten, FieldsTyped
<1>10. CASE PlanRemoved
  BY <1>0, <1>7, <1>10 DEF PlanRemoved, FieldsTyped
<1>11. CASE Imported
  <2> DEFINE r == Listed(held)
  <2>1. /\ held \in Held /\ held' = held /\ taken' = taken /\ asked' = r.node
        /\ r.web => effective_domain(r) # Blank
        /\ plan' = [web |-> r.web, at |-> r.at, domain |-> effective_domain(r)]
    BY <1>5, <1>11 DEF Imported
  <2>2. /\ r.node \in Places /\ r.at \in Locals /\ r.web \in BOOLEAN
        /\ effective_domain(r) \in Domains \cup {Blank}
    BY <1>0, <2>1, ListedFields, HeldFields
  <2> HIDE DEF r
  <2>3. plan' \in Plans
    BY <2>1, <2>2 DEF Plans
  <2>4. matches_plan_on_node(r, plan', asked')
    BY <2>1 DEF matches_plan_on_node
  <2>5. SyncIsSeen'
    <3>1. Exists'
      BY <2>1, Absent DEF Exists, NoTunnelHeld, NoPlan
    <3>2. matches_plan_on_node(Listed(held), plan, asked)'
      BY <1>1, <2>1, <2>4 DEF matches_plan_on_node, effective_domain, Listed,
                              deserialize_string_or_bool, r
    <3> QED BY <3>1, <3>2 DEF SyncIsSeen
  <2>6. Planned'
    BY <2>3, Absent DEF Planned, NoPlan
  <2>7. FieldsTyped'
    BY <1>0, <1>1, <1>6, <2>1, <2>2, <2>3 DEF FieldsTyped
  <2> QED BY <2>5, <2>6, <2>7 DEF FieldsInv, ForPlan
<1>12. ASSUME NEW n \in Places, Reconciled(n) PROVE FieldsInv'
  <2>1. Planned /\ plan' = plan /\ asked' = n /\ taken' = NoPlan
    BY <1>12 DEF Reconciled
  <2>2. CASE ~Exists
    BY <1>4, <1>8, <1>12, <2>1, <2>2, PlanPayload DEF Reconciled
  <2>3. CASE Exists /\ ~matches_plan_on_node(Listed(held), plan, n)
    BY <1>0, <1>4, <1>5, <1>8, <1>12, <2>1, <2>3, SyncPayload DEF Reconciled
  <2>4. CASE Exists /\ matches_plan_on_node(Listed(held), plan, n)
    <3>1. held' = held
      BY <1>12, <2>4 DEF Reconciled
    <3>2. SyncIsSeen'
      BY <1>1, <2>1, <2>4, <3>1 DEF SyncIsSeen, Exists, matches_plan_on_node, effective_domain,
                                    Listed, deserialize_string_or_bool
    <3>3. FieldsTyped'
      BY <1>0, <1>1, <2>1, <3>1 DEF FieldsTyped
    <3> QED BY <2>1, <3>2, <3>3 DEF FieldsInv, ForPlan, Planned
  <2> QED BY <2>2, <2>3, <2>4
<1>13. ASSUME NEW n \in Places, Moved(n) PROVE FieldsInv'
  <2>1. Planned /\ plan' = plan /\ asked' = n /\ held \in Held /\ taken' = Listed(held)
    BY <1>5, <1>13 DEF Moved
  <2> QED BY <1>0, <1>4, <1>8, <1>13, <2>1, SyncPayload DEF Moved
<1>14. CASE RolledBack
  <2>1. taken # NoPlan /\ plan' = plan /\ asked' = taken.node /\ taken' = NoPlan
    BY <1>14 DEF RolledBack
  <2>2. Planned
    BY <1>0, <2>1 DEF ForPlan
  <2>3. PICK t \in Held : taken = Listed(t)
    BY <1>0, <2>1 DEF FieldsTyped
  <2>4. taken.node \in Places
    BY <1>0, <2>3, ListedFields, HeldFields
  <2> QED BY <1>0, <1>4, <1>8, <1>14, <2>1, <2>2, <2>3, <2>4, SyncPayload DEF RolledBack
<1>15. CASE Edited \/ TestedWrite
  <2>1. ~Planned /\ plan' = plan /\ asked' = Blank /\ taken' = NoPlan
    BY <1>0, <1>15 DEF Edited, TestedWrite, ForPlan
  <2>2. held' \in Held
    <3>1. CASE Edited
      <4>1. PICK input \in Held : Keep(from_remote_input(input))
        BY <3>1 DEF Edited
      <4>2. from_remote_input(input) \in Payloads
        BY EditPayload, HeldPayload
      <4> QED BY <4>1, <4>2, Kept
    <3>2. CASE TestedWrite
      <4> DEFINE m == mutation_from_remote(Listed(held))
      <4>1. held' \in Held \/ Keep(from_remote_input(m))
        BY <3>2 DEF TestedWrite
      <4>2. held \in Held
        BY <1>5, <3>2 DEF TestedWrite
      <4>3. from_remote_input(m) \in Payloads
        BY <1>0, <4>2, TestPayload, EditPayload
      <4> HIDE DEF m
      <4> QED BY <4>1, <4>3, Kept
    <3> QED BY <1>15, <3>1, <3>2
  <2> QED BY <1>0, <1>7, <2>1, <2>2 DEF FieldsTyped
<1>16. CASE Deleted
  BY <1>0, <1>7, <1>16 DEF Deleted, FieldsTyped
<1>17. CASE UNCHANGED fieldVars
  <2>1. held' = held /\ plan' = plan /\ asked' = asked /\ taken' = taken
    BY <1>17 DEF fieldVars
  <2>2. FieldsTyped'
    BY <1>0, <1>1, <1>6, <2>1 DEF FieldsTyped
  <2>3. ForPlan'
    BY <1>0, <2>1 DEF ForPlan, Planned
  <2>4. SyncIsSeen'
    BY <1>0, <1>1, <2>1 DEF SyncIsSeen, Exists, matches_plan_on_node, effective_domain,
                            Listed, deserialize_string_or_bool
  <2> QED BY <2>2, <2>3, <2>4 DEF FieldsInv
<1> QED
  BY <1>9, <1>10, <1>11, <1>12, <1>13, <1>14, <1>15, <1>16, <1>17 DEF FieldsNext

LEMMA FieldsInvariant == FieldsSpec => []FieldsInv
<1>1. FieldsInit => FieldsInv
  BY DEF FieldsInit, FieldsInv, FieldsTyped, ForPlan, SyncIsSeen
<1> QED BY <1>1, FieldsStep, PTL DEF FieldsSpec

(* A synced, moved, rolled back or imported tunnel is found by the list to *)
(* be where and what the plan says, whichever shape the list has.          *)
THEOREM SyncSeen == FieldsSpec => []SyncIsSeen
<1>1. FieldsInv => SyncIsSeen
  BY DEF FieldsInv
<1> QED BY <1>1, FieldsInvariant, PTL

(* What is sent for a listed tunnel leaves in the list what no plan says.  *)
LEMMA RestKept ==
  ASSUME shape \in {"documented", "legacy"}, shape' = shape,
         NEW t \in Held, NEW p \in Plans, NEW node \in Places,
         Keep(sync_payload(Listed(t), p, node))
  PROVE  SameRest(Listed(t), Listed(held)')
<1> DEFINE m == sync_payload(Listed(t), p, node)
<1>1. /\ m \in Payloads /\ m.web = p.web
      /\ m.encryption = t.encryption /\ m.compression = t.compression /\ m.extra = t.extra
      /\ ~t.web /\ ~p.web => m.port = t.port
  BY SyncPayload
<1>2. t.web \in BOOLEAN /\ (~t.web => t.port \in Ports) /\ Blank \notin Ports
  BY HeldFields, FieldsAssumption
<1>3. /\ held' \in Held /\ held'.web = m.web /\ held'.encryption = t.encryption
      /\ held'.compression = t.compression /\ held'.extra = t.extra
      /\ m.port # Blank => held'.port = m.port
  BY <1>1, Kept
<1> HIDE DEF m
<1>4. ~t.web /\ ~held'.web => held'.port = t.port
  BY <1>1, <1>2, <1>3
<1>5. Listed(held)' = Listed(held')
  BY DEF Listed, deserialize_string_or_bool
<1>6. /\ Listed(t).encryption = Listed(held').encryption
      /\ Listed(t).compression = Listed(held').compression
      /\ Listed(t).extra = Listed(held').extra
  BY <1>3 DEF Listed
<1>7. Listed(t).web \/ Listed(held').web
      \/ Listed(t).remote_endpoint = Listed(held').remote_endpoint
  BY <1>3, <1>4, ListedFields
<1> QED BY <1>5, <1>6, <1>7 DEF SameRest

(* Repairs, moves and rollbacks, however many, change nothing of a tunnel  *)
(* that its plan does not say.                                             *)
THEOREM RestKeptByMoves == FieldsSpec => MovesKeepTheRest
<1> DEFINE Rest ==
      /\ Exists /\ (\E n \in Places : Moved(n) \/ Reconciled(n)) => SameRest(Listed(held), Listed(held)')
      /\ RolledBack => SameRest(taken, Listed(held)')
<1>1. ASSUME FieldsInv PROVE Rest
  <2>0. /\ shape \in {"documented", "legacy"}
        /\ Exists => held \in Held
        /\ Planned => plan \in Plans
    BY <1>1 DEF FieldsInv, FieldsTyped, Exists, Planned
  <2>1. ASSUME Exists, NEW n \in Places, Moved(n) \/ Reconciled(n)
        PROVE  SameRest(Listed(held), Listed(held)')
    <3>1. shape' = shape /\ held \in Held /\ plan \in Plans
      BY <2>0, <2>1 DEF Moved, Reconciled
    <3>2. CASE held' = held
      <4>1. Listed(held)' = Listed(held)
        BY <3>1, <3>2 DEF Listed, deserialize_string_or_bool
      <4> QED BY <4>1 DEF SameRest
    <3>3. CASE Keep(sync_payload(Listed(held), plan, n))
      BY <2>0, <3>1, <3>3, RestKept
    <3> QED BY <2>1, <3>2, <3>3 DEF Moved, Reconciled
  <2>2. ASSUME RolledBack PROVE SameRest(taken, Listed(held)')
    <3>1. /\ shape' = shape /\ taken # NoPlan /\ Planned
          /\ Keep(sync_payload(taken, plan, taken.node))
      BY <1>1, <2>2 DEF RolledBack, FieldsInv, ForPlan
    <3>2. PICK t \in Held : taken = Listed(t)
      BY <1>1, <3>1 DEF FieldsInv, FieldsTyped
    <3>3. taken.node \in Places
      BY <2>0, <3>2, ListedFields, HeldFields
    <3> QED BY <2>0, <3>1, <3>2, <3>3, RestKept
  <2> QED BY <2>1, <2>2
<1>2. FieldsInv /\ [FieldsNext]_fieldVars => [Rest]_fieldVars
  BY <1>1
<1> QED BY <1>2, FieldsInvariant, PTL DEF FieldsSpec, MovesKeepTheRest

(* Two tunnels from whose lists the write test reads the same are listed   *)
(* the same.                                                               *)
LEMMA SameMutation ==
  ASSUME shape \in {"documented", "legacy"}, NEW t \in Held, NEW u \in Held,
         mutation_from_remote(Listed(t)) = mutation_from_remote(Listed(u))
  PROVE  Listed(t) = Listed(u)
<1> DEFINE a == Listed(t)
           b == Listed(u)
<1>1. /\ mutation_from_remote(a).node = a.node /\ mutation_from_remote(b).node = b.node
      /\ mutation_from_remote(a).at = a.at /\ mutation_from_remote(b).at = b.at
      /\ mutation_from_remote(a).web = a.web /\ mutation_from_remote(b).web = b.web
      /\ mutation_from_remote(a).domain = effective_domain(a)
      /\ mutation_from_remote(b).domain = effective_domain(b)
      /\ mutation_from_remote(a).port = IF a.web THEN Blank ELSE a.remote_endpoint
      /\ mutation_from_remote(b).port = IF b.web THEN Blank ELSE b.remote_endpoint
      /\ mutation_from_remote(a).encryption = parse_boolish(a.encryption)
      /\ mutation_from_remote(b).encryption = parse_boolish(b.encryption)
      /\ mutation_from_remote(a).compression = parse_boolish(a.compression)
      /\ mutation_from_remote(b).compression = parse_boolish(b.compression)
      /\ mutation_from_remote(a).extra = a.extra /\ mutation_from_remote(b).extra = b.extra
  BY DEF mutation_from_remote
<1> HIDE DEF a, b
<1>2. /\ a.node = b.node /\ a.at = b.at /\ a.web = b.web /\ a.extra = b.extra
      /\ effective_domain(a) = effective_domain(b)
      /\ ~a.web => a.remote_endpoint = b.remote_endpoint
      /\ parse_boolish(a.encryption) = parse_boolish(b.encryption)
      /\ parse_boolish(a.compression) = parse_boolish(b.compression)
  BY <1>1 DEF a, b
<1>3. /\ t.node = u.node /\ t.at = u.at /\ t.web = u.web /\ t.extra = u.extra
      /\ t.encryption = u.encryption /\ t.compression = u.compression
      /\ t.web \/ shape = "legacy" => t.domain = u.domain
      /\ t.port = u.port
  BY <1>2, ListedFields, HeldFields DEF a, b
<1> QED BY <1>3, HeldFields DEF Listed, deserialize_string_or_bool

(* A write test that reports success has changed nothing the list shows.   *)
THEOREM HonestTest == FieldsSpec => TestIsHonest
<1> DEFINE Honest == TestedWrite /\ test' = "preserved" => Listed(held)' = Listed(held)
<1>1. ASSUME FieldsInv, FieldsInv', TestedWrite, test' = "preserved"
      PROVE  Listed(held)' = Listed(held)
  <2>1. /\ shape \in {"documented", "legacy"} /\ shape' = shape
        /\ held \in Held /\ HasMutation(Listed(held'))
        /\ mutation_from_remote(Listed(held')) = mutation_from_remote(Listed(held))
    BY <1>1 DEF TestedWrite, FieldsInv, FieldsTyped, Exists, preserved
  <2>2. held' \in Held
    <3>1. held' \in Held \/ Keep(from_remote_input(mutation_from_remote(Listed(held))))
      BY <1>1 DEF TestedWrite
    <3> QED BY <2>1, <3>1, TestPayload, EditPayload, Kept
  <2>3. Listed(held') = Listed(held)
    BY <2>1, <2>2, SameMutation
  <2> QED BY <2>1, <2>3 DEF Listed, deserialize_string_or_bool
<1>2. FieldsInv /\ FieldsInv' /\ [FieldsNext]_fieldVars => [Honest]_fieldVars
  BY <1>1
<1> QED BY <1>2, FieldsInvariant, PTL DEF FieldsSpec, TestIsHonest
-----------------------------------------------------------------------------
(* What a line of FRPC leads to. *)

(* The phrases in their order, and what each of them makes of a line.      *)
LEMMA PhraseOrder ==
  /\ DOMAIN Rules = 1 .. 10
  /\ Rules[4].phrase = "auth" /\ Rules[5].phrase = "config" /\ Rules[6].phrase = "exists"
  /\ Rules[7].phrase = "session" /\ Rules[8].phrase = "dial"
  /\ \A i \in 1 .. 10 : Rules[i].triggers <=> i \in {6, 7}
  /\ \A i \in 1 .. 10 : Rules[i].type = "NetworkAmbiguous" <=> i = 8
<1>1. /\ DOMAIN Rules = 1 .. 10
      /\ Rules[4].phrase = "auth" /\ Rules[5].phrase = "config" /\ Rules[6].phrase = "exists"
      /\ Rules[7].phrase = "session" /\ Rules[8].phrase = "dial"
  BY DEF Rules
<1>2. /\ ~Rules[1].triggers /\ ~Rules[2].triggers /\ ~Rules[3].triggers /\ ~Rules[4].triggers
      /\ ~Rules[5].triggers /\ Rules[6].triggers /\ Rules[7].triggers /\ ~Rules[8].triggers
      /\ ~Rules[9].triggers /\ ~Rules[10].triggers
  BY DEF Rules
<1>3. /\ Rules[1].type # "NetworkAmbiguous" /\ Rules[2].type # "NetworkAmbiguous"
      /\ Rules[3].type # "NetworkAmbiguous" /\ Rules[4].type # "NetworkAmbiguous"
      /\ Rules[5].type # "NetworkAmbiguous" /\ Rules[6].type # "NetworkAmbiguous"
      /\ Rules[7].type # "NetworkAmbiguous" /\ Rules[8].type = "NetworkAmbiguous"
      /\ Rules[9].type # "NetworkAmbiguous" /\ Rules[10].type # "NetworkAmbiguous"
  BY DEF Rules
<1>4. \A i \in 1 .. 10 : \/ i = 1 \/ i = 2 \/ i = 3 \/ i = 4 \/ i = 5
                         \/ i = 6 \/ i = 7 \/ i = 8 \/ i = 9 \/ i = 10
  OBVIOUS
<1> HIDE DEF Rules
<1> QED BY <1>1, <1>2, <1>3, <1>4

(* The group that decides is one the line has a phrase of, and no earlier  *)
(* one is.                                                                 *)
LEMMA FirstDecides ==
  ASSUME NEW l, Found(l) # {}
  PROVE  \E i \in 1 .. 10 : /\ Deciding(l) = Rules[i] /\ Rules[i].phrase \in l
                            /\ \A j \in 1 .. 10 : Rules[j].phrase \in l => i <= j
<1>1. Found(l) = {i \in 1 .. 10 : Rules[i].phrase \in l}
  BY PhraseOrder DEF Found
<1>2. \E i \in Found(l) : \A j \in Found(l) : i <= j
  <2> DEFINE F == Found(l)
  <2>1. F # {} /\ F \subseteq 1 .. 10
    BY <1>1
  <2> HIDE DEF F
  <2> SUFFICES ASSUME \A i \in F : \E j \in F : j < i PROVE FALSE
    <3>1. \A i, j \in F : ~(i <= j) => j < i
      BY <2>1
    <3> QED BY <3>1 DEF F
  <2>2. 1 \notin F
    BY <2>1
  <2>3. 2 \notin F
    BY <2>1, <2>2
  <2>4. 3 \notin F /\ 4 \notin F
    BY <2>1, <2>2, <2>3
  <2>5. 5 \notin F /\ 6 \notin F
    BY <2>1, <2>2, <2>3, <2>4
  <2>6. 7 \notin F /\ 8 \notin F
    BY <2>1, <2>2, <2>3, <2>4, <2>5
  <2>7. 9 \notin F /\ 10 \notin F
    BY <2>1, <2>2, <2>3, <2>4, <2>5, <2>6
  <2>8. PICK i \in F : TRUE
    BY <2>1
  <2>9. \/ i = 1 \/ i = 2 \/ i = 3 \/ i = 4 \/ i = 5
        \/ i = 6 \/ i = 7 \/ i = 8 \/ i = 9 \/ i = 10
    BY <2>1, <2>8
  <2> QED BY <2>2, <2>3, <2>4, <2>5, <2>6, <2>7, <2>8, <2>9
<1>3. PICK i \in Found(l) : i = CHOOSE k \in Found(l) : \A j \in Found(l) : k <= j
  BY <1>2
<1>4. \A j \in Found(l) : i <= j
  BY <1>2, <1>3
<1>5. Deciding(l) = Rules[i]
  BY <1>3 DEF Deciding
<1> QED BY <1>1, <1>4, <1>5

(* A line is a fault of the node at once only when it names one, and       *)
(* nothing that the own configuration explains comes before it.            *)
LEMMA NodeFaults ==
  ASSUME NEW l, NEW d \in BOOLEAN, classify(l, d).triggers
  PROVE  /\ "auth" \notin l /\ "config" \notin l
         /\ "exists" \in l => ~d
         /\ "exists" \in l \/ "session" \in l
<1>1. Found(l) # {}
  BY DEF classify, Info
<1>2. PICK i \in 1 .. 10 : /\ Deciding(l) = Rules[i] /\ Rules[i].phrase \in l
                           /\ \A j \in 1 .. 10 : Rules[j].phrase \in l => i <= j
  BY <1>1, FirstDecides
<1>3. /\ ~(Rules[i].phrase = "exists" /\ d)
      /\ Rules[i].triggers
  BY <1>1, <1>2 DEF classify, Event, LocalDuplicate
<1>4. i = 6 \/ i = 7
  BY <1>3, PhraseOrder
<1> QED BY <1>2, <1>3, <1>4, PhraseOrder

LEMMA DoubtfulFaults ==
  ASSUME NEW l, NEW d \in BOOLEAN, classify(l, d).type = "NetworkAmbiguous"
  PROVE  /\ "auth" \notin l /\ "config" \notin l /\ "exists" \notin l /\ "session" \notin l
         /\ "dial" \in l /\ ~classify(l, d).triggers
<1>1. Found(l) # {}
  BY DEF classify, Info
<1>2. PICK i \in 1 .. 10 : /\ Deciding(l) = Rules[i] /\ Rules[i].phrase \in l
                           /\ \A j \in 1 .. 10 : Rules[j].phrase \in l => i <= j
  BY <1>1, FirstDecides
<1>3. classify(l, d) = Event(Rules[i])
  BY <1>1, <1>2 DEF classify, LocalDuplicate
<1>4. Rules[i].type = "NetworkAmbiguous" /\ (classify(l, d).triggers <=> Rules[i].triggers)
  BY <1>3 DEF Event
<1>5. i = 8
  BY <1>4, PhraseOrder
<1> QED BY <1>2, <1>4, <1>5, PhraseOrder

(* While the file is read, the scan has seen every name declared so far,   *)
(* and it knows a proxy's section when it is in one; of an INI file it has *)
(* seen nothing else.                                                      *)
ScanTyped ==
  /\ style \in {"ini", "toml"} /\ dup \in BOOLEAN /\ repeated \in BOOLEAN
  /\ scan \in [seen : SUBSET (Names \cup Tables), in_toml_proxy : BOOLEAN]

ScanKeepsUp ==
  pc = "config" =>
    /\ dup = FALSE /\ repeated = FALSE /\ declared \subseteq scan.seen
    /\ style = "ini" => scan.seen = declared /\ section \in {"none", "other"}
    /\ style = "toml" /\ section = "proxy" => scan.in_toml_proxy

(* The event in hand is what the line means, or what ChmlFrp has said of   *)
(* a line that was in doubt; nothing else switches.                        *)
EventFollows ==
  /\ pc \in {"config", "log", "watch", "confirm", "done"}
  /\ reaction \in {"none", "switch"} /\ (reaction = "switch" => pc = "done")
  /\ pc = "watch" => event = classify(line, dup)
  /\ pc = "confirm" => classify(line, dup).type = "NetworkAmbiguous"
  /\ reaction = "switch" => \/ event = classify(line, dup) /\ event.triggers
                            \/ /\ event = Confirmed
                               /\ classify(line, dup).type = "NetworkAmbiguous"

LogInv == ScanTyped /\ ScanKeepsUp /\ DuplicatesAreSeen /\ EventFollows

LEMMA Scanned ==
  ASSUME ScanTyped, NEW n \in Names \cup Tables, NEW b \in BOOLEAN, SeeName(n, b)
  PROVE  \/ /\ n \in scan.seen /\ dup' = TRUE /\ scan' = NoScan /\ pc' = "log"
         \/ /\ n \notin scan.seen /\ dup' = dup /\ pc' = pc
            /\ scan'.seen = scan.seen \cup {n} /\ scan'.in_toml_proxy = b
            /\ scan' \in [seen : SUBSET (Names \cup Tables), in_toml_proxy : BOOLEAN]
  BY DEF SeeName, ScanTyped

LEMMA NoScanTyped == NoScan \in [seen : SUBSET (Names \cup Tables), in_toml_proxy : BOOLEAN]
  BY DEF NoScan

LEMMA LogStep == LogInv /\ [Next]_vars => LogInv'
<1> SUFFICES ASSUME LogInv, [Next]_vars PROVE LogInv'
  OBVIOUS
<1>0. ScanTyped /\ ScanKeepsUp /\ DuplicatesAreSeen /\ EventFollows
  BY DEF LogInv
<1>a. ASSUME UNCHANGED <<style, declared, repeated, scan, dup, section>>,
             pc # "config" \/ pc' = pc, pc' = "config" => pc = "config"
      PROVE  ScanTyped' /\ ScanKeepsUp' /\ DuplicatesAreSeen'
  BY <1>0, <1>a DEF ScanTyped, ScanKeepsUp, DuplicatesAreSeen
<1>b. ASSUME UNCHANGED <<line, event, reaction>>, pc = "config", pc' \in {"config", "log"}
      PROVE  EventFollows'
  BY <1>0, <1>b DEF EventFollows
<1>1. CASE SectionLine
  <2>1. PICK n \in Names \cup Tables :
             /\ SeeName(n, FALSE)
             /\ style = "ini" => n \in Names /\ Declare(n)
             /\ style # "ini" => UNCHANGED <<declared, repeated>>
    BY <1>1 DEF SectionLine
  <2>2. pc = "config" /\ (style = "toml" => section = "named") /\ section' = "other"
        /\ style' = style /\ UNCHANGED <<line, event, reaction>>
    BY <1>1 DEF SectionLine
  <2>3. \/ /\ n \in scan.seen /\ dup' = TRUE /\ scan' = NoScan /\ pc' = "log"
        \/ /\ n \notin scan.seen /\ dup' = dup /\ pc' = pc
           /\ scan'.seen = scan.seen \cup {n}
           /\ scan' \in [seen : SUBSET (Names \cup Tables), in_toml_proxy : BOOLEAN]
    BY <1>0, <2>1, Scanned
  <2>4. ScanTyped' /\ ScanKeepsUp' /\ DuplicatesAreSeen'
    BY <1>0, <2>1, <2>2, <2>3, NoScanTyped
       DEF ScanTyped, ScanKeepsUp, DuplicatesAreSeen, Declare
  <2>5. EventFollows'
    BY <1>b, <2>2, <2>3
  <2> QED BY <2>4, <2>5 DEF LogInv
<1>2. CASE ArrayLine
  <2>1. /\ pc = "config" /\ pc' = pc /\ style = "toml" /\ section' \in {"proxy", "other"}
        /\ scan' = [scan EXCEPT !.in_toml_proxy = (section' = "proxy")]
        /\ UNCHANGED <<style, declared, repeated, dup, line, event, reaction>>
    BY <1>2 DEF ArrayLine
  <2>2. /\ scan'.seen = scan.seen /\ (scan'.in_toml_proxy <=> section' = "proxy")
        /\ scan' \in [seen : SUBSET (Names \cup Tables), in_toml_proxy : BOOLEAN]
    BY <1>0, <2>1 DEF ScanTyped
  <2>3. ScanTyped' /\ ScanKeepsUp' /\ DuplicatesAreSeen'
    BY <1>0, <2>1, <2>2 DEF ScanTyped, ScanKeepsUp, DuplicatesAreSeen
  <2> QED BY <1>b, <2>1, <2>3 DEF LogInv
<1>3. CASE NameLine
  <2>1. PICK n \in Names :
             /\ scan.in_toml_proxy => SeeName(n, TRUE)
             /\ ~scan.in_toml_proxy => UNCHANGED <<scan, dup, pc>>
             /\ section = "proxy" => Declare(n)
             /\ section # "proxy" => UNCHANGED <<declared, repeated>>
    BY <1>3 DEF NameLine
  <2>2. /\ pc = "config" /\ style = "toml" /\ section' \in {"named", "none"}
        /\ UNCHANGED <<style, line, event, reaction>>
    BY <1>3 DEF NameLine
  <2>3. CASE scan.in_toml_proxy
    <3>1. \/ /\ n \in scan.seen /\ dup' = TRUE /\ scan' = NoScan /\ pc' = "log"
          \/ /\ n \notin scan.seen /\ dup' = dup /\ pc' = pc
             /\ scan'.seen = scan.seen \cup {n}
             /\ scan' \in [seen : SUBSET (Names \cup Tables), in_toml_proxy : BOOLEAN]
      BY <1>0, <2>1, <2>3, Scanned
    <3>2. ScanTyped' /\ ScanKeepsUp' /\ DuplicatesAreSeen'
      BY <1>0, <2>1, <2>2, <3>1, NoScanTyped
         DEF ScanTyped, ScanKeepsUp, DuplicatesAreSeen, Declare
    <3> QED BY <1>b, <2>2, <3>1, <3>2 DEF LogInv
  <2>4. CASE ~scan.in_toml_proxy
    <3>1. section # "proxy" /\ UNCHANGED <<scan, dup, pc, declared, repeated>>
      BY <1>0, <2>1, <2>2, <2>4 DEF ScanKeepsUp
    <3>2. ScanTyped' /\ ScanKeepsUp' /\ DuplicatesAreSeen'
      BY <1>0, <2>2, <3>1 DEF ScanTyped, ScanKeepsUp, DuplicatesAreSeen
    <3> QED BY <1>b, <2>2, <3>1, <3>2 DEF LogInv
  <2> QED BY <2>3, <2>4
<1>4. CASE EndOfConfig
  <2>1. /\ pc = "config" /\ dup' = FALSE /\ scan' = NoScan /\ pc' = "log"
        /\ UNCHANGED <<style, section, declared, repeated>>
    BY <1>4 DEF EndOfConfig
  <2>2. repeated = FALSE
    BY <1>0, <2>1 DEF ScanKeepsUp
  <2>3. ScanTyped'
    BY <1>0, <2>1, NoScanTyped DEF ScanTyped
  <2>4. ScanKeepsUp' /\ DuplicatesAreSeen'
    BY <2>1, <2>2 DEF ScanKeepsUp, DuplicatesAreSeen
  <2>5. EventFollows'
    BY <1>b, <1>4 DEF EndOfConfig
  <2> QED BY <2>3, <2>4, <2>5 DEF LogInv
<1>5. CASE AcceptLine
  <2>1. EventFollows'
    BY <1>0, <1>5 DEF AcceptLine, EventFollows, classify
  <2> QED BY <1>a, <1>5, <2>1 DEF AcceptLine, LogInv
<1>6. ASSUME UNCHANGED <<line, dup>> PROVE classify(line, dup)' = classify(line, dup)
  BY <1>6 DEF classify
<1>7. CASE WatcherSwitches
  <2>1. EventFollows'
    BY <1>0, <1>6, <1>7 DEF WatcherSwitches, EventFollows
  <2> QED BY <1>a, <1>7, <2>1 DEF WatcherSwitches, LogInv
<1>8. CASE WatcherAsks
  <2>1. EventFollows'
    BY <1>0, <1>6, <1>8 DEF WatcherAsks, EventFollows
  <2> QED BY <1>a, <1>8, <2>1 DEF WatcherAsks, LogInv
<1>9. CASE WatcherIgnores
  <2>1. EventFollows'
    BY <1>0, <1>6, <1>9 DEF WatcherIgnores, EventFollows
  <2> QED BY <1>a, <1>9, <2>1 DEF WatcherIgnores, LogInv
<1>10. CASE NodeIsDown
  <2>1. EventFollows'
    BY <1>0, <1>6, <1>10 DEF NodeIsDown, EventFollows
  <2> QED BY <1>a, <1>10, <2>1 DEF NodeIsDown, LogInv
<1>11. CASE NodeIsNotDown
  <2>1. EventFollows'
    BY <1>0, <1>6, <1>11 DEF NodeIsNotDown, EventFollows
  <2> QED BY <1>a, <1>11, <2>1 DEF NodeIsNotDown, LogInv
<1>12. CASE NextLine
  <2>1. EventFollows'
    BY <1>0, <1>12 DEF NextLine, EventFollows
  <2> QED BY <1>a, <1>12, <2>1 DEF NextLine, LogInv
<1>13. CASE UNCHANGED vars
  <2>1. EventFollows'
    BY <1>0, <1>6, <1>13 DEF vars, EventFollows
  <2> QED BY <1>a, <1>13, <2>1 DEF vars, LogInv
<1> QED BY <1>1, <1>2, <1>3, <1>4, <1>5, <1>7, <1>8, <1>9, <1>10, <1>11, <1>12, <1>13 DEF Next

LEMMA LogInvariant == Spec => []LogInv
<1>1. ASSUME Init PROVE LogInv
  <2>1. /\ style \in {"ini", "toml"} /\ section = "none" /\ declared = {} /\ repeated = FALSE
        /\ scan = NoScan /\ dup = FALSE /\ pc = "config" /\ reaction = "none"
    BY <1>1 DEF Init, Fresh
  <2>2. ScanTyped
    BY <2>1, NoScanTyped DEF ScanTyped
  <2>3. ScanKeepsUp
    BY <2>1 DEF ScanKeepsUp, NoScan
  <2> QED BY <2>1, <2>2, <2>3 DEF LogInv, DuplicatesAreSeen, EventFollows
<1> QED BY <1>1, LogStep, PTL DEF Spec

(* config_has_duplicate_proxy_names: whatever the file, two proxies of the *)
(* same name are noticed, and in an INI file nothing else is taken for     *)
(* that.                                                                   *)
THEOREM RepeatsNoticed == Spec => []DuplicatesAreSeen
<1>1. LogInv => DuplicatesAreSeen
  BY DEF LogInv
<1> QED BY <1>1, LogInvariant, PTL

(* classify and the watcher: for any configuration and any line, what the  *)
(* own configuration explains does not switch.                             *)
THEOREM FaultsKept == Spec => []OwnFaultsStay
<1>1. ASSUME LogInv, Switched PROVE "auth" \notin line /\ "config" \notin line
                                    /\ ("exists" \in line => ~repeated)
  <2>1. /\ pc = "done" /\ dup \in BOOLEAN /\ (repeated => dup)
        /\ classify(line, dup).triggers \/ classify(line, dup).type = "NetworkAmbiguous"
    BY <1>1 DEF LogInv, Switched, ScanTyped, DuplicatesAreSeen, EventFollows
  <2> QED BY <2>1, NodeFaults, DoubtfulFaults
<1>2. LogInv => OwnFaultsStay
  BY <1>1 DEF OwnFaultsStay
<1> QED BY <1>2, LogInvariant, PTL

(* The watcher: where no phrase names a fault of the node, only ChmlFrp's  *)
(* own answer leads to a switch.                                           *)
THEOREM DoubtAsked == Spec => []DoubtIsConfirmed
<1>1. ASSUME LogInv, Switched, line \cap {"exists", "session"} = {}
      PROVE  "dial" \in line /\ event = Confirmed
  <2>1. /\ dup \in BOOLEAN
        /\ \/ event = classify(line, dup) /\ event.triggers
           \/ event = Confirmed /\ classify(line, dup).type = "NetworkAmbiguous"
    BY <1>1 DEF LogInv, Switched, ScanTyped, EventFollows
  <2>2. ~classify(line, dup).triggers
    BY <1>1, <2>1, NodeFaults
  <2> QED BY <2>1, <2>2, DoubtfulFaults
<1>2. LogInv => DoubtIsConfirmed
  BY <1>1 DEF DoubtIsConfirmed
<1> QED BY <1>2, LogInvariant, PTL

-----------------------------------------------------------------------------
(* The order of the candidates. *)

ListTyped ==
  /\ nodes \in Seq(Entries) /\ call \in Calls
  /\ next \in 0..(Len(nodes) + 1)
  /\ out \in Seq(1..Len(nodes))

(* What is chosen is eligible, has a name of its own, and is the first of  *)
(* that name that could be chosen.                                         *)
ChosenOnce ==
  /\ \A k \in DOMAIN out : eligible(nodes[out[k]])
  /\ \A j, k \in DOMAIN out : nodes[out[j]].name = nodes[out[k]].name => j = k
  /\ \A k \in DOMAIN out, i \in DOMAIN nodes :
       i < out[k] /\ nodes[i].name = nodes[out[k]].name => ~eligible(nodes[i])

(* No eligible name the loop has passed is left out.                       *)
PassedChosen == \A i \in DOMAIN nodes : i < next /\ eligible(nodes[i]) => nodes[i].name \in Chosen

(* The standby is there before the loop; the others follow the loop.       *)
OrderKept ==
  /\ next = 0 => out = << >>
  /\ \A i \in DOMAIN nodes :
       next > 0 /\ nodes[i].name = call.preferred /\ eligible(nodes[i]) =>
         out # << >> /\ nodes[out[1]].name = call.preferred
  /\ \A k \in DOMAIN out : nodes[out[k]].name # call.preferred => out[k] < next
  /\ \A j, k \in DOMAIN out : j < k /\ nodes[out[j]].name # call.preferred => out[j] < out[k]

ListInv == ListTyped /\ ChosenOnce /\ PassedChosen /\ OrderKept

(* A call begins with an empty result.                                    *)
LEMMA ListStart == ListInit => ListInv
<1> SUFFICES ASSUME ListInit PROVE ListInv
  OBVIOUS
<1>1. nodes \in Seq(Entries)
  BY DEF ListInit, NodeLists
<1>2. ListTyped
  BY <1>1 DEF ListInit, ListTyped
<1> QED BY <1>2 DEF ListInit, ListInv, ListTyped, ChosenOnce, PassedChosen, OrderKept

(* Every turn of the loop keeps the invariant.                             *)
LEMMA ListStep == ListInv /\ [ListNext]_listVars => ListInv'
<1> SUFFICES ASSUME ListInv, [ListNext]_listVars PROVE ListInv'
  OBVIOUS
<1>0. ListTyped /\ ChosenOnce /\ PassedChosen /\ OrderKept
  BY DEF ListInv
<1>a. /\ nodes \in Seq(Entries) /\ out \in Seq(1..Len(nodes)) /\ Len(nodes) \in Nat
      /\ next \in Nat /\ DOMAIN nodes = 1..Len(nodes) /\ DOMAIN out = 1..Len(out)
      /\ Len(out) \in Nat /\ \A k \in DOMAIN out : out[k] \in 1..Len(nodes)
  BY <1>0 DEF ListTyped
<1>1. CASE FindStandby
  <2>1. UNCHANGED <<nodes, call>> /\ next = 0 /\ next' = 1 /\ out = << >>
    BY <1>0, <1>1 DEF FindStandby, OrderKept
  <2> DEFINE fits(i) == nodes[i].name = call.preferred /\ eligible(nodes[i])
  <2>2. CASE (\A i \in DOMAIN nodes : ~fits(i)) /\ out' = out
    <3>1. ListTyped' /\ ChosenOnce'
      BY <1>0, <1>a, <2>1, <2>2 DEF ListTyped, ChosenOnce, eligible
    <3>2. PassedChosen' /\ OrderKept'
      BY <1>a, <2>1, <2>2 DEF PassedChosen, OrderKept, eligible
    <3> QED BY <3>1, <3>2 DEF ListInv
  <2>3. CASE \E i \in DOMAIN nodes :
               fits(i) /\ (\A j \in DOMAIN nodes : fits(j) => i <= j) /\ out' = <<i>>
    <3>1. PICK i \in DOMAIN nodes :
            fits(i) /\ (\A j \in DOMAIN nodes : fits(j) => i <= j) /\ out' = <<i>>
      BY <2>3
    <3>2. out' \in Seq(1..Len(nodes)) /\ DOMAIN out' = {1} /\ out'[1] = i /\ out' # << >>
      BY <1>a, <3>1
    <3>3. \A j : eligible(nodes[j])' <=> eligible(nodes[j])
      BY <2>1 DEF eligible
    <3>4. ListTyped'
      BY <1>0, <1>a, <2>1, <3>2 DEF ListTyped
    <3>5. ChosenOnce'
      BY <1>a, <2>1, <3>1, <3>2 DEF ChosenOnce, eligible
    <3>6. PassedChosen'
      BY <1>a, <2>1 DEF PassedChosen
    <3>7. OrderKept'
      BY <1>a, <2>1, <3>1, <3>2 DEF OrderKept, eligible
    <3> QED BY <3>4, <3>5, <3>6, <3>7 DEF ListInv
  <2> QED
    BY <1>1, <2>2, <2>3 DEF FindStandby
<1>2. CASE ConsiderNode
  <2>1. UNCHANGED <<nodes, call>> /\ next \in 1..Len(nodes) /\ next' = next + 1
    BY <1>2, <1>a DEF ConsiderNode
  <2>2. CASE eligible(nodes[next]) /\ nodes[next].name \notin Chosen
    <3>1. out' = Append(out, next)
      BY <1>2, <2>2 DEF ConsiderNode
    <3>2. /\ out' \in Seq(1..Len(nodes)) /\ DOMAIN out' = 1..(Len(out) + 1)
          /\ \A k \in 1..Len(out) : out'[k] = out[k]
          /\ out'[Len(out) + 1] = next
      BY <1>a, <2>1, <3>1
    <3>a. \A k \in DOMAIN out' : \/ k \in DOMAIN out /\ out'[k] = out[k]
                                 \/ k = Len(out) + 1 /\ out'[k] = next
      BY <1>a, <3>2
    <3>b. \A k \in DOMAIN out : k < Len(out) + 1
      BY <1>a
    <3>3. \A k \in 1..Len(out) : nodes[out[k]].name # nodes[next].name
      BY <1>a, <2>2 DEF Chosen
    <3>4. \A i \in DOMAIN nodes : i < next /\ nodes[i].name = nodes[next].name => ~eligible(nodes[i])
      BY <1>0, <2>2 DEF PassedChosen
    <3>5. nodes[next].name # call.preferred
      <4>1. SUFFICES ASSUME nodes[next].name = call.preferred PROVE FALSE
        OBVIOUS
      <4>2. out # << >> /\ nodes[out[1]].name = call.preferred
        BY <1>0, <1>a, <2>1, <2>2, <4>1 DEF OrderKept
      <4>3. 1 \in 1..Len(out)
        BY <1>a, <4>2
      <4> QED BY <3>3, <4>1, <4>2, <4>3
    <3>6. ListTyped'
      BY <1>0, <1>a, <2>1, <3>2 DEF ListTyped
    <3>7. ChosenOnce'
      <4>1. \A k \in DOMAIN out' : eligible(nodes[out'[k]])
        BY <1>0, <2>2, <3>a DEF ChosenOnce
      <4>2. ASSUME NEW j \in DOMAIN out', NEW k \in DOMAIN out',
                   nodes[out'[j]].name = nodes[out'[k]].name
            PROVE  j = k
        <5>1. CASE j \in DOMAIN out /\ out'[j] = out[j] /\ k \in DOMAIN out /\ out'[k] = out[k]
          BY <1>0, <4>2, <5>1 DEF ChosenOnce
        <5> QED BY <1>a, <3>a, <3>3, <4>2, <5>1
      <4>3. ASSUME NEW k \in DOMAIN out', NEW i \in DOMAIN nodes,
                   i < out'[k], nodes[i].name = nodes[out'[k]].name
            PROVE  ~eligible(nodes[i])
        <5>1. CASE k \in DOMAIN out /\ out'[k] = out[k]
          BY <1>0, <4>3, <5>1 DEF ChosenOnce
        <5>2. CASE out'[k] = next
          BY <3>4, <4>3, <5>2
        <5> QED BY <3>a, <5>1, <5>2
      <4> QED BY <2>1, <4>1, <4>2, <4>3 DEF ChosenOnce, eligible
    <3>8. Chosen \cup {nodes[next].name} \subseteq Chosen'
      <4>1. Len(out) + 1 \in DOMAIN out' /\ \A k \in DOMAIN out : k \in DOMAIN out' /\ out'[k] = out[k]
        BY <1>a, <3>2
      <4> QED BY <2>1, <3>2, <4>1 DEF Chosen
    <3>9. PassedChosen'
      <4>1. \A i \in DOMAIN nodes : i < next + 1 /\ eligible(nodes[i]) => nodes[i].name \in Chosen'
        BY <1>0, <1>a, <3>8 DEF PassedChosen
      <4> QED BY <2>1, <4>1 DEF PassedChosen, eligible
    <3>10. OrderKept'
      <4>1. \A i \in DOMAIN nodes : nodes[i].name = call.preferred /\ eligible(nodes[i]) =>
              out' # << >> /\ nodes[out'[1]].name = call.preferred
        <5>1. out # << >> => 1 \in 1..Len(out) /\ out'[1] = out[1] /\ out' # << >>
          BY <1>a, <3>2
        <5> QED BY <1>0, <2>1, <5>1 DEF OrderKept
      <4>2. ASSUME NEW k \in DOMAIN out', nodes[out'[k]].name # call.preferred
            PROVE  out'[k] < next + 1
        <5>1. CASE k \in DOMAIN out /\ out'[k] = out[k]
          <6>1. out[k] < next
            BY <1>0, <4>2, <5>1 DEF OrderKept
          <6> QED BY <1>a, <5>1, <6>1
        <5> QED BY <1>a, <3>a, <5>1
      <4>3. ASSUME NEW j \in DOMAIN out', NEW k \in DOMAIN out', j < k,
                   nodes[out'[j]].name # call.preferred
            PROVE  out'[j] < out'[k]
        <5>1. CASE j \in DOMAIN out /\ out'[j] = out[j] /\ k \in DOMAIN out /\ out'[k] = out[k]
          BY <1>0, <4>3, <5>1 DEF OrderKept
        <5>2. CASE j \in DOMAIN out /\ out'[j] = out[j] /\ out'[k] = next
          BY <1>0, <4>3, <5>2 DEF OrderKept
        <5>3. ~(j = Len(out) + 1 /\ k = Len(out) + 1) /\ ~(j = Len(out) + 1 /\ k \in DOMAIN out)
          BY <1>a, <4>3
        <5> QED BY <3>a, <5>1, <5>2, <5>3
      <4> QED BY <2>1, <4>1, <4>2, <4>3 DEF OrderKept, eligible
    <3> QED BY <3>6, <3>7, <3>9, <3>10 DEF ListInv
  <2>3. CASE ~(eligible(nodes[next]) /\ nodes[next].name \notin Chosen)
    <3>1. UNCHANGED <<nodes, call, out>>
      BY <1>2, <2>1, <2>3 DEF ConsiderNode
    <3>2. ListTyped'
      BY <1>0, <2>1, <3>1 DEF ListTyped
    <3>3. ChosenOnce'
      BY <1>0, <3>1 DEF ChosenOnce, eligible
    <3>4. PassedChosen'
      <4>1. \A i \in DOMAIN nodes : i < next + 1 /\ eligible(nodes[i]) => nodes[i].name \in Chosen
        BY <1>0, <1>a, <2>3 DEF PassedChosen
      <4> QED BY <2>1, <3>1, <4>1 DEF PassedChosen, Chosen, eligible
    <3>5. OrderKept'
      <4>1. \A k \in DOMAIN out : nodes[out[k]].name # call.preferred => out[k] < next + 1
        BY <1>0, <1>a DEF OrderKept
      <4> QED BY <1>0, <1>a, <2>1, <3>1, <4>1 DEF OrderKept, eligible
    <3> QED BY <3>2, <3>3, <3>4, <3>5 DEF ListInv
  <2> QED BY <2>2, <2>3
<1>3. CASE CallAgain
  <2>1. nodes' = nodes /\ call' \in Calls /\ out' = << >> /\ next' = 0
    BY <1>3 DEF CallAgain
  <2>2. ListTyped'
    BY <1>a, <2>1 DEF ListTyped
  <2> QED BY <1>a, <2>1, <2>2 DEF ListInv, ChosenOnce, PassedChosen, OrderKept
<1>4. CASE UNCHANGED listVars
  <2>1. UNCHANGED <<nodes, call, out, next>>
    BY <1>4 DEF listVars
  <2> QED
    BY <1>0, <2>1 DEF ListInv, ListTyped, ChosenOnce, PassedChosen, OrderKept, Chosen, eligible
<1> QED BY <1>1, <1>2, <1>3, <1>4 DEF ListNext

(* It holds in every call.                                                *)
LEMMA ListInvariant == ListSpec => []ListInv
  BY ListStart, ListStep, PTL DEF ListSpec

(* For any list, with any repeated names, the candidates are the eligible  *)
(* names, each of them once, and those of the switch model.                *)
THEOREM RightCandidates == ListSpec => []SameCandidates
<1>1. ASSUME ListInv PROVE SameCandidates
  <2> SUFFICES ASSUME Returned PROVE SameCandidates
    BY DEF SameCandidates
  <2>1. ListTyped /\ ChosenOnce /\ PassedChosen
    BY <1>1 DEF ListInv
  <2>2. /\ DOMAIN nodes = 1..Len(nodes) /\ DOMAIN out = 1..Len(out) /\ Len(nodes) \in Nat
        /\ \A k \in DOMAIN out : out[k] \in DOMAIN nodes
        /\ \A i \in DOMAIN nodes : i < next /\ nodes[i] \in Entries
    BY <2>1 DEF ListTyped, Returned
  <2>3. \A n \in Chosen : n \in NodeNames /\ \E i \in DOMAIN nodes : nodes[i].name = n /\ eligible(nodes[i])
    BY <2>1, <2>2 DEF Chosen, ChosenOnce, Entries
  <2>4. \A i \in DOMAIN nodes : eligible(nodes[i]) => nodes[i].name \in Chosen
    BY <2>1, <2>2 DEF PassedChosen
  <2>5. Chosen = NamesWith(eligible)
    BY <2>3, <2>4 DEF NamesWith
  <2>6. ASSUME \A i, j \in DOMAIN nodes : nodes[i].name = nodes[j].name => i = j
        PROVE  NamesWith(eligible) = EligibleNames(call.active,
                 NamesWith(LAMBDA e : e.online), NamesWith(LAMBDA e : e.quarantined),
                 NamesWith(LAMBDA e : ~call.require_web \/ e.web_supported))
    BY <2>6 DEF NamesWith, EligibleNames, eligible
  <2> QED BY <2>1, <2>5, <2>6 DEF SameCandidates, ChosenOnce
<1> QED BY <1>1, ListInvariant, PTL

(* The order of the candidates, for any list.                              *)
THEOREM RightOrder == ListSpec => []StandbyThenListOrder
<1>1. ASSUME ListInv PROVE StandbyThenListOrder
  <2> SUFFICES ASSUME Returned PROVE StandbyThenListOrder
    BY DEF StandbyThenListOrder
  <2>1. ListTyped /\ ChosenOnce /\ OrderKept
    BY <1>1 DEF ListInv
  <2>2. /\ DOMAIN out = 1..Len(out) /\ Len(out) \in Nat /\ next > 0
        /\ \A k \in DOMAIN out : out[k] \in DOMAIN nodes
    BY <2>1 DEF ListTyped, Returned
  <2>3. ASSUME out # << >> PROVE nodes[out[1]].name \in FirstOf(Chosen, call.preferred)
    <3>1. 1 \in DOMAIN out
      BY <2>1, <2>2, <2>3 DEF ListTyped
    <3>2. nodes[out[1]].name \in Chosen
      BY <3>1 DEF Chosen
    <3>3. call.preferred \in Chosen => nodes[out[1]].name = call.preferred
      BY <2>1, <2>2 DEF Chosen, ChosenOnce, OrderKept
    <3> QED BY <3>2, <3>3 DEF FirstOf
  <2> QED BY <2>1, <2>3 DEF StandbyThenListOrder, ChosenOnce, OrderKept
<1> QED BY <1>1, ListInvariant, PTL
=============================================================================
