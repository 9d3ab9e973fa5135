--------------------------- MODULE PlanOwnership ---------------------------
(* Who owns a tunnel at ChmlFrp and an A record at Cloudflare: the rows of    *)
(* tunnel_plans, the handlers of apps/server/src/api.rs that create, change,  *)
(* import and delete them, the two provider consoles, and a reconcile.        *)
(* Reconcile holds the operation lock; none of the handlers takes it, so each *)
(* of their awaits is a step of its own.  A domain stands for everything      *)
(* that is compared between a tunnel and its plan, web tunnels only; a switch *)
(* creates and deletes nothing here and is left out.                          *)
EXTENDS Integers, FiniteSets

CONSTANTS
  Names,        \* tunnel names
  Domains,      \* domain names
  NoTunnel,     \* a name without a tunnel at ChmlFrp
  Clients,      \* requests that may be in flight together
  MaxPlans,     \* bound: rows ever inserted
  MaxRecords    \* bound: A records ever created

ASSUME OwnershipAssumption ==
  /\ NoTunnel \notin Domains
  /\ MaxPlans \in Nat /\ MaxRecords \in Nat

VARIABLES
  plans,        \* tunnel_plans: a function from the ids that exist
  lastPlan,     \* AUTOINCREMENT
  tunnels,      \* ChmlFrp: each name's configuration
  records,      \* Cloudflare: A records, a function from record ids
  lastRecord,
  req,          \* each client's request, with what it has read
  rc,           \* the reconcile that holds the lock, if any
  kept          \* history: facts that have held since each request began

vars == <<plans, lastPlan, tunnels, records, lastRecord, req, rc, kept>>
store == <<plans, lastPlan>>
cloudflare == <<records, lastRecord>>

PlanIds == 1..MaxPlans
RecordIds == 1..MaxRecords
Input == [name : Names, domain : Domains, dns_managed : BOOLEAN]
Plan == [name : Names, domain : Domains, dns_managed : BOOLEAN,
         record : {0} \cup RecordIds]
Record == [name : Domains, pointed : BOOLEAN]

NoRequest == [at |-> "idle"]
NoReconcile == [at |-> "idle"]

(* ----- The database ------------------------------------------------------ *)

\* A mutant of Unique: the index on managed domains is missing.
UniqueNames(id, in) == \A other \in DOMAIN plans \ {id} : plans[other].name # in.name

\* UNIQUE(name) and idx_tunnel_plans_managed_domain, for row `id` holding `in`.
Unique(id, in) ==
  \A other \in DOMAIN plans \ {id} :
    /\ plans[other].name # in.name
    /\ ~(in.dns_managed /\ plans[other].dns_managed /\ plans[other].domain = in.domain)

WithRecord(in, r) ==
  [name |-> in.name, domain |-> in.domain, dns_managed |-> in.dns_managed, record |-> r]

insert_plan(in) ==
  /\ lastPlan < MaxPlans
  /\ Unique(0, in)
  /\ lastPlan' = lastPlan + 1
  /\ plans' = [id \in DOMAIN plans \cup {lastPlan'} |->
                 IF id = lastPlan' THEN WithRecord(in, 0) ELSE plans[id]]

\* DELETE ... WHERE id = ?: no error when the row is gone.
delete_row(id) ==
  /\ plans' = [other \in DOMAIN plans \ {id} |-> plans[other]]
  /\ UNCHANGED lastPlan

set_cloudflare_record_id(id, r) ==
  /\ plans' = [other \in DOMAIN plans |->
                 IF other = id THEN [plans[other] EXCEPT !.record = r] ELSE plans[other]]
  /\ UNCHANGED lastPlan

(* ----- Cloudflare -------------------------------------------------------- *)

Named(domain) == {r \in DOMAIN records : records[r].name = domain}

NewRecord(content) ==
  /\ lastRecord < MaxRecords
  /\ lastRecord' = lastRecord + 1
  /\ records' = [r \in DOMAIN records \cup {lastRecord'} |->
                   IF r = lastRecord' THEN content ELSE records[r]]

PatchRecord(r, content) ==
  /\ r \in DOMAIN records
  /\ records' = [records EXCEPT ![r] = content]
  /\ UNCHANGED lastRecord

DropRecord(r) ==
  /\ r \in DOMAIN records
  /\ records' = [other \in DOMAIN records \ {r} |-> records[other]]
  /\ UNCHANGED lastRecord

(* ----- Requests of one statement ----------------------------------------- *)

\* POST /tunnels: validated, then inserted or refused by the constraints.
create_tunnel ==
  /\ \E in \in Input : insert_plan(in)
  /\ UNCHANGED <<tunnels, cloudflare, req, rc>>

\* PUT /tunnels/{id}: the row is overwritten; the record id stays.
update_tunnel ==
  /\ \E id \in DOMAIN plans, in \in Input :
       /\ Unique(id, in)
       /\ plans' = [plans EXCEPT ![id] = WithRecord(in, plans[id].record)]
  /\ UNCHANGED <<lastPlan, tunnels, cloudflare, req, rc>>

\* POST /tunnels/{id}/unmanage: the row only.
unmanage_tunnel ==
  /\ \E id \in DOMAIN plans : delete_row(id)
  /\ UNCHANGED <<tunnels, cloudflare, req, rc>>

\* The owner deletes a tunnel in ChmlFrp's own panel: the API cannot.
PanelDeletes ==
  /\ \E n \in Names : tunnels[n] # NoTunnel /\ tunnels' = [tunnels EXCEPT ![n] = NoTunnel]
  /\ UNCHANGED <<store, cloudflare, req, rc>>

(* ----- Requests that check, then act ------------------------------------- *)

Goes(c, r) == req' = [req EXCEPT ![c] = r]
Answers(c) == Goes(c, NoRequest)
Planned(name) == \E id \in DOMAIN plans : plans[id].name = name
Managed(domain) == \E id \in DOMAIN plans : plans[id].dns_managed /\ plans[id].domain = domain

\* managed_plan_for_dns: by the stored record id, or by the record's name.
managed_plan_for_dns(r, name) ==
  \E id \in DOMAIN plans :
    plans[id].dns_managed /\ (plans[id].record = r \/ plans[id].domain = name)

\* DELETE /tunnels/{id}: the plan, then ChmlFrp, then Cloudflare, then the row.
DeleteReadsPlan(c) ==
  /\ req[c].at = "idle"
  /\ \E id \in DOMAIN plans :
       Goes(c, [at |-> "delete_tunnel", id |-> id, plan |-> plans[id]])
  /\ UNCHANGED <<store, tunnels, cloudflare, rc>>

\* A mutant: a plan that manages DNS is deleted without looking at the records.
DeleteForgetsRecord(c) ==
  /\ req[c].at = "delete_tunnel"
  /\ IF tunnels[req[c].plan.name] # NoTunnel THEN Answers(c)
     ELSE Goes(c, [req[c] EXCEPT !.at = "delete_row"])
  /\ UNCHANGED <<store, tunnels, cloudflare, rc>>

DeleteChecksTunnel(c) ==
  /\ req[c].at = "delete_tunnel"
  /\ IF tunnels[req[c].plan.name] # NoTunnel THEN Answers(c)
     ELSE Goes(c, [req[c] EXCEPT
            !.at = IF req[c].plan.dns_managed THEN "delete_record" ELSE "delete_row"])
  /\ UNCHANGED <<store, tunnels, cloudflare, rc>>

DeleteChecksRecord(c) ==
  /\ req[c].at = "delete_record"
  /\ IF Named(req[c].plan.domain) # {} THEN Answers(c)
     ELSE Goes(c, [req[c] EXCEPT !.at = "delete_row"])
  /\ UNCHANGED <<store, tunnels, cloudflare, rc>>

DeleteRow(c) ==
  /\ req[c].at = "delete_row"
  /\ delete_row(req[c].id)
  /\ Answers(c)
  /\ UNCHANGED <<tunnels, cloudflare, rc>>

\* PUT on a remote tunnel with a new configuration, or the write test, which
\* writes back the one it has just read.
EditReadsTunnel(c) ==
  /\ req[c].at = "idle"
  /\ \E n \in Names, d \in Domains :
       tunnels[n] # NoTunnel /\ Goes(c, [at |-> "edit_check", name |-> n, domain |-> d])
  /\ UNCHANGED <<store, tunnels, cloudflare, rc>>

TestReadsTunnel(c) ==
  /\ req[c].at = "idle"
  /\ \E n \in Names :
       tunnels[n] # NoTunnel
         /\ Goes(c, [at |-> "edit_check", name |-> n, domain |-> tunnels[n]])
  /\ UNCHANGED <<store, tunnels, cloudflare, rc>>

\* A mutant: the plans are not looked at.
EditUnchecked(c) ==
  /\ req[c].at = "edit_check"
  /\ Goes(c, [req[c] EXCEPT !.at = "edit_write"])
  /\ UNCHANGED <<store, tunnels, cloudflare, rc>>

EditChecksPlans(c) ==
  /\ req[c].at = "edit_check"
  /\ IF Planned(req[c].name) THEN Answers(c)
     ELSE Goes(c, [req[c] EXCEPT !.at = "edit_write"])
  /\ UNCHANGED <<store, tunnels, cloudflare, rc>>

EditWrites(c) ==
  /\ req[c].at = "edit_write"
  /\ tunnels[req[c].name] # NoTunnel
  /\ tunnels' = [tunnels EXCEPT ![req[c].name] = req[c].domain]
  /\ Answers(c)
  /\ UNCHANGED <<store, cloudflare, rc>>

\* POST on the remote tunnels.
CreateChecksPlans(c) ==
  /\ req[c].at = "idle"
  /\ \E n \in Names, d \in Domains :
       ~Planned(n) /\ Goes(c, [at |-> "create_write", name |-> n, domain |-> d])
  /\ UNCHANGED <<store, tunnels, cloudflare, rc>>

CreateWrites(c) ==
  /\ req[c].at = "create_write"
  /\ tunnels[req[c].name] = NoTunnel
  /\ tunnels' = [tunnels EXCEPT ![req[c].name] = req[c].domain]
  /\ Answers(c)
  /\ UNCHANGED <<store, cloudflare, rc>>

\* Import of one tunnel, or of all without DNS: what ChmlFrp lists, then one
\* insert per tunnel.  The check for a plan of that name is part of the insert:
\* UNIQUE(name) refuses the same ones.
ImportReads(c) ==
  /\ req[c].at = "idle"
  /\ \E n \in Names, managed \in BOOLEAN :
       tunnels[n] # NoTunnel
         /\ Goes(c, [at |-> "import", dns_managed |-> managed,
                     todo |-> {<<n, tunnels[n]>>}])
  /\ UNCHANGED <<store, tunnels, cloudflare, rc>>

ImportAllReads(c) ==
  /\ req[c].at = "idle"
  /\ LET listed == {<<n, tunnels[n]>> : n \in {m \in Names : tunnels[m] # NoTunnel}}
     IN listed # {} /\ Goes(c, [at |-> "import", dns_managed |-> FALSE, todo |-> listed])
  /\ UNCHANGED <<store, tunnels, cloudflare, rc>>

ImportInserts(c) ==
  /\ req[c].at = "import"
  /\ \E t \in req[c].todo :
       LET in == [name |-> t[1], domain |-> t[2], dns_managed |-> req[c].dns_managed]
           rest == req[c].todo \ {t}
       IN /\ insert_plan(in) \/ (~Unique(0, in) /\ UNCHANGED store)
          /\ IF rest = {} THEN Answers(c) ELSE Goes(c, [req[c] EXCEPT !.todo = rest])
  /\ UNCHANGED <<tunnels, cloudflare, rc>>

\* POST on the DNS records.
RecordCreateChecks(c) ==
  /\ req[c].at = "idle"
  /\ \E d \in Domains : ~Managed(d) /\ Goes(c, [at |-> "record_create", name |-> d])
  /\ UNCHANGED <<store, tunnels, cloudflare, rc>>

RecordCreates(c) ==
  /\ req[c].at = "record_create"
  /\ NewRecord([name |-> req[c].name, pointed |-> FALSE])
  /\ Answers(c)
  /\ UNCHANGED <<store, tunnels, rc>>

\* PUT and DELETE on a DNS record: its name now, then the plans, then the call.
RecordReads(c) ==
  /\ req[c].at = "idle"
  /\ \E r \in DOMAIN records, d \in Domains, delete \in BOOLEAN :
       Goes(c, [at |-> "record_check", record |-> r, name |-> records[r].name,
                to |-> d, delete |-> delete])
  /\ UNCHANGED <<store, tunnels, cloudflare, rc>>

\* A mutant: only the record ids are compared, not the names.
RecordChecksIds(c) ==
  /\ req[c].at = "record_check"
  /\ IF \E id \in DOMAIN plans : plans[id].dns_managed /\ plans[id].record = req[c].record
     THEN Answers(c)
     ELSE Goes(c, [req[c] EXCEPT !.at = "record_write"])
  /\ UNCHANGED <<store, tunnels, cloudflare, rc>>

RecordChecksPlans(c) ==
  /\ req[c].at = "record_check"
  /\ IF managed_plan_for_dns(req[c].record, req[c].name) THEN Answers(c)
     ELSE Goes(c, [req[c] EXCEPT !.at = "record_write"])
  /\ UNCHANGED <<store, tunnels, cloudflare, rc>>

RecordWrites(c) ==
  /\ req[c].at = "record_write"
  /\ IF req[c].delete THEN DropRecord(req[c].record)
     ELSE PatchRecord(req[c].record, [name |-> req[c].to, pointed |-> FALSE])
  /\ Answers(c)
  /\ UNCHANGED <<store, tunnels, rc>>

\* A provider call fails, or the client goes away.
RequestFails(c) ==
  /\ req[c].at # "idle"
  /\ Answers(c)
  /\ UNCHANGED <<store, tunnels, cloudflare, rc>>

(* ----- A reconcile ------------------------------------------------------- *)

Held(r) == rc' = r
Ends == Held(NoReconcile)
Snapshot == {rc.plans[id] : id \in DOMAIN rc.plans}
ManagedIds == {id \in DOMAIN rc.plans : rc.plans[id].dns_managed}

\* ensure_unique_managed_a_records, and the map by name made of the same list.
UniqueRecords == \A id \in ManagedIds : Cardinality(Named(rc.plans[id].domain)) <= 1

ReconcileReadsPlans ==
  /\ rc.at = "idle"
  /\ plans # <<>>
  /\ Held([at |-> "preflight", plans |-> plans])
  /\ UNCHANGED <<store, tunnels, cloudflare, req>>

\* The preflight, and the tunnels that ChmlFrp lists.
ReconcilePreflight ==
  /\ rc.at = "preflight"
  /\ IF UniqueRecords THEN Held([rc EXCEPT !.at = "list"]) ELSE Ends
  /\ UNCHANGED <<store, tunnels, cloudflare, req>>

ReconcileLists ==
  /\ rc.at = "list"
  /\ Held([at |-> "tunnels", plans |-> rc.plans, seen |-> [id \in DOMAIN rc.plans |-> tunnels[rc.plans[id].name]],
              todo |-> DOMAIN rc.plans])
  /\ UNCHANGED <<store, tunnels, cloudflare, req>>

\* Sync what differs from its plan, create what is missing, going by the list.
ReconcileTunnel ==
  /\ rc.at = "tunnels"
  /\ \E id \in rc.todo :
       LET p == rc.plans[id]
           right == rc.seen[id] = p.domain
           possible == (rc.seen[id] = NoTunnel) = (tunnels[p.name] = NoTunnel)
       IN IF ~right /\ ~possible THEN Ends /\ UNCHANGED tunnels
          ELSE /\ tunnels' = IF right THEN tunnels ELSE [tunnels EXCEPT ![p.name] = p.domain]
               /\ Held([rc EXCEPT !.todo = rc.todo \ {id},
                                  !.at = IF rc.todo = {id} THEN "verify" ELSE "tunnels"])
  /\ UNCHANGED <<store, cloudflare, req>>

\* verify_chmlfrp_desired_state.  FRPC comes next; then DNS, if any is managed.
ReconcileVerifies ==
  /\ rc.at = "verify"
  /\ IF \E p \in Snapshot : tunnels[p.name] # p.domain THEN Ends
     ELSE IF ManagedIds = {} THEN Ends
     ELSE Held([at |-> "records", plans |-> rc.plans])
  /\ UNCHANGED <<store, tunnels, cloudflare, req>>

\* reconcile_dns: the records as listed, then one upsert per managed plan.
ReconcileListsRecords ==
  /\ rc.at = "records"
  /\ IF UniqueRecords
     THEN Held([at |-> "upsert", plans |-> rc.plans, todo |-> ManagedIds,
                found |-> [id \in ManagedIds |-> Named(rc.plans[id].domain)],
                now |-> 0, got |-> 0])
     ELSE Ends
  /\ UNCHANGED <<store, tunnels, cloudflare, req>>

\* upsert_a_record: PATCH the record that was listed, or POST a new one.
upsert_a_record(id) ==
  \/ /\ rc.found[id] = {}
     /\ NewRecord([name |-> rc.plans[id].domain, pointed |-> TRUE])
     /\ Held([rc EXCEPT !.at = "store", !.now = id, !.got = lastRecord'])
  \/ \E r \in rc.found[id] :
       /\ PatchRecord(r, [name |-> records[r].name, pointed |-> TRUE])
       /\ Held([rc EXCEPT !.at = "store", !.now = id, !.got = r])

ReconcileUpserts ==
  /\ rc.at = "upsert"
  /\ \E id \in rc.todo : upsert_a_record(id)
  /\ UNCHANGED <<store, tunnels, req>>

ReconcileStoresId ==
  /\ rc.at = "store"
  /\ IF rc.plans[rc.now].record = rc.got THEN UNCHANGED store
     ELSE set_cloudflare_record_id(rc.now, rc.got)
  /\ IF rc.todo = {rc.now} THEN Ends
     ELSE Held([rc EXCEPT !.at = "upsert", !.todo = rc.todo \ {rc.now}, !.now = 0, !.got = 0])
  /\ UNCHANGED <<tunnels, cloudflare, req>>

\* Any of its calls, FRPC's included, fails; a mutation may have been done.
ReconcileFails ==
  /\ rc.at # "idle"
  /\ Ends
  /\ UNCHANGED <<store, tunnels, cloudflare, req>>

(* ----- The whole --------------------------------------------------------- *)

DeleteStep(c) == DeleteReadsPlan(c) \/ DeleteChecksTunnel(c) \/ DeleteChecksRecord(c) \/ DeleteRow(c)
TunnelStep(c) ==
  \/ EditReadsTunnel(c) \/ TestReadsTunnel(c) \/ EditChecksPlans(c) \/ EditWrites(c)
  \/ CreateChecksPlans(c) \/ CreateWrites(c)
ImportStep(c) == ImportReads(c) \/ ImportAllReads(c) \/ ImportInserts(c)
RecordStep(c) ==
  \/ RecordCreateChecks(c) \/ RecordCreates(c)
  \/ RecordReads(c) \/ RecordChecksPlans(c) \/ RecordWrites(c)
RequestStep(c) == DeleteStep(c) \/ TunnelStep(c) \/ ImportStep(c) \/ RecordStep(c) \/ RequestFails(c)

ReconcileStep ==
  \/ ReconcileReadsPlans \/ ReconcilePreflight \/ ReconcileLists \/ ReconcileTunnel
  \/ ReconcileVerifies \/ ReconcileListsRecords \/ ReconcileUpserts \/ ReconcileStoresId
  \/ ReconcileFails

PlanStep == create_tunnel \/ update_tunnel \/ unmanage_tunnel

\* What a request relies on, and which of it has held ever since it began.
Holds(r, fact) ==
  CASE fact = "row"     -> r.id \in DOMAIN plans /\ WithRecord(plans[r.id], 0) = WithRecord(r.plan, 0)
    [] fact = "tunnel"  -> tunnels[r.plan.name] # NoTunnel
    [] fact = "record"  -> r.plan.dns_managed /\ Named(r.plan.domain) # {}
    [] fact = "planned" -> Planned(r.name)
    [] fact = "managed" -> managed_plan_for_dns(r.record, r.name)

Facts(r) ==
  CASE r.at \in {"delete_tunnel", "delete_record", "delete_row"} ->
         {f \in {"row", "tunnel", "record"} : Holds(r, f)}
    [] r.at \in {"edit_check", "edit_write", "create_write"} -> {f \in {"planned"} : Holds(r, f)}
    [] r.at \in {"record_check", "record_write"} -> {f \in {"managed"} : Holds(r, f)}
    [] OTHER -> {}

Remember ==
  kept' = [c \in Clients |->
             LET now == Facts(req[c])' IN IF req[c].at = "idle" THEN now ELSE kept[c] \cap now]

Init ==
  /\ plans = <<>> /\ lastPlan = 0
  /\ tunnels \in [Names -> Domains \cup {NoTunnel}]
  /\ records = <<>> /\ lastRecord = 0
  /\ req = [c \in Clients |-> NoRequest]
  /\ rc = NoReconcile
  /\ kept = [c \in Clients |-> {}]

Next ==
  /\ \/ PlanStep \/ PanelDeletes \/ ReconcileStep
     \/ \E c \in Clients : RequestStep(c)
  /\ Remember

Spec == Init /\ [][Next]_vars

\* Only the reconciles touch the records here.  The requests are left out: all
\* they do to rows and tunnels is in the steps that remain.
NextReconciles == (PlanStep \/ PanelDeletes \/ ReconcileStep) /\ Remember

SpecReconciles == Init /\ [][NextReconciles]_vars

(* ----- Properties -------------------------------------------------------- *)

\* Every variable has its type, and the constraints of the table hold.
TypeOK ==
  /\ lastPlan \in 0..MaxPlans /\ lastRecord \in 0..MaxRecords
  /\ DOMAIN plans \subseteq 1..lastPlan /\ \A id \in DOMAIN plans : plans[id] \in Plan /\ Unique(id, plans[id])
  /\ tunnels \in [Names -> Domains \cup {NoTunnel}]
  /\ DOMAIN records \subseteq 1..lastRecord /\ \A r \in DOMAIN records : records[r] \in Record

\* README.md: a row does not disappear while its tunnel or its managed record
\* still exists.  For a row, and a tunnel or record, that were there during the
\* whole request, whatever reconciles, imports and other requests do meanwhile.
DeleteKeepsOwner ==
  [][\A c \in Clients : req[c].at = "delete_row" /\ DOMAIN plans' # DOMAIN plans
       => ~({"row", "tunnel"} \subseteq kept[c] \/ {"row", "record"} \subseteq kept[c])]_vars

\* Managed remote resources are protected from direct editing: a request changes
\* a tunnel only if its name was without a plan at some time during the request.
EditSparesPlanned ==
  [][\A c \in Clients : req[c].at \in {"edit_write", "create_write"} /\ tunnels' # tunnels
       => "planned" \notin kept[c]]_vars

\* ... and changes or deletes an A record only if, at some time during the
\* request, no plan managed the name it had and none had its id.
PageSparesManaged ==
  [][\A c \in Clients : req[c].at = "record_write" /\ records' # records
       => "managed" \notin kept[c]]_vars

\* Exactly zero or one A record per domain, whatever is done with the plans: two
\* upserts never create the same record, retries after failures included.
OneRecordPerDomain ==
  \A d \in Domains : Cardinality(Named(d)) <= 1

(* ----- What the documents say and the code does not keep; not in a run --- *)

\* docs/V0.4.0.md: provider CRUD cannot bypass the ownership of managed
\* resources.  No record is renamed into a domain that a plan manages.
PageTakesNoManagedName ==
  [][\A c \in Clients : req[c].at = "record_write" /\ ~req[c].delete /\ records' # records
       => ~Managed(req[c].to) \/ req[c].to = req[c].name]_vars

\* README.md: the row does not disappear while resources remain, with the
\* resources that a reconcile makes during the request.
DeleteLeavesNothing ==
  [][\A c \in Clients : req[c].at = "delete_row" /\ req'[c].at = "idle" /\ req[c].id \in DOMAIN plans
       => \/ plans' = plans
          \/ /\ tunnels[plans[req[c].id].name] = NoTunnel
             /\ plans[req[c].id].dns_managed => Named(plans[req[c].id].domain) = {}]_vars

=============================================================================
