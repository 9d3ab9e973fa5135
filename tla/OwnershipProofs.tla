--------------------------- MODULE OwnershipProofs ---------------------------
(***************************************************************************)
(* What PlanOwnership promises, for any names, domains and clients.        *)
(* Typed says what a request and a reconcile in hand may be and that the   *)
(* constraints of the table hold; KeptInv that a check that was passed has *)
(* taken its fact away; RecordsInv that the reconcile in hand works on     *)
(* distinct domains and that what it did not find is still not there.      *)
(***************************************************************************)
EXTENDS PlanOwnership, FiniteSetTheorems, TLAPS

(* Rows, as they are or as a reconcile has read them.                      *)
Tables == UNION {[S -> Plan] : S \in SUBSET PlanIds}

(* The constraints of the table: a name once, a managed domain once.       *)
Constrained(t) ==
  \A i, j \in DOMAIN t : i # j =>
    /\ t[i].name # t[j].name
    /\ ~(t[i].dns_managed /\ t[j].dns_managed /\ t[i].domain = t[j].domain)

StoreOK ==
  /\ lastPlan \in 0..MaxPlans
  /\ plans \in Tables /\ DOMAIN plans \subseteq 1..lastPlan
  /\ Constrained(plans)

CfOK ==
  /\ lastRecord \in 0..MaxRecords
  /\ DOMAIN records \subseteq 1..lastRecord
  /\ records \in [DOMAIN records -> Record]

TunnelsOK == tunnels \in [Names -> Domains \cup {NoTunnel}]

DeleteRequests == [at : {"delete_tunnel", "delete_record", "delete_row"}, id : PlanIds, plan : Plan]
TunnelRequests == [at : {"edit_check", "edit_write", "create_write"}, name : Names, domain : Domains]
ImportRequests == [at : {"import"}, dns_managed : BOOLEAN, todo : SUBSET (Names \X Domains)]
NewRequests    == [at : {"record_create"}, name : Domains]
RecordRequests == [at : {"record_check", "record_write"}, record : RecordIds, name : Domains,
                   to : Domains, delete : BOOLEAN]

Requests == {NoRequest} \cup DeleteRequests \cup TunnelRequests \cup ImportRequests
              \cup NewRequests \cup RecordRequests

RequestsOK == req \in [Clients -> Requests]

Lists  == UNION {[S -> Domains \cup {NoTunnel}] : S \in SUBSET PlanIds}
Founds == UNION {[S -> SUBSET RecordIds] : S \in SUBSET PlanIds}

Readings == [at : {"preflight", "list", "records"}, plans : Tables]
Syncs    == [at : {"tunnels", "verify"}, plans : Tables, seen : Lists, todo : SUBSET PlanIds]
Upserts  == [at : {"upsert", "store"}, plans : Tables, todo : SUBSET PlanIds, found : Founds,
             now : {0} \cup PlanIds, got : {0} \cup RecordIds]

ReconcileOK ==
  /\ rc \in {NoReconcile} \cup Readings \cup Syncs \cup Upserts
  /\ rc.at \in {"tunnels", "verify"} => rc.todo \subseteq DOMAIN rc.plans
  /\ rc.at \in {"upsert", "store"} => rc.todo \subseteq ManagedIds

Typed == StoreOK /\ CfOK /\ TunnelsOK /\ RequestsOK /\ ReconcileOK

-----------------------------------------------------------------------------
(* Tables: what is read from one, and what is one.                         *)
LEMMA TableRow ==
  ASSUME NEW t \in Tables
  PROVE  /\ DOMAIN t \subseteq PlanIds
         /\ \A id \in DOMAIN t : t[id] \in Plan
  BY DEF Tables

LEMMA TableOf ==
  ASSUME NEW t, t = [id \in DOMAIN t |-> t[id]], DOMAIN t \subseteq PlanIds,
         \A id \in DOMAIN t : t[id] \in Plan
  PROVE  t \in Tables
<1>1. t \in [DOMAIN t -> Plan]
  OBVIOUS
<1> QED BY <1>1 DEF Tables

LEMMA RowOf ==
  ASSUME NEW in \in Input, NEW r \in {0} \cup RecordIds
  PROVE  /\ WithRecord(in, r) \in Plan
         /\ WithRecord(in, r).name = in.name /\ WithRecord(in, r).domain = in.domain
         /\ WithRecord(in, r).dns_managed = in.dns_managed
  BY DEF Input, Plan, WithRecord

(* Each statement on tunnel_plans leaves a table with its constraints.     *)
LEMMA InsertStore ==
  ASSUME StoreOK, NEW in \in Input, insert_plan(in)
  PROVE  StoreOK'
<1> DEFINE n == lastPlan + 1
<1>1. n \in 1..MaxPlans /\ lastPlan' = n /\ n \in PlanIds /\ n \notin DOMAIN plans
  BY OwnershipAssumption DEF StoreOK, insert_plan, PlanIds
<1>2. WithRecord(in, 0) \in Plan
  BY RowOf
<1> DEFINE row(id) == IF id = n THEN WithRecord(in, 0) ELSE plans[id]
           S == DOMAIN plans \cup {n}
<1>3. plans' = [id \in S |-> row(id)]
  BY <1>1 DEF insert_plan
<1>4. S \in SUBSET PlanIds /\ \A id \in S : row(id) \in Plan
  BY <1>1, <1>2, TableRow DEF StoreOK
<1>5. plans' \in Tables /\ DOMAIN plans' = S /\ \A id \in S : plans'[id] = row(id)
  <2> HIDE DEF row, S
  <2>1. DOMAIN plans' = S /\ \A id \in S : plans'[id] = row(id)
    BY <1>3
  <2>2. plans' = [id \in DOMAIN plans' |-> plans'[id]]
    BY <1>3
  <2> QED BY <1>4, <2>1, <2>2, TableOf
<1>6. DOMAIN plans' \subseteq 1..lastPlan'
  BY <1>1, <1>5 DEF StoreOK
<1>7. Constrained(plans')
  <2>1. \A i \in DOMAIN plans : i # n /\ plans'[i] = plans[i]
    BY <1>1, <1>5
  <2>2. plans'[n].name = in.name /\ plans'[n].domain = in.domain
        /\ plans'[n].dns_managed = in.dns_managed
    BY <1>5, RowOf
  <2>3. 0 \notin DOMAIN plans
    BY TableRow DEF StoreOK, PlanIds
  <2>4. \A i \in DOMAIN plans : /\ plans[i].name # in.name
                               /\ ~(in.dns_managed /\ plans[i].dns_managed /\ plans[i].domain = in.domain)
    BY <2>3 DEF insert_plan, Unique
  <2> HIDE DEF n
  <2> QED BY <1>5, <2>1, <2>2, <2>4 DEF StoreOK, Constrained
<1> QED BY <1>1, <1>5, <1>6, <1>7 DEF StoreOK

LEMMA DeleteStore ==
  ASSUME StoreOK, NEW id, delete_row(id)
  PROVE  StoreOK'
<1> DEFINE S == DOMAIN plans \ {id}
<1>1. plans' = [other \in S |-> plans[other]] /\ lastPlan' = lastPlan
  BY DEF delete_row
<1>2. DOMAIN plans' = S /\ S \subseteq DOMAIN plans /\ (\A i \in S : plans'[i] = plans[i])
      /\ plans' = [i \in DOMAIN plans' |-> plans'[i]]
  BY <1>1
<1> HIDE DEF S
<1>3. plans' \in Tables
  <2>1. DOMAIN plans' \subseteq PlanIds /\ \A i \in DOMAIN plans' : plans'[i] \in Plan
    BY <1>2, TableRow DEF StoreOK
  <2> QED BY <1>2, <2>1, TableOf
<1>4. Constrained(plans')
  BY <1>2 DEF StoreOK, Constrained
<1> QED BY <1>1, <1>2, <1>3, <1>4 DEF StoreOK

(* The row of the tunnel is written over; its record id is kept.           *)
LEMMA UpdateStore ==
  ASSUME StoreOK, update_tunnel
  PROVE  StoreOK'
<1>1. PICK id \in DOMAIN plans, in \in Input :
        Unique(id, in) /\ plans' = [plans EXCEPT ![id] = WithRecord(in, plans[id].record)]
  BY DEF update_tunnel
<1> DEFINE row == WithRecord(in, plans[id].record)
<1>2. plans[id] \in Plan /\ plans \in [DOMAIN plans -> Plan]
  BY TableRow DEF StoreOK, Tables
<1>3. plans[id].record \in {0} \cup RecordIds
  BY <1>2 DEF Plan
<1>4. row \in Plan /\ row.name = in.name /\ row.domain = in.domain /\ row.dns_managed = in.dns_managed
  BY <1>3, RowOf
<1> HIDE DEF row
<1>5. /\ DOMAIN plans' = DOMAIN plans /\ plans'[id] = row
      /\ \A i \in DOMAIN plans \ {id} : plans'[i] = plans[i]
      /\ plans' = [i \in DOMAIN plans' |-> plans'[i]]
  BY <1>1, <1>2 DEF row
<1>6. plans' \in Tables
  <2>1. DOMAIN plans' \subseteq PlanIds /\ \A i \in DOMAIN plans' : plans'[i] \in Plan
    BY <1>4, <1>5, TableRow DEF StoreOK
  <2> QED BY <1>5, <2>1, TableOf
<1>7. Constrained(plans')
  <2>1. \A i \in DOMAIN plans \ {id} :
          /\ plans[i].name # in.name
          /\ ~(in.dns_managed /\ plans[i].dns_managed /\ plans[i].domain = in.domain)
    BY <1>1 DEF Unique
  <2> QED BY <1>4, <1>5, <2>1 DEF StoreOK, Constrained
<1> QED BY <1>5, <1>6, <1>7 DEF StoreOK, update_tunnel

LEMMA RecordIdStore ==
  ASSUME StoreOK, NEW id, NEW r \in {0} \cup RecordIds, set_cloudflare_record_id(id, r)
  PROVE  StoreOK'
<1> DEFINE row(i) == IF i = id THEN [plans[i] EXCEPT !.record = r] ELSE plans[i]
<1>1. plans' = [i \in DOMAIN plans |-> row(i)] /\ lastPlan' = lastPlan
  BY DEF set_cloudflare_record_id
<1>2. ASSUME NEW i \in DOMAIN plans
      PROVE  /\ row(i) \in Plan /\ row(i).name = plans[i].name /\ row(i).domain = plans[i].domain
             /\ row(i).dns_managed = plans[i].dns_managed
  <2>1. plans[i] \in Plan
    BY TableRow DEF StoreOK
  <2> QED BY <2>1 DEF Plan
<1> HIDE DEF row
<1>3. /\ DOMAIN plans' = DOMAIN plans /\ \A i \in DOMAIN plans : plans'[i] = row(i)
      /\ plans' = [i \in DOMAIN plans' |-> plans'[i]]
  BY <1>1
<1>4. plans' \in Tables
  <2>1. DOMAIN plans' \subseteq PlanIds /\ \A i \in DOMAIN plans' : plans'[i] \in Plan
    BY <1>2, <1>3, TableRow DEF StoreOK
  <2> QED BY <1>3, <2>1, TableOf
<1>5. Constrained(plans')
  BY <1>2, <1>3 DEF StoreOK, Constrained
<1> QED BY <1>1, <1>3, <1>4, <1>5 DEF StoreOK

(* Each call leaves A records.                                             *)
LEMMA NewCf ==
  ASSUME CfOK, NEW content \in Record, NewRecord(content)
  PROVE  /\ CfOK' /\ lastRecord' \in RecordIds
         /\ lastRecord' \notin DOMAIN records
         /\ DOMAIN records' = DOMAIN records \cup {lastRecord'}
         /\ records'[lastRecord'] = content
         /\ \A r \in DOMAIN records : records'[r] = records[r]
<1> DEFINE n == lastRecord + 1
           S == DOMAIN records \cup {n}
<1>1. n \in 1..MaxRecords /\ lastRecord' = n /\ n \in RecordIds /\ n \notin DOMAIN records
  BY OwnershipAssumption DEF CfOK, NewRecord, RecordIds
<1>2. records' = [r \in S |-> IF r = n THEN content ELSE records[r]]
  BY <1>1 DEF NewRecord
<1>3. S \subseteq 1..n
  BY <1>1 DEF CfOK
<1> HIDE DEF n
<1>4. records' \in [S -> Record] /\ DOMAIN records' = S
  BY <1>2 DEF CfOK
<1> QED BY <1>1, <1>2, <1>3, <1>4 DEF CfOK

LEMMA PatchCf ==
  ASSUME CfOK, NEW r, NEW content \in Record, PatchRecord(r, content)
  PROVE  /\ CfOK' /\ r \in RecordIds
         /\ DOMAIN records' = DOMAIN records /\ records'[r] = content
         /\ \A s \in DOMAIN records \ {r} : records'[s] = records[s]
<1>1. r \in RecordIds
  BY OwnershipAssumption DEF CfOK, PatchRecord, RecordIds
<1> QED BY <1>1 DEF CfOK, PatchRecord

LEMMA DropCf ==
  ASSUME CfOK, NEW r, DropRecord(r)
  PROVE  CfOK'
<1> DEFINE S == DOMAIN records \ {r}
<1>1. records' = [s \in S |-> records[s]] /\ lastRecord' = lastRecord /\ S \subseteq DOMAIN records
  BY DEF DropRecord
<1> HIDE DEF S
<1>2. DOMAIN records' = S /\ records' \in [S -> Record]
  BY <1>1 DEF CfOK
<1> QED BY <1>1, <1>2 DEF CfOK

-----------------------------------------------------------------------------
(* Requests: what one is in a given place, and what follows it.            *)
LEMMA Kinds ==
  ASSUME NEW r \in Requests
  PROVE  /\ r.at \in {"delete_tunnel", "delete_record", "delete_row"} => r \in DeleteRequests
         /\ r.at \in {"edit_check", "edit_write", "create_write"} => r \in TunnelRequests
         /\ r.at = "import" => r \in ImportRequests
         /\ r.at = "record_create" => r \in NewRequests
         /\ r.at \in {"record_check", "record_write"} => r \in RecordRequests
  BY DEF Requests, NoRequest, DeleteRequests, TunnelRequests, ImportRequests, NewRequests, RecordRequests

LEMMA OneRequest ==
  ASSUME RequestsOK, NEW c \in Clients, NEW r, Goes(c, r)
  PROVE  /\ req'[c] = r /\ \A d \in Clients \ {c} : req'[d] = req[d]
         /\ r \in Requests => RequestsOK'
  BY DEF RequestsOK, Goes

LEMMA Answered ==
  ASSUME RequestsOK, NEW c \in Clients, Answers(c)
  PROVE  RequestsOK' /\ req'[c] = NoRequest
<1>1. NoRequest \in Requests
  BY DEF Requests
<1> QED BY <1>1, OneRequest DEF Answers

(* A request that goes on to another place keeps what it has read.         *)
LEMMA GoesOn ==
  ASSUME NEW r \in Requests
  PROVE  /\ r.at \in {"delete_tunnel", "delete_record", "delete_row"} =>
              \A l \in {"delete_record", "delete_row"} :
                [r EXCEPT !.at = l] \in DeleteRequests
                /\ [r EXCEPT !.at = l].at = l /\ [r EXCEPT !.at = l].plan = r.plan
         /\ r.at = "edit_check" =>
              [r EXCEPT !.at = "edit_write"] \in TunnelRequests
              /\ [r EXCEPT !.at = "edit_write"].at = "edit_write"
              /\ [r EXCEPT !.at = "edit_write"].name = r.name
         /\ r.at = "record_check" =>
              [r EXCEPT !.at = "record_write"] \in RecordRequests
              /\ [r EXCEPT !.at = "record_write"].at = "record_write"
              /\ [r EXCEPT !.at = "record_write"].name = r.name
              /\ [r EXCEPT !.at = "record_write"].record = r.record
<1>1. r.at \in {"delete_tunnel", "delete_record", "delete_row"} => r \in DeleteRequests
  BY Kinds
<1>2. r.at = "edit_check" => r \in TunnelRequests
  BY Kinds
<1>3. r.at = "record_check" => r \in RecordRequests
  BY Kinds
<1> QED BY <1>1, <1>2, <1>3 DEF DeleteRequests, TunnelRequests, RecordRequests

(* DELETE /tunnels/{id}.                                                   *)
LEMMA DeleteTyped ==
  ASSUME Typed, NEW c \in Clients, DeleteStep(c)
  PROVE  Typed'
<1>0. StoreOK /\ CfOK /\ TunnelsOK /\ RequestsOK /\ ReconcileOK /\ req[c] \in Requests
  BY DEF Typed, RequestsOK
<1>1. StoreOK'
  <2>1. CASE DeleteRow(c)
    BY <1>0, <2>1, DeleteStore DEF DeleteRow
  <2>2. CASE UNCHANGED store
    BY <1>0, <2>2 DEF store, StoreOK
  <2> QED
    BY <2>1, <2>2 DEF DeleteStep, DeleteReadsPlan, DeleteChecksTunnel, DeleteChecksRecord
<1>2. UNCHANGED <<tunnels, cloudflare, rc>>
  BY DEF DeleteStep, DeleteReadsPlan, DeleteChecksTunnel, DeleteChecksRecord, DeleteRow
<1>3. CfOK' /\ TunnelsOK' /\ ReconcileOK'
  BY <1>0, <1>2 DEF cloudflare, CfOK, TunnelsOK, ReconcileOK, ManagedIds
<1>4. RequestsOK'
  <2>1. CASE DeleteReadsPlan(c)
    <3>1. PICK id \in DOMAIN plans : Goes(c, [at |-> "delete_tunnel", id |-> id, plan |-> plans[id]])
      BY <2>1 DEF DeleteReadsPlan
    <3>2. [at |-> "delete_tunnel", id |-> id, plan |-> plans[id]] \in DeleteRequests
      BY <1>0, TableRow DEF StoreOK, DeleteRequests
    <3> QED BY <1>0, <3>1, <3>2, OneRequest DEF Requests
  <2>2. CASE Answers(c)
    BY <1>0, <2>2, Answered
  <2>3. CASE /\ req[c].at \in {"delete_tunnel", "delete_record", "delete_row"}
             /\ \E l \in {"delete_record", "delete_row"} : Goes(c, [req[c] EXCEPT !.at = l])
    BY <1>0, <2>3, GoesOn, OneRequest DEF Requests
  <2> QED
    BY <2>1, <2>2, <2>3 DEF DeleteStep, DeleteChecksTunnel, DeleteChecksRecord, DeleteRow
<1> QED BY <1>1, <1>3, <1>4 DEF Typed

(* The pages that write a remote tunnel.                                   *)
LEMMA TunnelTyped ==
  ASSUME Typed, NEW c \in Clients, TunnelStep(c)
  PROVE  Typed'
<1>0. StoreOK /\ CfOK /\ TunnelsOK /\ RequestsOK /\ ReconcileOK /\ req[c] \in Requests
  BY DEF Typed, RequestsOK
<1>1. UNCHANGED <<store, cloudflare, rc>>
  BY DEF TunnelStep, EditReadsTunnel, TestReadsTunnel, EditChecksPlans, EditWrites,
         CreateChecksPlans, CreateWrites
<1>2. StoreOK' /\ CfOK' /\ ReconcileOK'
  BY <1>0, <1>1 DEF store, cloudflare, StoreOK, CfOK, ReconcileOK, ManagedIds
<1>3. TunnelsOK'
  <2>1. CASE EditWrites(c) \/ CreateWrites(c)
    <3>1. req[c] \in TunnelRequests
      BY <1>0, <2>1, Kinds DEF EditWrites, CreateWrites
    <3> QED BY <1>0, <2>1, <3>1 DEF EditWrites, CreateWrites, TunnelsOK, TunnelRequests
  <2>2. CASE UNCHANGED tunnels
    BY <1>0, <2>2 DEF TunnelsOK
  <2> QED
    BY <2>1, <2>2 DEF TunnelStep, EditReadsTunnel, TestReadsTunnel, EditChecksPlans, CreateChecksPlans
<1>4. RequestsOK'
  <2>1. ASSUME NEW n \in Names, NEW d \in Domains, NEW l \in {"edit_check", "create_write"},
               Goes(c, [at |-> l, name |-> n, domain |-> d])
        PROVE  RequestsOK'
    <3>1. [at |-> l, name |-> n, domain |-> d] \in TunnelRequests
      BY DEF TunnelRequests
    <3> QED BY <1>0, <2>1, <3>1, OneRequest DEF Requests
  <2>2. CASE EditReadsTunnel(c) \/ CreateChecksPlans(c)
    BY <2>1, <2>2 DEF EditReadsTunnel, CreateChecksPlans
  <2>3. CASE TestReadsTunnel(c)
    <3>1. PICK n \in Names : tunnels[n] # NoTunnel
                             /\ Goes(c, [at |-> "edit_check", name |-> n, domain |-> tunnels[n]])
      BY <2>3 DEF TestReadsTunnel
    <3>2. tunnels[n] \in Domains
      BY <1>0, <3>1 DEF TunnelsOK
    <3> QED BY <2>1, <3>1, <3>2
  <2>4. CASE Answers(c)
    BY <1>0, <2>4, Answered
  <2>5. CASE req[c].at = "edit_check" /\ Goes(c, [req[c] EXCEPT !.at = "edit_write"])
    BY <1>0, <2>5, GoesOn, OneRequest DEF Requests
  <2> QED
    BY <2>2, <2>3, <2>4, <2>5 DEF TunnelStep, EditChecksPlans, EditWrites, CreateWrites
<1> QED BY <1>2, <1>3, <1>4 DEF Typed

(* The imports.                                                            *)
LEMMA ImportTyped ==
  ASSUME Typed, NEW c \in Clients, ImportStep(c)
  PROVE  Typed'
<1>0. StoreOK /\ CfOK /\ TunnelsOK /\ RequestsOK /\ ReconcileOK /\ req[c] \in Requests
  BY DEF Typed, RequestsOK
<1>1. UNCHANGED <<tunnels, cloudflare, rc>>
  BY DEF ImportStep, ImportReads, ImportAllReads, ImportInserts
<1>2. CfOK' /\ TunnelsOK' /\ ReconcileOK'
  BY <1>0, <1>1 DEF cloudflare, CfOK, TunnelsOK, ReconcileOK, ManagedIds
<1>3. CASE ImportReads(c) \/ ImportAllReads(c)
  <2>1. UNCHANGED store
    BY <1>3 DEF ImportReads, ImportAllReads
  <2>2. \A n \in Names : tunnels[n] # NoTunnel => <<n, tunnels[n]>> \in Names \X Domains
    BY <1>0 DEF TunnelsOK
  <2>3. PICK todo \in SUBSET (Names \X Domains), managed \in BOOLEAN :
          Goes(c, [at |-> "import", dns_managed |-> managed, todo |-> todo])
    <3>1. CASE ImportReads(c)
      <4>1. PICK n \in Names, managed \in BOOLEAN :
              tunnels[n] # NoTunnel
              /\ Goes(c, [at |-> "import", dns_managed |-> managed, todo |-> {<<n, tunnels[n]>>}])
        BY <3>1 DEF ImportReads
      <4>2. {<<n, tunnels[n]>>} \in SUBSET (Names \X Domains)
        BY <2>2, <4>1
      <4> QED BY <4>1, <4>2
    <3>2. CASE ImportAllReads(c)
      <4> DEFINE listed == {<<n, tunnels[n]>> : n \in {m \in Names : tunnels[m] # NoTunnel}}
      <4>1. Goes(c, [at |-> "import", dns_managed |-> FALSE, todo |-> listed])
        BY <3>2 DEF ImportAllReads
      <4>2. listed \in SUBSET (Names \X Domains)
        BY <2>2
      <4> HIDE DEF listed
      <4> QED BY <4>1, <4>2
    <3> QED BY <1>3, <3>1, <3>2
  <2>4. [at |-> "import", dns_managed |-> managed, todo |-> todo] \in ImportRequests
    BY DEF ImportRequests
  <2>5. RequestsOK'
    BY <1>0, <2>3, <2>4, OneRequest DEF Requests
  <2> QED BY <1>0, <1>2, <2>1, <2>5 DEF Typed, store, StoreOK
<1>4. CASE ImportInserts(c)
  <2>1. req[c] \in ImportRequests
    BY <1>0, <1>4, Kinds DEF ImportInserts
  <2> DEFINE in(t) == [name |-> t[1], domain |-> t[2], dns_managed |-> req[c].dns_managed]
             rest(t) == req[c].todo \ {t}
  <2>2. PICK t \in req[c].todo :
          /\ insert_plan(in(t)) \/ (~Unique(0, in(t)) /\ UNCHANGED store)
          /\ IF rest(t) = {} THEN Answers(c) ELSE Goes(c, [req[c] EXCEPT !.todo = rest(t)])
    BY <1>4 DEF ImportInserts
  <2>3. in(t) \in Input
    BY <2>1 DEF ImportRequests, Input
  <2>4. [req[c] EXCEPT !.todo = rest(t)] \in ImportRequests
    BY <2>1 DEF ImportRequests
  <2>5. RequestsOK'
    <3>1. CASE Answers(c)
      BY <1>0, <3>1, Answered
    <3>2. CASE Goes(c, [req[c] EXCEPT !.todo = rest(t)])
      BY <1>0, <2>4, <3>2, OneRequest DEF Requests
    <3> QED BY <2>2, <3>1, <3>2
  <2> HIDE DEF in
  <2>6. StoreOK'
    BY <1>0, <2>2, <2>3, InsertStore DEF store, StoreOK
  <2> QED BY <1>2, <2>5, <2>6 DEF Typed
<1> QED BY <1>3, <1>4 DEF ImportStep

(* The pages that write an A record.                                       *)
LEMMA RecordTyped ==
  ASSUME Typed, NEW c \in Clients, RecordStep(c)
  PROVE  Typed'
<1>0. StoreOK /\ CfOK /\ TunnelsOK /\ RequestsOK /\ ReconcileOK /\ req[c] \in Requests
  BY DEF Typed, RequestsOK
<1>1. UNCHANGED <<store, tunnels, rc>>
  BY DEF RecordStep, RecordCreateChecks, RecordCreates, RecordReads, RecordChecksPlans, RecordWrites
<1>2. StoreOK' /\ TunnelsOK' /\ ReconcileOK'
  BY <1>0, <1>1 DEF store, StoreOK, TunnelsOK, ReconcileOK, ManagedIds
<1>3. CfOK'
  <2>1. CASE RecordCreates(c)
    <3>1. [name |-> req[c].name, pointed |-> FALSE] \in Record
      BY <1>0, <2>1, Kinds DEF RecordCreates, NewRequests, Record
    <3> QED BY <1>0, <2>1, <3>1, NewCf DEF RecordCreates
  <2>2. CASE RecordWrites(c)
    <3>1. req[c] \in RecordRequests
      BY <1>0, <2>2, Kinds DEF RecordWrites
    <3>2. [name |-> req[c].to, pointed |-> FALSE] \in Record
      BY <3>1 DEF RecordRequests, Record
    <3> QED BY <1>0, <2>2, <3>2, PatchCf, DropCf DEF RecordWrites
  <2>3. CASE UNCHANGED cloudflare
    BY <1>0, <2>3 DEF cloudflare, CfOK
  <2> QED
    BY <2>1, <2>2, <2>3 DEF RecordStep, RecordCreateChecks, RecordReads, RecordChecksPlans
<1>4. RequestsOK'
  <2>1. CASE RecordCreateChecks(c)
    <3>1. PICK d \in Domains : Goes(c, [at |-> "record_create", name |-> d])
      BY <2>1 DEF RecordCreateChecks
    <3>2. [at |-> "record_create", name |-> d] \in NewRequests
      BY DEF NewRequests
    <3> QED BY <1>0, <3>1, <3>2, OneRequest DEF Requests
  <2>2. CASE RecordReads(c)
    <3>1. PICK r \in DOMAIN records, d \in Domains, delete \in BOOLEAN :
            Goes(c, [at |-> "record_check", record |-> r, name |-> records[r].name,
                     to |-> d, delete |-> delete])
      BY <2>2 DEF RecordReads
    <3>2. r \in RecordIds /\ records[r].name \in Domains
      BY <1>0, OwnershipAssumption DEF CfOK, RecordIds, Record
    <3>3. [at |-> "record_check", record |-> r, name |-> records[r].name,
           to |-> d, delete |-> delete] \in RecordRequests
      BY <3>2 DEF RecordRequests
    <3> QED BY <1>0, <3>1, <3>3, OneRequest DEF Requests
  <2>3. CASE Answers(c)
    BY <1>0, <2>3, Answered
  <2>4. CASE req[c].at = "record_check" /\ Goes(c, [req[c] EXCEPT !.at = "record_write"])
    BY <1>0, <2>4, GoesOn, OneRequest DEF Requests
  <2> QED
    BY <2>1, <2>2, <2>3, <2>4 DEF RecordStep, RecordCreates, RecordChecksPlans, RecordWrites
<1> QED BY <1>2, <1>3, <1>4 DEF Typed

(* What needs no place of its own, and what only ends a request.           *)
LEMMA OtherTyped ==
  ASSUME Typed, PlanStep \/ PanelDeletes \/ \E c \in Clients : RequestFails(c)
  PROVE  Typed'
<1>0. StoreOK /\ CfOK /\ TunnelsOK /\ RequestsOK /\ ReconcileOK
  BY DEF Typed
<1>1. CASE PlanStep
  <2>1. UNCHANGED <<tunnels, cloudflare, req, rc>>
    BY <1>1 DEF PlanStep, create_tunnel, update_tunnel, unmanage_tunnel
  <2>2. StoreOK'
    <3>1. CASE create_tunnel
      BY <1>0, <3>1, InsertStore DEF create_tunnel
    <3>2. CASE unmanage_tunnel
      BY <1>0, <3>2, DeleteStore DEF unmanage_tunnel
    <3> QED BY <1>0, <1>1, <3>1, <3>2, UpdateStore DEF PlanStep
  <2> QED
    BY <1>0, <2>1, <2>2 DEF Typed, cloudflare, CfOK, TunnelsOK, RequestsOK, ReconcileOK, ManagedIds
<1>2. CASE PanelDeletes
  <2>1. UNCHANGED <<store, cloudflare, req, rc>> /\ TunnelsOK'
    BY <1>0, <1>2 DEF PanelDeletes, TunnelsOK
  <2> QED
    BY <1>0, <2>1 DEF Typed, store, cloudflare, StoreOK, CfOK, RequestsOK, ReconcileOK, ManagedIds
<1>3. CASE \E c \in Clients : RequestFails(c)
  <2>1. RequestsOK' /\ UNCHANGED <<store, tunnels, cloudflare, rc>>
    BY <1>0, <1>3, Answered DEF RequestFails
  <2> QED
    BY <1>0, <2>1 DEF Typed, store, cloudflare, StoreOK, CfOK, TunnelsOK, ReconcileOK, ManagedIds
<1> QED BY <1>1, <1>2, <1>3

-----------------------------------------------------------------------------
(* A reconcile. *)

LEMMA Ended == Ends => ReconcileOK'
  BY DEF Ends, Held, NoReconcile, ReconcileOK

(* What the reconcile in hand is in each place.                            *)
LEMMA Places ==
  ASSUME ReconcileOK
  PROVE  /\ rc.at \in {"preflight", "list", "records"} => rc \in Readings
         /\ rc.at \in {"tunnels", "verify"} => rc \in Syncs
         /\ rc.at \in {"upsert", "store"} => rc \in Upserts
         /\ rc.at # "idle" => rc.plans \in Tables
  BY DEF ReconcileOK, NoReconcile, Readings, Syncs, Upserts

LEMMA ReconcileTunnelTyped ==
  ASSUME TunnelsOK, ReconcileOK, ReconcileTunnel
  PROVE  TunnelsOK' /\ ReconcileOK'
<1>1. rc \in Syncs /\ rc.at = "tunnels" /\ rc.todo \subseteq DOMAIN rc.plans /\ rc.plans \in Tables
  BY Places DEF ReconcileTunnel, ReconcileOK
<1>2. CASE Ends /\ UNCHANGED tunnels
  BY <1>2, Ended DEF TunnelsOK
<1>3. CASE ~(Ends /\ UNCHANGED tunnels)
  <2> DEFINE right(id) == rc.seen[id] = rc.plans[id].domain
             next(id) == [rc EXCEPT !.todo = rc.todo \ {id},
                                    !.at = IF rc.todo = {id} THEN "verify" ELSE "tunnels"]
  <2>1. PICK id \in rc.todo :
          /\ tunnels' = IF right(id) THEN tunnels
                        ELSE [tunnels EXCEPT ![rc.plans[id].name] = rc.plans[id].domain]
          /\ rc' = next(id)
    BY <1>3 DEF ReconcileTunnel, Held
  <2>2. rc.plans[id].domain \in Domains
    BY <1>1, TableRow DEF Plan
  <2>3. TunnelsOK'
    BY <2>1, <2>2 DEF TunnelsOK
  <2>4. /\ next(id) \in Syncs /\ next(id).at \in {"tunnels", "verify"}
        /\ next(id).plans = rc.plans /\ next(id).todo \subseteq rc.todo
    BY <1>1 DEF Syncs
  <2>5. ReconcileOK'
    <3> HIDE DEF next
    <3> QED BY <1>1, <2>1, <2>4 DEF ReconcileOK
  <2> QED BY <2>3, <2>5
<1> QED BY <1>2, <1>3

(* reconcile_dns has listed the records.                                   *)
LEMMA ListedRecords ==
  ASSUME CfOK, ReconcileOK, ReconcileListsRecords, ~Ends
  PROVE  /\ rc.plans \in Tables /\ rc' \in Upserts /\ rc'.at = "upsert"
         /\ rc'.plans = rc.plans /\ rc'.todo = ManagedIds
         /\ \A id \in ManagedIds : rc'.found[id] = Named(rc.plans[id].domain)
<1> DEFINE found == [id \in ManagedIds |-> Named(rc.plans[id].domain)]
           next == [at |-> "upsert", plans |-> rc.plans, todo |-> ManagedIds,
                    found |-> found, now |-> 0, got |-> 0]
<1>1. rc.plans \in Tables /\ rc' = next
  BY Places DEF ReconcileListsRecords, Held
<1>2. ManagedIds \in SUBSET PlanIds
  BY <1>1, TableRow DEF ManagedIds
<1>3. \A id \in ManagedIds : Named(rc.plans[id].domain) \in SUBSET RecordIds
  BY OwnershipAssumption DEF CfOK, Named, RecordIds
<1>4. found \in Founds
  <2>1. found \in [ManagedIds -> SUBSET RecordIds]
    BY <1>3
  <2> HIDE DEF found
  <2> QED BY <1>2, <2>1 DEF Founds
<1>5. \A id \in ManagedIds : found[id] = Named(rc.plans[id].domain)
  OBVIOUS
<1> HIDE DEF found
<1>6. next \in Upserts
  BY <1>1, <1>2, <1>4 DEF Upserts
<1> QED BY <1>1, <1>5, <1>6

LEMMA UpsertTyped ==
  ASSUME CfOK, ReconcileOK, ReconcileUpserts
  PROVE  /\ CfOK' /\ ReconcileOK'
         /\ \E id \in rc.todo :
              /\ rc' \in Upserts /\ rc'.at = "store" /\ rc'.now = id
              /\ rc'.plans = rc.plans /\ rc'.todo = rc.todo /\ rc'.found = rc.found
              /\ \/ /\ rc.found[id] = {}
                    /\ lastRecord' \notin DOMAIN records
                    /\ DOMAIN records' = DOMAIN records \cup {lastRecord'}
                    /\ records'[lastRecord'].name = rc.plans[id].domain
                    /\ \A r \in DOMAIN records : records'[r] = records[r]
                 \/ /\ DOMAIN records' = DOMAIN records
                    /\ \A r \in DOMAIN records : records'[r].name = records[r].name
<1>1. /\ rc \in Upserts /\ rc.plans \in Tables /\ rc.todo \subseteq ManagedIds
      /\ ManagedIds \subseteq DOMAIN rc.plans
  BY Places DEF ReconcileUpserts, ReconcileOK, ManagedIds
<1>2. PICK id \in rc.todo : upsert_a_record(id)
  BY DEF ReconcileUpserts
<1>3. id \in DOMAIN rc.plans /\ id \in PlanIds /\ rc.plans[id].domain \in Domains
  BY <1>1, TableRow DEF Plan
<1> DEFINE next(r) == [rc EXCEPT !.at = "store", !.now = id, !.got = r]
<1>4. ASSUME NEW r \in RecordIds
      PROVE  /\ next(r) \in Upserts /\ next(r).at = "store" /\ next(r).now = id
             /\ next(r).plans = rc.plans /\ next(r).todo = rc.todo /\ next(r).found = rc.found
  BY <1>1, <1>3 DEF Upserts
<1>5. CASE /\ rc.found[id] = {}
           /\ NewRecord([name |-> rc.plans[id].domain, pointed |-> TRUE])
           /\ rc' = next(lastRecord')
  <2>1. [name |-> rc.plans[id].domain, pointed |-> TRUE] \in Record
    BY <1>3 DEF Record
  <2>2. /\ CfOK' /\ lastRecord' \in RecordIds /\ lastRecord' \notin DOMAIN records
        /\ DOMAIN records' = DOMAIN records \cup {lastRecord'}
        /\ records'[lastRecord'].name = rc.plans[id].domain
        /\ \A r \in DOMAIN records : records'[r] = records[r]
    BY <1>5, <2>1, NewCf
  <2> HIDE DEF next
  <2>3. ReconcileOK'
    BY <1>1, <1>4, <1>5, <2>2 DEF ReconcileOK, ManagedIds
  <2> QED BY <1>4, <1>5, <2>2, <2>3
<1>6. CASE \E r \in rc.found[id] :
             /\ PatchRecord(r, [name |-> records[r].name, pointed |-> TRUE])
             /\ rc' = next(r)
  <2>1. PICK r \in rc.found[id] :
          PatchRecord(r, [name |-> records[r].name, pointed |-> TRUE]) /\ rc' = next(r)
    BY <1>6
  <2>2. [name |-> records[r].name, pointed |-> TRUE] \in Record
    BY <2>1 DEF PatchRecord, CfOK, Record
  <2>3. /\ CfOK' /\ r \in RecordIds /\ DOMAIN records' = DOMAIN records
        /\ records'[r].name = records[r].name
        /\ \A s \in DOMAIN records \ {r} : records'[s] = records[s]
    BY <2>1, <2>2, PatchCf
  <2> HIDE DEF next
  <2>4. ReconcileOK'
    BY <1>1, <1>4, <2>1, <2>3 DEF ReconcileOK, ManagedIds
  <2> QED BY <1>4, <2>1, <2>3, <2>4
<1> QED BY <1>2, <1>5, <1>6 DEF upsert_a_record, Held

LEMMA StoresIdTyped ==
  ASSUME StoreOK, ReconcileOK, ReconcileStoresId
  PROVE  StoreOK' /\ ReconcileOK'
<1>1. rc \in Upserts /\ rc.todo \subseteq ManagedIds
  BY Places DEF ReconcileStoresId, ReconcileOK
<1>2. StoreOK'
  <2>1. rc.got \in {0} \cup RecordIds
    BY <1>1 DEF Upserts
  <2>2. CASE UNCHANGED store
    BY <2>2 DEF store, StoreOK
  <2> QED BY <2>1, <2>2, RecordIdStore DEF ReconcileStoresId
<1>3. ReconcileOK'
  <2>1. CASE Ends
    BY <2>1, Ended
  <2> DEFINE next == [rc EXCEPT !.at = "upsert", !.todo = rc.todo \ {rc.now}, !.now = 0, !.got = 0]
  <2>2. CASE rc' = next
    <3>1. next \in Upserts /\ next.plans = rc.plans /\ next.todo \subseteq rc.todo /\ next.at = "upsert"
      BY <1>1 DEF Upserts
    <3> HIDE DEF next
    <3> QED BY <1>1, <2>2, <3>1 DEF ReconcileOK, ManagedIds
  <2> QED BY <2>1, <2>2 DEF ReconcileStoresId, Held
<1> QED BY <1>2, <1>3

LEMMA ReconcileTyped == ASSUME Typed, ReconcileStep PROVE Typed'
<1>0. StoreOK /\ CfOK /\ TunnelsOK /\ RequestsOK /\ ReconcileOK
  BY DEF Typed
<1>1. CASE ReconcileTunnel
  BY <1>0, <1>1, ReconcileTunnelTyped
  DEF ReconcileTunnel, Typed, store, cloudflare, StoreOK, CfOK, RequestsOK
<1>2. CASE ReconcileUpserts
  BY <1>0, <1>2, UpsertTyped DEF ReconcileUpserts, Typed, store, StoreOK, TunnelsOK, RequestsOK
<1>3. CASE ReconcileStoresId
  BY <1>0, <1>3, StoresIdTyped DEF ReconcileStoresId, Typed, cloudflare, CfOK, TunnelsOK, RequestsOK
<1>4. CASE ReconcileOK' /\ UNCHANGED <<store, tunnels, cloudflare, req>>
  BY <1>0, <1>4 DEF Typed, store, cloudflare, StoreOK, CfOK, TunnelsOK, RequestsOK
<1>5. CASE ReconcileReadsPlans
  <2>1. [at |-> "preflight", plans |-> plans] \in Readings
    BY <1>0 DEF StoreOK, Readings
  <2> QED BY <1>4, <1>5, <2>1 DEF ReconcileReadsPlans, Held, ReconcileOK
<1>6. CASE ReconcilePreflight
  <2>1. CASE Ends
    BY <1>4, <1>6, <2>1, Ended DEF ReconcilePreflight
  <2>2. CASE rc' = [rc EXCEPT !.at = "list"]
    <3>1. rc' \in Readings /\ rc'.at = "list"
      BY <1>0, <1>6, <2>2, Places DEF ReconcilePreflight, Readings
    <3> QED BY <1>4, <1>6, <3>1 DEF ReconcilePreflight, ReconcileOK
  <2> QED BY <1>6, <2>1, <2>2 DEF ReconcilePreflight, Held
<1>7. CASE ReconcileLists
  <2> DEFINE seen == [id \in DOMAIN rc.plans |-> tunnels[rc.plans[id].name]]
  <2>1. rc.plans \in Tables
    BY <1>0, <1>7, Places DEF ReconcileLists
  <2>2. \A id \in DOMAIN rc.plans : tunnels[rc.plans[id].name] \in Domains \cup {NoTunnel}
    BY <1>0, <2>1, TableRow DEF TunnelsOK, Plan
  <2>3. seen \in Lists
    <3>1. seen \in [DOMAIN rc.plans -> Domains \cup {NoTunnel}]
      BY <2>2
    <3> HIDE DEF seen
    <3> QED BY <2>1, <3>1, TableRow DEF Lists
  <2>4. rc' = [at |-> "tunnels", plans |-> rc.plans, seen |-> seen, todo |-> DOMAIN rc.plans]
    BY <1>7 DEF ReconcileLists, Held
  <2> HIDE DEF seen
  <2>5. rc' \in Syncs /\ rc'.at = "tunnels" /\ rc'.todo = DOMAIN rc'.plans
    BY <2>1, <2>3, <2>4, TableRow DEF Syncs
  <2> QED BY <1>4, <1>7, <2>5 DEF ReconcileLists, ReconcileOK
<1>8. CASE ReconcileVerifies
  <2>1. CASE Ends
    BY <1>4, <1>8, <2>1, Ended DEF ReconcileVerifies
  <2>2. CASE rc' = [at |-> "records", plans |-> rc.plans]
    <3>1. rc' \in Readings /\ rc'.at = "records"
      BY <1>0, <1>8, <2>2, Places DEF ReconcileVerifies, Readings
    <3> QED BY <1>4, <1>8, <3>1 DEF ReconcileVerifies, ReconcileOK
  <2> QED BY <1>8, <2>1, <2>2 DEF ReconcileVerifies, Held
<1>9. CASE ReconcileListsRecords
  <2>1. CASE Ends
    BY <1>4, <1>9, <2>1, Ended DEF ReconcileListsRecords
  <2>2. CASE ~Ends
    <3>1. rc' \in Upserts /\ rc'.at = "upsert" /\ rc'.plans = rc.plans /\ rc'.todo = ManagedIds
      BY <1>0, <1>9, <2>2, ListedRecords
    <3>2. ManagedIds' = ManagedIds
      BY <3>1 DEF ManagedIds
    <3>3. ReconcileOK'
      BY <3>1, <3>2 DEF ReconcileOK
    <3> QED BY <1>4, <1>9, <3>3 DEF ReconcileListsRecords
  <2> QED BY <2>1, <2>2
<1>10. CASE ReconcileFails
  BY <1>4, <1>10, Ended DEF ReconcileFails
<1> QED
  BY <1>1, <1>2, <1>3, <1>5, <1>6, <1>7, <1>8, <1>9, <1>10 DEF ReconcileStep

(* The initial states, and every step.                                     *)
LEMMA InitTyped == Init => Typed
<1> SUFFICES ASSUME Init PROVE Typed
  OBVIOUS
<1>1. /\ plans = [id \in {} |-> plans[id]] /\ DOMAIN plans = {}
      /\ DOMAIN records = {} /\ records = [r \in {} |-> records[r]]
  BY DEF Init
<1>2. StoreOK
  <2>1. plans \in Tables
    BY <1>1, TableOf
  <2> QED BY <1>1, <2>1, OwnershipAssumption DEF Init, StoreOK, Constrained
<1>3. CfOK
  BY <1>1, OwnershipAssumption DEF Init, CfOK
<1> QED BY <1>2, <1>3 DEF Init, Typed, TunnelsOK, RequestsOK, Requests, ReconcileOK, NoReconcile

LEMMA StepTyped == Typed /\ [Next]_vars => Typed'
<1> SUFFICES ASSUME Typed, [Next]_vars PROVE Typed'
  OBVIOUS
<1>1. CASE UNCHANGED vars
  BY <1>1
  DEF vars, Typed, StoreOK, CfOK, TunnelsOK, RequestsOK, ReconcileOK, ManagedIds
<1> QED
  BY <1>1, OtherTyped, ReconcileTyped, DeleteTyped, TunnelTyped, ImportTyped, RecordTyped
  DEF Next, RequestStep

(* Every variable has its type, and the constraints of the table hold, in  *)
(* any interleaving of the requests and a reconcile.                       *)
LEMMA TypedInvariant == Spec => []Typed
  BY InitTyped, StepTyped, PTL DEF Spec

THEOREM OwnershipTyped == Spec => []TypeOK
<1>1. Typed => TypeOK
  <2> SUFFICES ASSUME Typed PROVE TypeOK
    OBVIOUS
  <2>1. \A id \in DOMAIN plans : plans[id] \in Plan /\ Unique(id, plans[id])
    BY TableRow DEF Typed, StoreOK, Constrained, Unique
  <2> QED BY <2>1 DEF Typed, StoreOK, CfOK, TunnelsOK, TypeOK
<1> QED BY <1>1, TypedInvariant, PTL

-----------------------------------------------------------------------------
(* What a request has been told. *)

(* A check that was passed leaves its fact out of what has held all along: *)
(* it was false at least at that moment.                                   *)
KeptOK(c) ==
  /\ req[c].at \in {"delete_record", "delete_row"} => "tunnel" \notin kept[c]
  /\ req[c].at = "delete_row" => "record" \notin kept[c]
  /\ req[c].at \in {"edit_write", "create_write"} => "planned" \notin kept[c]
  /\ req[c].at = "record_write" => "managed" \notin kept[c]

KeptInv == \A c \in Clients : KeptOK(c)

(* The history only remembers what holds now, and during a request nothing *)
(* is added to it.                                                         *)
LEMMA Remembered ==
  ASSUME Remember, NEW c \in Clients
  PROVE  /\ kept'[c] \subseteq Facts(req[c])'
         /\ req[c].at # "idle" => kept'[c] \subseteq kept[c]
  BY DEF Remember

LEMMA KeptStill ==
  ASSUME Remember, NEW c \in Clients, KeptOK(c), req'[c] = req[c]
  PROVE  KeptOK(c)'
  BY Remembered DEF KeptOK

LEMMA KeptDelete ==
  ASSUME Typed, NEW c \in Clients, KeptOK(c), DeleteStep(c), Remember
  PROVE  KeptOK(c)'
<1>0. RequestsOK /\ req[c] \in Requests
  BY DEF Typed, RequestsOK
<1>1. kept'[c] \subseteq Facts(req[c])' /\ (req[c].at # "idle" => kept'[c] \subseteq kept[c])
  BY Remembered
<1>2. CASE DeleteReadsPlan(c)
  <2>1. req'[c].at = "delete_tunnel"
    BY <1>0, <1>2, OneRequest DEF DeleteReadsPlan
  <2> QED BY <2>1 DEF KeptOK
<1>3. CASE Answers(c)
  <2>1. req'[c].at = "idle"
    BY <1>0, <1>3, Answered DEF NoRequest
  <2> QED BY <2>1 DEF KeptOK
<1>4. CASE DeleteChecksTunnel(c) /\ ~Answers(c)
  <2>1. /\ req[c].at = "delete_tunnel" /\ tunnels' = tunnels
        /\ tunnels[req[c].plan.name] = NoTunnel
        /\ \E l \in {"delete_record", "delete_row"} :
             /\ Goes(c, [req[c] EXCEPT !.at = l])
             /\ l = "delete_row" => ~req[c].plan.dns_managed
    BY <1>4 DEF DeleteChecksTunnel
  <2>2. PICK l \in {"delete_record", "delete_row"} :
             Goes(c, [req[c] EXCEPT !.at = l]) /\ (l = "delete_row" => ~req[c].plan.dns_managed)
    BY <2>1
  <2>3. req'[c].at = l /\ req'[c].plan = req[c].plan
    <3>1. req'[c] = [req[c] EXCEPT !.at = l]
      BY <1>0, <2>2, OneRequest
    <3> QED BY <1>0, <2>1, <3>1, GoesOn
  <2>4. "tunnel" \notin Facts(req[c])'
    BY <2>1, <2>3 DEF Facts, Holds
  <2>5. l = "delete_row" => "record" \notin Facts(req[c])'
    BY <2>2, <2>3 DEF Facts, Holds
  <2> QED BY <1>1, <2>3, <2>4, <2>5 DEF KeptOK
<1>5. CASE DeleteChecksRecord(c) /\ ~Answers(c)
  <2>1. /\ req[c].at = "delete_record" /\ records' = records
        /\ Named(req[c].plan.domain) = {}
        /\ Goes(c, [req[c] EXCEPT !.at = "delete_row"])
    BY <1>5 DEF DeleteChecksRecord, cloudflare
  <2>2. req'[c].at = "delete_row" /\ req'[c].plan = req[c].plan
    <3>1. req'[c] = [req[c] EXCEPT !.at = "delete_row"]
      BY <1>0, <2>1, OneRequest
    <3> QED BY <1>0, <2>1, <3>1, GoesOn
  <2>3. "record" \notin Facts(req[c])'
    BY <2>1, <2>2 DEF Facts, Holds, Named
  <2>4. "tunnel" \notin kept[c] /\ kept'[c] \subseteq kept[c]
    BY <1>1, <2>1 DEF KeptOK
  <2> QED BY <1>1, <2>2, <2>3, <2>4 DEF KeptOK
<1> QED
  BY <1>2, <1>3, <1>4, <1>5 DEF DeleteStep, DeleteChecksTunnel, DeleteChecksRecord, DeleteRow

LEMMA KeptTunnel ==
  ASSUME Typed, NEW c \in Clients, KeptOK(c), TunnelStep(c), Remember
  PROVE  KeptOK(c)'
<1>0. RequestsOK /\ req[c] \in Requests
  BY DEF Typed, RequestsOK
<1>1. kept'[c] \subseteq Facts(req[c])'
  BY Remembered
<1>2. CASE EditReadsTunnel(c) \/ TestReadsTunnel(c)
  <2>1. req'[c].at = "edit_check"
    BY <1>0, <1>2 DEF EditReadsTunnel, TestReadsTunnel, Goes, RequestsOK
  <2> QED BY <2>1 DEF KeptOK
<1>3. CASE Answers(c)
  <2>1. req'[c].at = "idle"
    BY <1>0, <1>3, Answered DEF NoRequest
  <2> QED BY <2>1 DEF KeptOK
<1>4. ASSUME NEW n, plans' = plans, ~Planned(n), req'[c].name = n,
             req'[c].at \in {"edit_write", "create_write"}
      PROVE  KeptOK(c)'
  <2>1. "planned" \notin Facts(req[c])'
    BY <1>4 DEF Facts, Holds, Planned
  <2> QED BY <1>1, <1>4, <2>1 DEF KeptOK
<1>5. CASE EditChecksPlans(c) /\ ~Answers(c)
  <2>1. /\ req[c].at = "edit_check" /\ plans' = plans /\ ~Planned(req[c].name)
        /\ Goes(c, [req[c] EXCEPT !.at = "edit_write"])
    BY <1>5 DEF EditChecksPlans, store
  <2>2. req'[c].at = "edit_write" /\ req'[c].name = req[c].name
    <3>1. req'[c] = [req[c] EXCEPT !.at = "edit_write"]
      BY <1>0, <2>1, OneRequest
    <3> QED BY <1>0, <2>1, <3>1, GoesOn
  <2> QED BY <1>4, <2>1, <2>2
<1>6. CASE CreateChecksPlans(c)
  <2>1. PICK n \in Names, d \in Domains :
          ~Planned(n) /\ Goes(c, [at |-> "create_write", name |-> n, domain |-> d])
    BY <1>6 DEF CreateChecksPlans
  <2>2. req'[c].at = "create_write" /\ req'[c].name = n
    BY <1>0, <2>1, OneRequest
  <2> QED BY <1>4, <1>6, <2>1, <2>2 DEF CreateChecksPlans, store
<1> QED
  BY <1>2, <1>3, <1>5, <1>6 DEF TunnelStep, EditChecksPlans, EditWrites, CreateWrites

LEMMA KeptRecord ==
  ASSUME Typed, NEW c \in Clients, KeptOK(c), RecordStep(c), Remember
  PROVE  KeptOK(c)'
<1>0. RequestsOK /\ req[c] \in Requests
  BY DEF Typed, RequestsOK
<1>1. kept'[c] \subseteq Facts(req[c])'
  BY Remembered
<1>2. CASE RecordCreateChecks(c) \/ RecordReads(c)
  <2>1. req'[c].at \in {"record_create", "record_check"}
    BY <1>0, <1>2 DEF RecordCreateChecks, RecordReads, Goes, RequestsOK
  <2> QED BY <2>1 DEF KeptOK
<1>3. CASE Answers(c)
  <2>1. req'[c].at = "idle"
    BY <1>0, <1>3, Answered DEF NoRequest
  <2> QED BY <2>1 DEF KeptOK
<1>4. CASE RecordChecksPlans(c) /\ ~Answers(c)
  <2>1. /\ req[c].at = "record_check" /\ plans' = plans
        /\ ~managed_plan_for_dns(req[c].record, req[c].name)
        /\ Goes(c, [req[c] EXCEPT !.at = "record_write"])
    BY <1>4 DEF RecordChecksPlans, store
  <2>2. req'[c].at = "record_write" /\ req'[c].name = req[c].name /\ req'[c].record = req[c].record
    <3>1. req'[c] = [req[c] EXCEPT !.at = "record_write"]
      BY <1>0, <2>1, OneRequest
    <3> QED BY <1>0, <2>1, <3>1, GoesOn
  <2>3. "managed" \notin Facts(req[c])'
    BY <2>1, <2>2 DEF Facts, Holds, managed_plan_for_dns
  <2> QED BY <1>1, <2>2, <2>3 DEF KeptOK
<1> QED
  BY <1>2, <1>3, <1>4 DEF RecordStep, RecordCreates, RecordChecksPlans, RecordWrites

LEMMA KeptImport ==
  ASSUME Typed, NEW c \in Clients, KeptOK(c), ImportStep(c)
  PROVE  KeptOK(c)'
<1>0. RequestsOK /\ req[c] \in Requests
  BY DEF Typed, RequestsOK
<1>1. req'[c].at \in {"idle", "import"}
  <2>1. CASE ImportReads(c) \/ ImportAllReads(c)
    BY <1>0, <2>1 DEF ImportReads, ImportAllReads, Goes, RequestsOK
  <2>2. CASE ImportInserts(c)
    <3>1. req[c] \in ImportRequests
      BY <1>0, <2>2, Kinds DEF ImportInserts
    <3>2. \A todo : [req[c] EXCEPT !.todo = todo].at = "import"
      BY <3>1 DEF ImportRequests
    <3>3. CASE Answers(c)
      BY <1>0, <3>3, Answered DEF NoRequest
    <3>4. CASE \E todo : Goes(c, [req[c] EXCEPT !.todo = todo])
      BY <1>0, <3>2, <3>4, OneRequest
    <3> QED BY <2>2, <3>3, <3>4 DEF ImportInserts
  <2> QED BY <2>1, <2>2 DEF ImportStep
<1> QED BY <1>1 DEF KeptOK

LEMMA KeptStep == Typed /\ KeptInv /\ [Next]_vars => KeptInv'
<1> SUFFICES ASSUME Typed, KeptInv, [Next]_vars, NEW d \in Clients PROVE KeptOK(d)'
  BY DEF KeptInv
<1>0. RequestsOK /\ KeptOK(d)
  BY DEF Typed, KeptInv
<1>1. CASE UNCHANGED vars
  BY <1>0, <1>1 DEF vars, KeptOK
<1>2. CASE Next /\ req'[d] = req[d]
  BY <1>0, <1>2, KeptStill DEF Next
<1>3. CASE Next /\ req'[d] # req[d]
  <2>1. \E c \in Clients : RequestStep(c)
    BY <1>3 DEF Next, PlanStep, create_tunnel, update_tunnel, unmanage_tunnel, PanelDeletes,
         ReconcileStep, ReconcileReadsPlans, ReconcilePreflight, ReconcileLists, ReconcileTunnel,
         ReconcileVerifies, ReconcileListsRecords, ReconcileUpserts, ReconcileStoresId, ReconcileFails
  <2>2. PICK c \in Clients : RequestStep(c)
    BY <2>1
  <2>3. PICK r : Goes(c, r)
    BY <2>2 DEF RequestStep, DeleteStep, DeleteReadsPlan, DeleteChecksTunnel, DeleteChecksRecord,
         DeleteRow, TunnelStep, EditReadsTunnel, TestReadsTunnel, EditChecksPlans, EditWrites,
         CreateChecksPlans, CreateWrites, ImportStep, ImportReads, ImportAllReads, ImportInserts,
         RecordStep, RecordCreateChecks, RecordCreates, RecordReads, RecordChecksPlans,
         RecordWrites, RequestFails, Answers
  <2>4. c = d
    BY <1>0, <1>3, <2>3, OneRequest
  <2>5. CASE RequestFails(c)
    <3>1. req'[d].at = "idle"
      BY <1>0, <2>4, <2>5, Answered DEF RequestFails, NoRequest
    <3> QED BY <3>1 DEF KeptOK
  <2> QED
    BY <1>0, <1>3, <2>2, <2>4, <2>5, KeptDelete, KeptTunnel, KeptRecord, KeptImport
    DEF RequestStep, Next
<1> QED BY <1>2, <1>3, <1>1

LEMMA KeptInvariant == Spec => [](Typed /\ KeptInv)
<1>1. Init => KeptInv
  BY DEF Init, KeptInv, KeptOK, NoRequest
<1> QED BY <1>1, InitTyped, StepTyped, KeptStep, PTL DEF Spec

(* No request, import or reconcile makes a row disappear that was there    *)
(* all through its deletion together with its tunnel or managed record.    *)
THEOREM DeletionKeepsOwner == Spec => DeleteKeepsOwner
<1> DEFINE Spared(c) ==
      req[c].at = "delete_row" /\ DOMAIN plans' # DOMAIN plans
        => ~({"row", "tunnel"} \subseteq kept[c] \/ {"row", "record"} \subseteq kept[c])
<1>1. KeptInv => \A c \in Clients : Spared(c)
  BY DEF KeptInv, KeptOK
<1>2. KeptInv /\ [Next]_vars => [\A c \in Clients : Spared(c)]_vars
  BY <1>1
<1> QED BY <1>2, KeptInvariant, PTL DEF Spec, DeleteKeepsOwner

(* The remote tunnel pages write no tunnel that had a plan throughout.     *)
THEOREM PlannedSpared == Spec => EditSparesPlanned
<1> DEFINE Spared(c) ==
      req[c].at \in {"edit_write", "create_write"} /\ tunnels' # tunnels => "planned" \notin kept[c]
<1>1. KeptInv => \A c \in Clients : Spared(c)
  BY DEF KeptInv, KeptOK
<1>2. KeptInv /\ [Next]_vars => [\A c \in Clients : Spared(c)]_vars
  BY <1>1
<1> QED BY <1>2, KeptInvariant, PTL DEF Spec, EditSparesPlanned

(* The DNS page writes no record that a plan managed throughout.           *)
THEOREM ManagedSpared == Spec => PageSparesManaged
<1> DEFINE Spared(c) ==
      req[c].at = "record_write" /\ records' # records => "managed" \notin kept[c]
<1>1. KeptInv => \A c \in Clients : Spared(c)
  BY DEF KeptInv, KeptOK
<1>2. KeptInv /\ [Next]_vars => [\A c \in Clients : Spared(c)]_vars
  BY <1>1
<1> QED BY <1>2, KeptInvariant, PTL DEF Spec, PageSparesManaged

-----------------------------------------------------------------------------
(* The records that reconciles make. *)

(* What a reconcile goes by has the constraints of the table it has read.  *)
SnapshotInv == rc.at # "idle" => Constrained(rc.plans)

(* The plans whose record is still to be made or patched.                  *)
Waiting == IF rc.at = "store" THEN rc.todo \ {rc.now} ELSE rc.todo

(* A record that was not found when the records were listed is not there   *)
(* until the upsert of its plan makes it.                                  *)
FreeInv ==
  rc.at \in {"upsert", "store"} =>
    \A id \in Waiting : rc.found[id] = {} => Named(rc.plans[id].domain) = {}

OneEach == \A r, s \in DOMAIN records : records[r].name = records[s].name => r = s

RecordsInv == SnapshotInv /\ FreeInv /\ OneEach

LEMMA UpsertRecords ==
  ASSUME Typed, RecordsInv, ReconcileUpserts
  PROVE  RecordsInv'
<1>0. CfOK /\ ReconcileOK /\ SnapshotInv /\ FreeInv /\ OneEach /\ rc.at = "upsert"
  BY DEF Typed, RecordsInv, ReconcileUpserts
<1>1. PICK id \in rc.todo :
        /\ rc'.at = "store" /\ rc'.now = id
        /\ rc'.plans = rc.plans /\ rc'.todo = rc.todo /\ rc'.found = rc.found
        /\ \/ /\ rc.found[id] = {}
              /\ lastRecord' \notin DOMAIN records
              /\ DOMAIN records' = DOMAIN records \cup {lastRecord'}
              /\ records'[lastRecord'].name = rc.plans[id].domain
              /\ \A r \in DOMAIN records : records'[r] = records[r]
           \/ /\ DOMAIN records' = DOMAIN records
              /\ \A r \in DOMAIN records : records'[r].name = records[r].name
  BY <1>0, UpsertTyped
<1>2. SnapshotInv'
  BY <1>0, <1>1 DEF SnapshotInv
<1>3. \A i \in rc.todo : i \in DOMAIN rc.plans /\ rc.plans[i].dns_managed
  BY <1>0 DEF ReconcileOK, ManagedIds
<1>4. \A i \in rc.todo \ {id} : rc.plans[i].domain # rc.plans[id].domain
  BY <1>0, <1>3 DEF SnapshotInv, Constrained
<1>5. \A i \in rc.todo : rc.found[i] = {} => Named(rc.plans[i].domain) = {}
  BY <1>0 DEF FreeInv, Waiting
<1>6. \A i \in rc.todo \ {id} : rc.found[i] = {} => Named(rc.plans[i].domain)' = {}
  <2> SUFFICES ASSUME NEW i \in rc.todo \ {id}, rc.found[i] = {},
                      NEW r \in DOMAIN records', records'[r].name = rc.plans[i].domain
               PROVE  FALSE
    BY <1>1 DEF Named
  <2>1. \A s \in DOMAIN records : records[s].name # rc.plans[i].domain
    BY <1>5 DEF Named
  <2> QED BY <1>1, <1>4, <2>1
<1>7. FreeInv'
  <2>1. Waiting' = rc.todo \ {id}
    BY <1>1 DEF Waiting
  <2> QED BY <1>1, <1>6, <2>1 DEF FreeInv
<1>8. OneEach'
  <2>1. rc.found[id] = {} => \A s \in DOMAIN records : records[s].name # rc.plans[id].domain
    BY <1>5 DEF Named
  <2> QED BY <1>0, <1>1, <2>1 DEF OneEach
<1> QED BY <1>2, <1>7, <1>8 DEF RecordsInv

LEMMA RecordsStep == Typed /\ RecordsInv /\ [NextReconciles]_vars => RecordsInv'
<1> SUFFICES ASSUME Typed, RecordsInv, [NextReconciles]_vars PROVE RecordsInv'
  OBVIOUS
<1>0. StoreOK /\ CfOK /\ ReconcileOK /\ SnapshotInv /\ FreeInv /\ OneEach
  BY DEF Typed, RecordsInv
<1>1. ASSUME UNCHANGED <<records, rc>> PROVE RecordsInv'
  BY <1>0, <1>1 DEF RecordsInv, SnapshotInv, FreeInv, Waiting, OneEach, Named
<1>2. CASE UNCHANGED vars \/ PlanStep \/ PanelDeletes
  BY <1>1, <1>2
  DEF vars, cloudflare, PlanStep, create_tunnel, update_tunnel, unmanage_tunnel, PanelDeletes
<1>3. ASSUME records' = records, Ends PROVE RecordsInv'
  BY <1>0, <1>3 DEF Ends, Held, NoReconcile, RecordsInv, SnapshotInv, FreeInv, OneEach
<1>4. ASSUME records' = records, rc.at # "idle", rc'.plans = rc.plans,
             rc'.at \notin {"upsert", "store"}
      PROVE  RecordsInv'
  BY <1>0, <1>4 DEF RecordsInv, SnapshotInv, FreeInv, OneEach
<1>5. CASE ReconcileReadsPlans
  <2>1. records' = records /\ rc'.at = "preflight" /\ rc'.plans = plans
    BY <1>5 DEF ReconcileReadsPlans, Held, cloudflare
  <2> QED BY <1>0, <2>1 DEF StoreOK, RecordsInv, SnapshotInv, FreeInv, OneEach
<1>6. CASE ReconcilePreflight
  <2>1. rc \in Readings /\ records' = records
    BY <1>0, <1>6, Places DEF ReconcilePreflight, cloudflare
  <2>2. CASE rc' = [rc EXCEPT !.at = "list"]
    <3>1. rc'.at = "list" /\ rc'.plans = rc.plans
      BY <2>1, <2>2 DEF Readings
    <3> QED BY <1>4, <1>6, <2>1, <3>1 DEF ReconcilePreflight
  <2> QED BY <1>3, <1>6, <2>1, <2>2 DEF ReconcilePreflight, Held
<1>7. CASE ReconcileLists
  <2>1. records' = records /\ rc.at = "list" /\ rc'.at = "tunnels" /\ rc'.plans = rc.plans
    BY <1>7 DEF ReconcileLists, Held, cloudflare
  <2> QED BY <1>4, <2>1
<1>8. CASE ReconcileTunnel
  <2>1. rc \in Syncs /\ records' = records /\ rc.at = "tunnels"
    BY <1>0, <1>8, Places DEF ReconcileTunnel, cloudflare
  <2>2. CASE \E id \in rc.todo :
               rc' = [rc EXCEPT !.todo = rc.todo \ {id},
                                !.at = IF rc.todo = {id} THEN "verify" ELSE "tunnels"]
    <3>1. rc'.at \in {"verify", "tunnels"} /\ rc'.plans = rc.plans
      BY <2>1, <2>2 DEF Syncs
    <3> QED BY <1>4, <2>1, <3>1
  <2> QED BY <1>3, <1>8, <2>1, <2>2 DEF ReconcileTunnel, Held
<1>9. CASE ReconcileVerifies
  <2>1. CASE rc' = [at |-> "records", plans |-> rc.plans]
    BY <1>4, <1>9, <2>1 DEF ReconcileVerifies, cloudflare
  <2> QED BY <1>3, <1>9, <2>1 DEF ReconcileVerifies, Held, cloudflare
<1>10. CASE ReconcileListsRecords
  <2>1. CASE ~Ends
    <3>1. /\ rc'.at = "upsert" /\ rc'.plans = rc.plans /\ rc'.todo = ManagedIds
          /\ \A id \in ManagedIds : rc'.found[id] = Named(rc.plans[id].domain)
      BY <1>0, <1>10, <2>1, ListedRecords
    <3>2. records' = records /\ rc.at # "idle"
      BY <1>10 DEF ReconcileListsRecords, cloudflare
    <3> QED BY <1>0, <3>1, <3>2 DEF RecordsInv, SnapshotInv, FreeInv, Waiting, OneEach, Named
  <2> QED BY <1>3, <1>10, <2>1 DEF ReconcileListsRecords, cloudflare
<1>11. CASE ReconcileStoresId
  <2>1. rc \in Upserts /\ rc.at = "store" /\ records' = records
    BY <1>0, <1>11, Places DEF ReconcileStoresId, cloudflare
  <2>2. CASE rc' = [rc EXCEPT !.at = "upsert", !.todo = rc.todo \ {rc.now}, !.now = 0, !.got = 0]
    <3>1. /\ rc'.at = "upsert" /\ rc'.todo = rc.todo \ {rc.now}
          /\ rc'.plans = rc.plans /\ rc'.found = rc.found
      BY <2>1, <2>2 DEF Upserts
    <3> QED BY <1>0, <2>1, <3>1 DEF RecordsInv, SnapshotInv, FreeInv, Waiting, OneEach, Named
  <2> QED BY <1>3, <1>11, <2>1, <2>2 DEF ReconcileStoresId, Held
<1>12. CASE ReconcileFails
  BY <1>3, <1>12 DEF ReconcileFails, cloudflare
<1> QED
  BY <1>2, <1>5, <1>6, <1>7, <1>8, <1>9, <1>10, <1>11, <1>12, UpsertRecords
  DEF NextReconciles, ReconcileStep

(* At most one thing is in a set whose members are all the same.           *)
LEMMA AtMostOneOf ==
  ASSUME NEW S, \A x, y \in S : x = y
  PROVE  Cardinality(S) <= 1
<1>1. CASE S = {}
  BY <1>1, FS_EmptySet
<1>2. ASSUME NEW x \in S PROVE Cardinality(S) <= 1
  <2>1. S = {x}
    OBVIOUS
  <2> QED BY <2>1, FS_Singleton
<1> QED BY <1>1, <1>2

(* However often reconciles fail, are retried and run beside changes of    *)
(* the plans, a domain never gets a second A record.                       *)
THEOREM OneRecord == SpecReconciles => []OneRecordPerDomain
<1>1. Init => RecordsInv
  BY DEF Init, NoReconcile, RecordsInv, SnapshotInv, FreeInv, OneEach
<1>2. [NextReconciles]_vars => [Next]_vars
  BY DEF NextReconciles, Next
<1>3. RecordsInv => OneRecordPerDomain
  BY AtMostOneOf DEF RecordsInv, OneEach, OneRecordPerDomain, Named
<1> QED BY <1>1, <1>2, <1>3, InitTyped, StepTyped, RecordsStep, PTL DEF SpecReconciles
=============================================================================
