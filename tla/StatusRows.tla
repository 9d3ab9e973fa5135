----------------------------- MODULE StatusRows -----------------------------
(***************************************************************************)
(* The row of the dashboard for one tunnel plan: what build_rows makes of  *)
(* the providers' answers, the routing row and the manager of FRPC.        *)
(*                                                                         *)
(* The providers, the routing row and FRPC are whatever they may be, and   *)
(* change one at a time.  A layer is its LayerState; labels and details    *)
(* are left out.  An A record is the node whose address it holds; two of a *)
(* domain differ in it.                                                    *)
(***************************************************************************)
EXTENDS Naturals, FiniteSets

CONSTANTS
  Servers,    \* ChmlFrp nodes
  NoServer,
  Own,        \* the plan's name, as a proxy name in FRPC's output
  Longer      \* proxy names that end in a dot and the plan's name

ASSUME RowsAssumption ==
  /\ IsFiniteSet(Servers) /\ NoServer \notin Servers
  /\ Own \notin Longer

VARIABLES
  dns_managed,   \* the plan has its DNS managed
  chml,          \* ChmlFrp is "off" (not configured), "down" or "up"
  cf,            \* Cloudflare likewise
  tunnel,        \* the remote tunnel of the plan's name
  addresses,     \* the A records of the plan's domain
  info,          \* ChmlFrp answers node_info
  phase,         \* the routing row's phase
  active,        \* and its active node
  frpc,          \* FrpcRuntimeStatus; `heard` while lines of its process count
  shown,         \* tunnel_states: the layer of each key, or "none"
  well           \* the keys that the process started last has reported as
                 \* started, without a fault since (for the properties)

remoteVars == <<chml, cf, tunnel, addresses, info>>
localVars  == <<dns_managed, phase, active>>
frpcVars   == <<frpc, shown, well>>
rowVars    == <<remoteVars, localVars, frpcVars>>

Keys == Longer \cup {Own}

NoTunnel == [node |-> NoServer, same |-> FALSE]
Tunnel   == [node : Servers, same : BOOLEAN] \cup {NoTunnel}

RowsInit ==
  /\ dns_managed = FALSE /\ phase = "idle" /\ active = NoServer
  /\ chml = "off" /\ cf = "off" /\ tunnel = NoTunnel /\ addresses = {} /\ info = TRUE
  /\ frpc = [running |-> FALSE, connected |-> FALSE, error |-> FALSE, heard |-> FALSE]
  /\ shown = [k \in Keys |-> "none"] /\ well = {}

-----------------------------------------------------------------------------
(* The layers. *)

(* A mutant of chmlfrp_status: no answer is taken for an empty list.       *)
chmlfrp_of_list ==
  IF chml = "off" THEN "disabled"
  ELSE IF chml = "down" \/ tunnel = NoTunnel THEN "missing"
  ELSE IF (active # NoServer /\ tunnel.node # active) \/ ~tunnel.same THEN "drift"
  ELSE "ok"

chmlfrp_status ==
  IF chml = "off" THEN "disabled"
  ELSE IF chml = "down" THEN "unknown"
  ELSE IF tunnel = NoTunnel THEN "missing"
  ELSE IF (active # NoServer /\ tunnel.node # active) \/ ~tunnel.same THEN "drift"
  ELSE "ok"

(* The address of the active node, which ChmlFrp may not give.             *)
AddressKnown == chml = "up" /\ info /\ active # NoServer

cloudflare_status ==
  IF ~dns_managed \/ cf = "off" THEN "disabled"
  ELSE IF cf = "down" THEN "unknown"
  ELSE IF addresses = {} THEN "missing"
  ELSE IF Cardinality(addresses) > 1 THEN "failed"
  ELSE IF AddressKnown /\ active \notin addresses THEN "drift"
  ELSE "ok"

fallback_frpc_status ==
  IF ~frpc.running \/ (~frpc.connected /\ frpc.error) THEN "failed"
  ELSE IF frpc.connected THEN "waiting"
  ELSE "starting"

(* A longer name counts when the plan's own is not there: any one of them. *)
find_frpc_state ==
  LET found == {shown[k] : k \in Longer} \ {"none"}
  IN  IF shown[Own] # "none" THEN {shown[Own]}
      ELSE IF found = {} THEN {fallback_frpc_status}
      ELSE found

(* A phase but idle hides the layers; then ChmlFrp comes before FRPC, and  *)
(* FRPC before Cloudflare.                                                 *)
overall_status(frpcLayer) ==
  IF phase \in {"failover", "dns_switching"} THEN "starting"
  ELSE IF phase = "degraded_dns" THEN "drift"
  ELSE IF phase = "failed" \/ chmlfrp_status = "missing" THEN "failed"
  ELSE IF chmlfrp_status # "ok" THEN chmlfrp_status
  ELSE IF frpcLayer = "failed" THEN "failed"
  ELSE IF dns_managed /\ cloudflare_status = "missing" THEN "drift"
  ELSE IF dns_managed /\ cloudflare_status # "ok" THEN cloudflare_status
  ELSE IF frpcLayer = "ok" THEN "ok"
  ELSE "starting"

(* The rows build_rows may return.                                         *)
build_rows ==
  {[chmlfrp |-> chmlfrp_status, frpc |-> l, cloudflare |-> cloudflare_status,
    overall |-> overall_status(l)] : l \in find_frpc_state}

-----------------------------------------------------------------------------
(* What changes. *)

ProvidersChange ==
  /\ \/ chml' \in {"off", "down", "up"} /\ UNCHANGED <<cf, tunnel, addresses, info>>
     \/ cf' \in {"off", "down", "up"} /\ UNCHANGED <<chml, tunnel, addresses, info>>
     \/ tunnel' \in Tunnel /\ UNCHANGED <<chml, cf, addresses, info>>
     \/ addresses' \in SUBSET Servers /\ UNCHANGED <<chml, cf, tunnel, info>>
     \/ info' = ~info /\ UNCHANGED <<chml, cf, tunnel, addresses>>
  /\ UNCHANGED <<localVars, frpcVars>>

RowsChange ==
  /\ \/ dns_managed' = ~dns_managed /\ UNCHANGED <<phase, active>>
     \/ phase' \in {"idle", "failover", "dns_switching", "degraded_dns", "failed"}
        /\ UNCHANGED <<dns_managed, active>>
     \/ active' \in Servers \cup {NoServer} /\ UNCHANGED <<dns_managed, phase>>
  /\ UNCHANGED <<remoteVars, frpcVars>>

(* A mutant of FrpcStarts: the states of the process before stay.          *)
FrpcStartsShown ==
  /\ ~frpc.running
  /\ frpc' = [running |-> TRUE, connected |-> FALSE, error |-> FALSE, heard |-> TRUE]
  /\ well' = {}
  /\ UNCHANGED <<shown, remoteVars, localVars>>

FrpcStarts ==
  /\ ~frpc.running
  /\ frpc' = [running |-> TRUE, connected |-> FALSE, error |-> FALSE, heard |-> TRUE]
  /\ shown' = [k \in Keys |-> "none"] /\ well' = {}
  /\ UNCHANGED <<remoteVars, localVars>>

(* stop; or status, which finds that the process has exited: its last      *)
(* lines may still come.  The states of the tunnels stay.                  *)
FrpcEnds ==
  /\ \/ frpc' = [frpc EXCEPT !.running = FALSE, !.connected = FALSE, !.heard = FALSE]
     \/ frpc.running /\ frpc' = [frpc EXCEPT !.running = FALSE, !.connected = FALSE, !.error = TRUE]
  /\ UNCHANGED <<shown, well, remoteVars, localVars>>

(* accept_line: a login, a lost connection, a refusal; a node fault marks  *)
(* every tunnel there is a state of; a line about a proxy sets its state.  *)
FrpcSays ==
  /\ frpc.heard
  /\ \/ frpc' = [frpc EXCEPT !.connected = TRUE, !.error = FALSE] /\ UNCHANGED <<shown, well>>
     \/ frpc' = [frpc EXCEPT !.error = TRUE] /\ UNCHANGED <<shown, well>>
     \/ /\ frpc' \in {frpc, [frpc EXCEPT !.connected = FALSE, !.error = TRUE]}
        /\ shown' = [k \in Keys |-> IF shown[k] = "none" THEN "none" ELSE "failed"]
        /\ well' = {}
     \/ \E k \in Keys, l \in {"ok", "starting", "failed"} :
          /\ shown' = [shown EXCEPT ![k] = l]
          /\ well' = IF l = "ok" THEN well \cup {k} ELSE well \ {k}
          /\ UNCHANGED frpc
  /\ UNCHANGED <<remoteVars, localVars>>

RowsNext == ProvidersChange \/ RowsChange \/ FrpcStarts \/ FrpcEnds \/ FrpcSays

RowsSpec == RowsInit /\ [][RowsNext]_rowVars

-----------------------------------------------------------------------------
(* What the dashboard promises. *)

(* An outage of a provider is never shown as a missing resource, nor as    *)
(* work to be done, and never hidden behind a row that is well             *)
(* (OPERATIONS.md, "Provider outages").                                    *)
OutageIsNotAbsence ==
  \A row \in build_rows :
    /\ chml = "down" => row.chmlfrp = "unknown"
                        /\ (phase = "idle" => row.overall = "unknown")
    /\ cf = "down" /\ dns_managed => row.cloudflare = "unknown" /\ row.overall # "ok"
    /\ cf = "down" /\ phase = "idle" /\ row.chmlfrp = "ok" => row.overall # "drift"

(* A row that is well is well everywhere: the tunnel is as planned and on  *)
(* the active node, the process started last has reported a proxy of the   *)
(* name as started and no fault since, and the domain has one record,      *)
(* which points to the active node if its address is known.                *)
OkIsEverywhere ==
  \A row \in build_rows : row.overall = "ok" =>
    /\ phase = "idle" /\ chml = "up" /\ tunnel.same /\ active \in {tunnel.node, NoServer}
    /\ well # {}
    /\ dns_managed => cf = "up" /\ Cardinality(addresses) = 1
                      /\ (info => active \in addresses \cup {NoServer})

(* The row is documented as the state of FRPC now (V0.4.0.md, "Product     *)
(* model"): a process that has ended leaves its tunnels well.              *)
OkRowRuns == \A row \in build_rows : row.overall = "ok" => frpc.running

(* A tunnel whose name ends in a dot and the plan's name is taken for it   *)
(* (reconcile.rs:195).                                                     *)
OkIsOwn == \A row \in build_rows : row.overall = "ok" => Own \in well
=============================================================================
