-------------------------- MODULE ProviderSettings --------------------------
(***************************************************************************)
(* The provider settings: the row in SQLite, the copies of it that the two *)
(* clients hold in memory, and PUT /settings/providers, which changes the  *)
(* row and then the copies while requests and operations use them.         *)
(*                                                                         *)
(* Every call of a client takes the configuration the client holds at that *)
(* moment.  A PUT has the global operation lock, which it only tries for;  *)
(* an operation (reconcile, switch) has it for all its calls.  The server  *)
(* drops a handler whose client goes away at the await it is in, and the   *)
(* program may end at any point.                                           *)
(*                                                                         *)
(* A token stands for an account.  The API bases are read and written with *)
(* the zone and are left out; SQLite does not fail, a crash stands for it. *)
(***************************************************************************)
EXTENDS Naturals, FiniteSets

CONSTANTS
  Tokens,    \* API tokens, of either provider
  Zones,     \* Cloudflare zones
  None,      \* an empty token or zone
  Admins     \* requests to PUT /settings/providers that may run together

ASSUME SettingsAssumption ==
  /\ None \notin Tokens \cup Zones
  /\ {"keep", "clear"} \cap Tokens = {}
  /\ {"operation", "nobody"} \cap Admins = {}

VARIABLES
  saved,     \* the provider_settings row
  seeded,    \* its env_bootstrap_complete
  up,        \* the server runs
  chml,      \* the token the ChmlFrp client holds
  cf,        \* the token and zone the Cloudflare client holds
  holder,    \* who holds the global lock: an admin, "operation" or "nobody"
  req,       \* what each PUT is doing
  used,      \* what the operation in hand has used so far (for the properties)
  served,    \* the server has run before, on this database (for the properties)
  cut        \* a PUT ended between the row and the clients, and neither a PUT
             \* nor a start has come after it (for the properties)

settingsVars == <<saved, seeded, up, chml, cf, holder, req, used, served, cut>>

TokenOrNone == Tokens \cup {None}
ZoneOrNone  == Zones \cup {None}
Settings    == [chml : TokenOrNone, cf : TokenOrNone, zone : ZoneOrNone]
CfConfig(s) == [token |-> s.cf, zone |-> s.zone]

Blank == [chml |-> None, cf |-> None, zone |-> None]

(* A request names a new token, asks to clear the old one, or, leaving the *)
(* field blank, to keep it.                                                *)
TokenInput == Tokens \cup {"keep", "clear"}
Inputs     == [chml : TokenInput, cf : TokenInput, zone : ZoneOrNone]
NoInput    == [chml |-> "keep", cf |-> "keep", zone |-> None]

Requests == [pc : {"idle", "read", "write", "reread", "chml", "cf", "activity"},
             input : Inputs, row : Settings]

NoReq  == [pc |-> "idle", input |-> NoInput, row |-> Blank]
Unused == [chml |-> {}, cf |-> {}]

At(c, l) == req[c].pc = l

Init ==
  /\ saved = Blank /\ seeded = FALSE
  /\ up = FALSE /\ served = FALSE /\ cut = FALSE
  /\ chml = None /\ cf = CfConfig(Blank)
  /\ holder = "nobody" /\ req = [c \in Admins |-> NoReq] /\ used = Unused

-----------------------------------------------------------------------------
(* The environment fills the row once, whatever it says later. *)

(* A mutant of seed_provider_settings_from_env: empty fields are filled.   *)
SeedBlanks(env) ==
  [chml |-> IF saved.chml = None THEN env.chml ELSE saved.chml,
   cf   |-> IF saved.cf = None THEN env.cf ELSE saved.cf,
   zone |-> IF saved.zone = None THEN env.zone ELSE saved.zone]

seed_provider_settings_from_env(env) == IF seeded THEN saved ELSE env

(* main: the row is seeded and read, the clients are built from it.        *)
Start ==
  /\ ~up
  /\ \E env \in Settings : saved' = seed_provider_settings_from_env(env)
  /\ seeded' = TRUE
  /\ chml' = saved'.chml /\ cf' = CfConfig(saved')
  /\ up' = TRUE /\ served' = TRUE /\ cut' = FALSE
  /\ UNCHANGED <<holder, req, used>>

Crash ==
  /\ up
  /\ up' = FALSE
  /\ chml' = None /\ cf' = CfConfig(Blank) /\ cut' = FALSE
  /\ holder' = "nobody" /\ req' = [c \in Admins |-> NoReq] /\ used' = Unused
  /\ UNCHANGED <<saved, seeded, served>>

-----------------------------------------------------------------------------
(* apply_provider_settings. *)

(* A mutant of ApplyBegins: the lock is not tried.                         *)
ApplyWithoutLock(c) ==
  /\ up /\ At(c, "idle")
  /\ \E i \in Inputs : req' = [req EXCEPT ![c] = [pc |-> "read", input |-> i, row |-> Blank]]
  /\ UNCHANGED <<saved, seeded, up, chml, cf, holder, used, served, cut>>

(* Refused as busy while anything holds the lock.                          *)
ApplyBegins(c) ==
  /\ up /\ At(c, "idle") /\ holder = "nobody"
  /\ \E i \in Inputs : req' = [req EXCEPT ![c] = [pc |-> "read", input |-> i, row |-> Blank]]
  /\ holder' = c
  /\ UNCHANGED <<saved, seeded, up, chml, cf, used, served, cut>>

ApplyReads(c) ==
  /\ At(c, "read")
  /\ req' = [req EXCEPT ![c].pc = "write", ![c].row = saved]
  /\ UNCHANGED <<saved, seeded, up, chml, cf, holder, used, served, cut>>

NewToken(given, current) ==
  IF given = "clear" THEN None ELSE IF given = "keep" THEN current ELSE given

(* update_provider_settings writes the whole row, and reads it back.       *)
update_provider_settings(i, current) ==
  [chml |-> NewToken(i.chml, current.chml), cf |-> NewToken(i.cf, current.cf), zone |-> i.zone]

ApplyWrites(c) ==
  /\ At(c, "write")
  /\ saved' = update_provider_settings(req[c].input, req[c].row)
  /\ seeded' = TRUE
  /\ req' = [req EXCEPT ![c].pc = "reread", ![c].row = Blank]
  /\ UNCHANGED <<up, chml, cf, holder, used, served, cut>>

ApplyRereads(c) ==
  /\ At(c, "reread")
  /\ req' = [req EXCEPT ![c] = [pc |-> "chml", input |-> NoInput, row |-> saved]]
  /\ UNCHANGED <<saved, seeded, up, chml, cf, holder, used, served, cut>>

ReconfigureChml(c) ==
  /\ At(c, "chml")
  /\ chml' = req[c].row.chml
  /\ req' = [req EXCEPT ![c].pc = "cf"]
  /\ UNCHANGED <<saved, seeded, up, cf, holder, used, served, cut>>

(* A mutant of ReconfigureCf: the zone is left to the next start.          *)
ReconfigureCfToken(c) ==
  /\ At(c, "cf")
  /\ cf' = [cf EXCEPT !.token = req[c].row.cf]
  /\ req' = [req EXCEPT ![c] = [NoReq EXCEPT !.pc = "activity"]]
  /\ cut' = FALSE
  /\ UNCHANGED <<saved, seeded, up, chml, holder, used, served>>

(* What is left is the activity record, and the answer.                    *)
ReconfigureCf(c) ==
  /\ At(c, "cf")
  /\ cf' = CfConfig(req[c].row)
  /\ req' = [req EXCEPT ![c] = [NoReq EXCEPT !.pc = "activity"]]
  /\ cut' = FALSE
  /\ UNCHANGED <<saved, seeded, up, chml, holder, used, served>>

Unlock(c) == holder' = IF holder = c THEN "nobody" ELSE holder

ApplyEnds(c) ==
  /\ At(c, "activity")
  /\ req' = [req EXCEPT ![c] = NoReq]
  /\ Unlock(c)
  /\ UNCHANGED <<saved, seeded, up, chml, cf, used, served, cut>>

(* The handler is dropped at an await: the lock is released, and the rest  *)
(* is not done.  There is no await between the two clients.                *)
ApplyDropped(c) ==
  /\ req[c].pc \in {"read", "write", "reread"}
  /\ cut' = (cut \/ At(c, "reread"))
  /\ req' = [req EXCEPT ![c] = NoReq]
  /\ Unlock(c)
  /\ UNCHANGED <<saved, seeded, up, chml, cf, used, served>>

-----------------------------------------------------------------------------
(* A reconcile or a switch: any number of calls, each with what the client *)
(* holds when it is made.                                                  *)

OperationBegins ==
  /\ up /\ holder = "nobody"
  /\ holder' = "operation" /\ used' = Unused
  /\ UNCHANGED <<saved, seeded, up, chml, cf, req, served, cut>>

OperationCalls ==
  /\ holder = "operation"
  /\ \/ chml # None /\ used' = [used EXCEPT !.chml = @ \cup {chml}]
     \/ None \notin {cf.token, cf.zone} /\ used' = [used EXCEPT !.cf = @ \cup {cf}]
  /\ UNCHANGED <<saved, seeded, up, chml, cf, holder, req, served, cut>>

OperationEnds ==
  /\ holder = "operation"
  /\ holder' = "nobody" /\ used' = Unused
  /\ UNCHANGED <<saved, seeded, up, chml, cf, req, served, cut>>

-----------------------------------------------------------------------------
ApplyStep(c) ==
  \/ ApplyBegins(c) \/ ApplyReads(c) \/ ApplyWrites(c) \/ ApplyRereads(c)
  \/ ReconfigureChml(c) \/ ReconfigureCf(c) \/ ApplyEnds(c) \/ ApplyDropped(c)

SettingsNext ==
  \/ Start \/ Crash
  \/ \E c \in Admins : ApplyStep(c)
  \/ OperationBegins \/ OperationCalls \/ OperationEnds

SettingsSpec == Init /\ [][SettingsNext]_settingsVars

-----------------------------------------------------------------------------
(* What is promised. *)

SettingsTypeOK ==
  /\ saved \in Settings /\ seeded \in BOOLEAN
  /\ up \in BOOLEAN /\ served \in BOOLEAN /\ cut \in BOOLEAN
  /\ chml \in TokenOrNone /\ cf \in [token : TokenOrNone, zone : ZoneOrNone]
  /\ holder \in Admins \cup {"operation", "nobody"}
  /\ req \in [Admins -> Requests]
  /\ used \in [chml : SUBSET Tokens, cf : SUBSET [token : Tokens, zone : Zones]]

(* A reconcile or a switch works on one account and one zone from its first *)
(* call to its last: half of the tunnels are never moved in another one.   *)
OneAccountPerOperation == Cardinality(used.chml) <= 1 /\ Cardinality(used.cf) <= 1

(* New settings take effect at once and after a restart alike: when no PUT *)
(* is under way, and none was cut off, the clients hold what is saved.     *)
LiveFollowsSaved ==
  up /\ holder \notin Admins /\ ~cut => chml = saved.chml /\ cf = CfConfig(saved)

(* A stored token is changed by a PUT that names or clears it, or by the   *)
(* first start: a cleared one does not come back from the environment, and *)
(* a blank field does not undo what another PUT has stored.                *)
TokenOnlyByRequest ==
  [][\A p \in {"chml", "cf"} :
       saved'[p] # saved[p] =>
         ~served \/ \E c \in Admins : At(c, "write") /\ ~At(c, "write")' /\ req[c].input[p] # "keep"
    ]_settingsVars

(* The documents say that the clients follow the row at once, without a    *)
(* restart: a PUT whose client goes away after the row was written does    *)
(* not reach them (OPERATIONS.md, "First-start provider setup").           *)
SavedIsLive == up /\ holder \notin Admins => chml = saved.chml /\ cf = CfConfig(saved)
=============================================================================
