--------------------------- MODULE SettingsProofs ---------------------------
(***************************************************************************)
(* What ProviderSettings promises, for any tokens, zones and number of     *)
(* requests.  SettingsInv is the inductive invariant: the lock serialises  *)
(* the PUTs and the operations, a request's copy of the row is the row as  *)
(* long as it matters, and an operation has used only what the clients     *)
(* hold now.                                                               *)
(***************************************************************************)
EXTENDS ProviderSettings, FiniteSetTheorems, TLAPS

(* A request that is under way has the lock, and nobody else.              *)
LockInv ==
  /\ \A c \in Admins : ~At(c, "idle") <=> holder = c
  /\ ~up => holder = "nobody"
  /\ served => seeded
  /\ up => served

(* A request holds the row as it is, from the moment it has read it.       *)
CopyInv ==
  \A c \in Admins :
    /\ req[c].pc \in {"write", "chml", "cf"} => req[c].row = saved
    /\ At(c, "cf") => chml = saved.chml

(* The clients follow the row except where a request has yet to tell them. *)
FollowInv ==
  up /\ ~cut /\ (\A c \in Admins : req[c].pc \notin {"reread", "chml", "cf"}) =>
    chml = saved.chml /\ cf = CfConfig(saved)

(* What an operation has used is what the clients hold.                    *)
UsedInv ==
  /\ used.chml \subseteq {chml} /\ used.cf \subseteq {cf}
  /\ holder # "operation" => used = Unused

SettingsInv == SettingsTypeOK /\ LockInv /\ CopyInv /\ FollowInv /\ UsedInv

-----------------------------------------------------------------------------
(* The values that stand for nothing have their types.                     *)
LEMMA Nothing ==
  /\ Blank \in Settings /\ NoInput \in Inputs
  /\ NoReq \in Requests /\ NoReq.pc = "idle"
  /\ [NoReq EXCEPT !.pc = "activity"] \in Requests
  /\ Unused \in [chml : SUBSET Tokens, cf : SUBSET [token : Tokens, zone : Zones]]
<1>1. Blank \in Settings
  BY DEF Blank, Settings, TokenOrNone, ZoneOrNone
<1>2. NoInput \in Inputs
  BY DEF NoInput, Inputs, TokenInput, ZoneOrNone
<1>3. NoReq \in Requests /\ NoReq.pc = "idle" /\ [NoReq EXCEPT !.pc = "activity"] \in Requests
  BY <1>1, <1>2 DEF NoReq, Requests
<1>4. Unused \in [chml : SUBSET Tokens, cf : SUBSET [token : Tokens, zone : Zones]]
  BY DEF Unused
<1> QED BY <1>1, <1>2, <1>3, <1>4

(* The configuration of the Cloudflare client is taken from a row.         *)
LEMMA ClientTypes ==
  ASSUME NEW s \in Settings
  PROVE  s.chml \in TokenOrNone /\ CfConfig(s) \in [token : TokenOrNone, zone : ZoneOrNone]
  BY DEF Settings, CfConfig

(* The initial states are typed and satisfy the invariant.                 *)
LEMMA SettingsInit == Init => SettingsInv
<1> SUFFICES ASSUME Init PROVE SettingsInv
  OBVIOUS
<1>1. SettingsTypeOK
  BY Nothing, ClientTypes DEF Init, SettingsTypeOK, TokenOrNone
<1>2. \A c \in Admins : req[c].pc = "idle"
  BY Nothing DEF Init
<1>3. LockInv /\ CopyInv /\ FollowInv
  BY <1>2, SettingsAssumption DEF Init, LockInv, CopyInv, FollowInv, At
<1>4. UsedInv
  BY DEF Init, UsedInv, Unused
<1> QED BY <1>1, <1>3, <1>4 DEF SettingsInv

(* What a PUT writes is a row.                                             *)
LEMMA UpdatedRow ==
  ASSUME NEW i \in Inputs, NEW s \in Settings
  PROVE  /\ update_provider_settings(i, s) \in Settings
         /\ \A p \in {"chml", "cf"} : i[p] = "keep" => update_provider_settings(i, s)[p] = s[p]
  BY SettingsAssumption
  DEF update_provider_settings, NewToken, Inputs, Settings, TokenInput, TokenOrNone, ZoneOrNone

(* main seeds and reads the row.                                           *)
LEMMA StartStep == ASSUME SettingsInv, Start PROVE SettingsInv'
<1>1. saved' \in Settings
  BY DEF Start, SettingsInv, SettingsTypeOK, seed_provider_settings_from_env
<1>2. SettingsTypeOK'
  BY <1>1, ClientTypes DEF Start, SettingsInv, SettingsTypeOK
<1>3. LockInv' /\ UsedInv'
  BY SettingsAssumption DEF Start, SettingsInv, SettingsTypeOK, LockInv, UsedInv, Unused, At
<1>4. CopyInv' /\ FollowInv'
  <2>1. \A c \in Admins : At(c, "idle")
    BY SettingsAssumption DEF Start, SettingsInv, LockInv
  <2> QED BY <2>1 DEF Start, CopyInv, FollowInv, At
<1> QED BY <1>2, <1>3, <1>4 DEF SettingsInv

(* The program ends, and with it every request.                            *)
LEMMA CrashStep == ASSUME SettingsInv, Crash PROVE SettingsInv'
<1>1. SettingsTypeOK'
  BY Nothing, ClientTypes DEF Crash, SettingsInv, SettingsTypeOK, TokenOrNone
<1>2. \A c \in Admins : req'[c].pc = "idle"
  BY Nothing DEF Crash
<1>3. LockInv' /\ CopyInv' /\ FollowInv'
  BY <1>2, SettingsAssumption DEF Crash, SettingsInv, LockInv, CopyInv, FollowInv, At
<1>4. UsedInv'
  BY DEF Crash, UsedInv, Unused
<1> QED BY <1>1, <1>3, <1>4 DEF SettingsInv

(* A step of one request is one only while it has the lock: the others are *)
(* idle, and no operation is under way.                                    *)
LEMMA Alone ==
  ASSUME SettingsInv, NEW c \in Admins, ~At(c, "idle")
  PROVE  /\ holder = c /\ holder \notin {"operation", "nobody"} /\ up /\ used = Unused
         /\ \A d \in Admins \ {c} : At(d, "idle")
  BY SettingsAssumption DEF SettingsInv, LockInv, UsedInv

(* The requests after one of them has been set to another record.          *)
LEMMA OneReq ==
  ASSUME SettingsTypeOK, NEW c \in Admins, NEW r, req' = [req EXCEPT ![c] = r]
  PROVE  /\ req'[c] = r /\ \A d \in Admins \ {c} : req'[d] = req[d]
         /\ r \in Requests => req' \in [Admins -> Requests]
  BY DEF SettingsTypeOK

(* A request begins, reads and writes the row, and reads it back.          *)
LEMMA ApplyRowStep ==
  ASSUME SettingsInv, NEW c \in Admins,
         ApplyBegins(c) \/ ApplyReads(c) \/ ApplyWrites(c) \/ ApplyRereads(c)
  PROVE  SettingsInv'
<1> USE SettingsAssumption
<1>1. CASE ApplyBegins(c)
  <2>1. PICK i \in Inputs : req' = [req EXCEPT ![c] = [pc |-> "read", input |-> i, row |-> Blank]]
    BY <1>1 DEF ApplyBegins
  <2>2. /\ req'[c] = [pc |-> "read", input |-> i, row |-> Blank]
        /\ \A d \in Admins \ {c} : req'[d] = req[d]
    BY <2>1, OneReq DEF SettingsInv
  <2>3. SettingsTypeOK'
    <3>1. [pc |-> "read", input |-> i, row |-> Blank] \in Requests
      BY Nothing DEF Requests
    <3>2. req' \in [Admins -> Requests]
      BY <2>1, <3>1, OneReq DEF SettingsInv
    <3> QED BY <1>1, <3>2 DEF ApplyBegins, SettingsInv, SettingsTypeOK
  <2>4. LockInv' /\ UsedInv'
    BY <1>1, <2>2 DEF ApplyBegins, SettingsInv, LockInv, UsedInv, At
  <2>5. CopyInv' /\ FollowInv'
    BY <1>1, <2>2 DEF ApplyBegins, SettingsInv, CopyInv, FollowInv, At
  <2> QED BY <2>3, <2>4, <2>5 DEF SettingsInv
<1>2. CASE ApplyReads(c)
  <2>1. /\ req'[c] = [req[c] EXCEPT !.pc = "write", !.row = saved]
        /\ \A d \in Admins \ {c} : req'[d] = req[d]
    BY <1>2 DEF ApplyReads, SettingsInv, SettingsTypeOK
  <2>2. req[c] \in Requests
    BY DEF SettingsInv, SettingsTypeOK
  <2>3. SettingsTypeOK'
    <3>1. saved \in Settings
      BY DEF SettingsInv, SettingsTypeOK
    <3>2. [req[c] EXCEPT !.pc = "write", !.row = saved] \in Requests
      BY <2>2, <3>1 DEF Requests
    <3>3. req' \in [Admins -> Requests]
      BY <2>1, <3>2, <1>2 DEF ApplyReads, SettingsInv, SettingsTypeOK
    <3> QED BY <1>2, <3>3 DEF ApplyReads, SettingsInv, SettingsTypeOK
  <2>4. req'[c].pc = "write" /\ req'[c].row = saved
    BY <2>1, <2>2 DEF Requests
  <2>5. LockInv' /\ UsedInv'
    BY <1>2, <2>1, <2>4 DEF ApplyReads, SettingsInv, LockInv, UsedInv, At
  <2>6. CopyInv' /\ FollowInv'
    BY <1>2, <2>1, <2>4 DEF ApplyReads, SettingsInv, CopyInv, FollowInv, At
  <2> QED BY <2>3, <2>5, <2>6 DEF SettingsInv
<1>3. CASE ApplyWrites(c)
  <2>1. /\ req'[c] = [req[c] EXCEPT !.pc = "reread", !.row = Blank]
        /\ \A d \in Admins \ {c} : req'[d] = req[d]
    BY <1>3 DEF ApplyWrites, SettingsInv, SettingsTypeOK
  <2>2. req[c] \in Requests
    BY DEF SettingsInv, SettingsTypeOK
  <2>3. saved' \in Settings
    <3>1. req[c].input \in Inputs /\ req[c].row \in Settings
      BY <2>2 DEF Requests
    <3> QED BY <1>3, <3>1, UpdatedRow DEF ApplyWrites
  <2>4. SettingsTypeOK'
    <3>1. [req[c] EXCEPT !.pc = "reread", !.row = Blank] \in Requests
      BY <2>2, Nothing DEF Requests
    <3>2. req' \in [Admins -> Requests]
      BY <2>1, <3>1, <1>3 DEF ApplyWrites, SettingsInv, SettingsTypeOK
    <3> QED BY <1>3, <2>3, <3>2 DEF ApplyWrites, SettingsInv, SettingsTypeOK
  <2>5. req'[c].pc = "reread"
    BY <2>1, <2>2 DEF Requests
  <2>6. LockInv' /\ UsedInv'
    BY <1>3, <2>1, <2>5 DEF ApplyWrites, SettingsInv, LockInv, UsedInv, At
  <2>7. CopyInv' /\ FollowInv'
    <3>1. \A d \in Admins \ {c} : req'[d].pc = "idle"
      BY <1>3, <2>1, Alone DEF ApplyWrites, At
    <3> QED BY <2>5, <3>1 DEF CopyInv, FollowInv, At
  <2> QED BY <2>4, <2>6, <2>7 DEF SettingsInv
<1>4. CASE ApplyRereads(c)
  <2>1. /\ req'[c] = [pc |-> "chml", input |-> NoInput, row |-> saved]
        /\ \A d \in Admins \ {c} : req'[d] = req[d]
    BY <1>4, OneReq DEF ApplyRereads, SettingsInv
  <2>2. SettingsTypeOK'
    <3>1. saved \in Settings
      BY DEF SettingsInv, SettingsTypeOK
    <3>2. [pc |-> "chml", input |-> NoInput, row |-> saved] \in Requests
      BY <3>1, Nothing DEF Requests
    <3>3. req' \in [Admins -> Requests]
      BY <1>4, <3>2, OneReq DEF ApplyRereads, SettingsInv
    <3> QED BY <1>4, <3>3 DEF ApplyRereads, SettingsInv, SettingsTypeOK
  <2>3. LockInv' /\ UsedInv'
    BY <1>4, <2>1 DEF ApplyRereads, SettingsInv, LockInv, UsedInv, At
  <2>4. CopyInv' /\ FollowInv'
    BY <1>4, <2>1 DEF ApplyRereads, SettingsInv, CopyInv, FollowInv, At
  <2> QED BY <2>2, <2>3, <2>4 DEF SettingsInv
<1> QED BY <1>1, <1>2, <1>3, <1>4

(* A request tells the clients, and ends.                                  *)
LEMMA ApplyClientStep ==
  ASSUME SettingsInv, NEW c \in Admins,
         ReconfigureChml(c) \/ ReconfigureCf(c) \/ ApplyEnds(c) \/ ApplyDropped(c)
  PROVE  SettingsInv'
<1> USE SettingsAssumption
<1>0. /\ ~At(c, "idle")
      /\ req[c] \in Requests
  BY DEF ReconfigureChml, ReconfigureCf, ApplyEnds, ApplyDropped, At, SettingsInv, SettingsTypeOK
<1>1. /\ holder = c /\ up /\ used = Unused /\ "operation" # c /\ "nobody" # c
      /\ \A d \in Admins \ {c} : req[d].pc = "idle"
  BY <1>0, Alone DEF At
<1>2. CASE ReconfigureChml(c)
  <2>1. /\ req'[c] = [req[c] EXCEPT !.pc = "cf"]
        /\ \A d \in Admins \ {c} : req'[d] = req[d]
    BY <1>2 DEF ReconfigureChml, SettingsInv, SettingsTypeOK
  <2>2. req'[c].pc = "cf" /\ req'[c].row = req[c].row /\ req[c].row = saved
    BY <1>0, <1>2, <2>1 DEF ReconfigureChml, SettingsInv, CopyInv, At, Requests
  <2>3. SettingsTypeOK'
    <3>1. [req[c] EXCEPT !.pc = "cf"] \in Requests /\ req[c].row \in Settings
      BY <1>0 DEF Requests
    <3>2. req' \in [Admins -> Requests]
      BY <2>1, <3>1, <1>2 DEF ReconfigureChml, SettingsInv, SettingsTypeOK
    <3>3. chml' \in TokenOrNone
      BY <1>2, <3>1, ClientTypes DEF ReconfigureChml
    <3> QED BY <1>2, <3>2, <3>3 DEF ReconfigureChml, SettingsInv, SettingsTypeOK
  <2>4. LockInv' /\ UsedInv'
    BY <1>1, <1>2, <2>1, <2>2 DEF ReconfigureChml, SettingsInv, LockInv, UsedInv, Unused, At
  <2>5. CopyInv' /\ FollowInv'
    BY <1>1, <1>2, <2>1, <2>2 DEF ReconfigureChml, CopyInv, FollowInv, At
  <2> QED BY <2>3, <2>4, <2>5 DEF SettingsInv
<1>3. CASE ReconfigureCf(c)
  <2>1. /\ req'[c] = [NoReq EXCEPT !.pc = "activity"]
        /\ \A d \in Admins \ {c} : req'[d] = req[d]
    BY <1>3, OneReq DEF ReconfigureCf, SettingsInv
  <2>2. req'[c].pc = "activity" /\ req[c].row = saved /\ chml = saved.chml
    BY <1>3, <2>1 DEF ReconfigureCf, SettingsInv, CopyInv, At, NoReq
  <2>3. SettingsTypeOK'
    <3>1. req[c].row \in Settings
      BY <1>0 DEF Requests
    <3>2. req' \in [Admins -> Requests]
      BY <1>3, Nothing, OneReq DEF ReconfigureCf, SettingsInv
    <3>3. cf' \in [token : TokenOrNone, zone : ZoneOrNone]
      BY <1>3, <3>1, ClientTypes DEF ReconfigureCf
    <3> QED BY <1>3, <3>2, <3>3 DEF ReconfigureCf, SettingsInv, SettingsTypeOK
  <2>4. LockInv' /\ UsedInv'
    BY <1>1, <1>3, <2>1, <2>2 DEF ReconfigureCf, SettingsInv, LockInv, UsedInv, Unused, At
  <2>5. CopyInv' /\ FollowInv'
    BY <1>1, <1>3, <2>1, <2>2 DEF ReconfigureCf, CopyInv, FollowInv, At
  <2> QED BY <2>3, <2>4, <2>5 DEF SettingsInv
<1>4. CASE ApplyEnds(c) \/ ApplyDropped(c)
  <2>1. /\ req'[c] = NoReq /\ \A d \in Admins \ {c} : req'[d] = req[d]
        /\ saved' = saved /\ seeded' = seeded /\ up' = up /\ chml' = chml /\ cf' = cf
        /\ used' = used /\ served' = served /\ cut' \in BOOLEAN
    BY <1>4, OneReq DEF ApplyEnds, ApplyDropped, SettingsInv, SettingsTypeOK, At
  <2>2. holder' = "nobody"
    BY <1>1, <1>4 DEF ApplyEnds, ApplyDropped, Unlock
  <2>3. SettingsTypeOK'
    <3>1. req' \in [Admins -> Requests]
      BY <1>4, Nothing, OneReq DEF ApplyEnds, ApplyDropped, SettingsInv
    <3> QED BY <2>1, <2>2, <3>1 DEF SettingsInv, SettingsTypeOK
  <2>4. LockInv' /\ UsedInv'
    BY <1>1, <2>1, <2>2 DEF SettingsInv, LockInv, UsedInv, Unused, At, NoReq
  <2>5. CopyInv'
    BY <1>1, <2>1 DEF CopyInv, At, NoReq
  <2>6. FollowInv'
    <3>1. ~cut' => ~cut /\ req[c].pc \notin {"reread", "chml", "cf"}
      BY <1>4 DEF ApplyEnds, ApplyDropped, At
    <3> QED BY <1>1, <2>1, <3>1 DEF SettingsInv, FollowInv
  <2> QED BY <2>3, <2>4, <2>5, <2>6 DEF SettingsInv
<1> QED BY <1>2, <1>3, <1>4

(* An operation begins, calls the clients, and ends.                       *)
LEMMA OperationStep ==
  ASSUME SettingsInv, OperationBegins \/ OperationCalls \/ OperationEnds
  PROVE  SettingsInv'
<1> USE SettingsAssumption
<1>1. /\ \A c \in Admins : req[c].pc = "idle"
      /\ UNCHANGED <<saved, seeded, up, chml, cf, req, served, cut>> /\ up
  BY DEF OperationBegins, OperationCalls, OperationEnds, SettingsInv, LockInv, At
<1>2. holder' \in {"operation", "nobody"}
  BY DEF OperationBegins, OperationCalls, OperationEnds
<1>3. UsedInv'
  BY <1>1
  DEF OperationBegins, OperationCalls, OperationEnds, SettingsInv, SettingsTypeOK, UsedInv, Unused
<1>4. used' \in [chml : SUBSET Tokens, cf : SUBSET [token : Tokens, zone : Zones]]
  <2>1. CASE OperationBegins \/ OperationEnds
    BY <2>1, Nothing DEF OperationBegins, OperationEnds
  <2>2. CASE OperationCalls
    <3>1. None \notin {cf.token, cf.zone} => cf \in [token : Tokens, zone : Zones]
      BY DEF SettingsInv, SettingsTypeOK, TokenOrNone, ZoneOrNone
    <3>2. chml # None => chml \in Tokens
      BY DEF SettingsInv, SettingsTypeOK, TokenOrNone
    <3> QED BY <2>2, <3>1, <3>2 DEF OperationCalls, SettingsInv, SettingsTypeOK
  <2> QED BY <2>1, <2>2
<1>5. SettingsTypeOK'
  BY <1>1, <1>2, <1>4 DEF SettingsInv, SettingsTypeOK
<1>6. LockInv' /\ CopyInv' /\ FollowInv'
  BY <1>1, <1>2 DEF SettingsInv, LockInv, CopyInv, FollowInv, At
<1> QED BY <1>3, <1>5, <1>6 DEF SettingsInv

(* Every step keeps the invariant.                                         *)
LEMMA SettingsStep == SettingsInv /\ [SettingsNext]_settingsVars => SettingsInv'
<1> SUFFICES ASSUME SettingsInv, [SettingsNext]_settingsVars PROVE SettingsInv'
  OBVIOUS
<1>1. CASE UNCHANGED settingsVars
  BY <1>1
  DEF settingsVars, SettingsInv, SettingsTypeOK, LockInv, CopyInv, FollowInv, UsedInv, At
<1>2. CASE SettingsNext
  BY <1>2, StartStep, CrashStep, ApplyRowStep, ApplyClientStep, OperationStep
  DEF SettingsNext, ApplyStep
<1> QED BY <1>1, <1>2

-----------------------------------------------------------------------------
(* The invariant holds in every reachable state.                           *)
THEOREM SettingsInvariant == SettingsSpec => []SettingsInv
  BY SettingsInit, SettingsStep, PTL DEF SettingsSpec

(* Every variable keeps its type.                                          *)
THEOREM SettingsTyped == SettingsSpec => []SettingsTypeOK
<1>1. SettingsInv => SettingsTypeOK
  BY DEF SettingsInv
<1> QED BY <1>1, SettingsInvariant, PTL

(* A subset of a singleton has at most one element.                        *)
LEMMA AtMostOne == ASSUME NEW x, NEW S \in SUBSET {x} PROVE Cardinality(S) <= 1
<1>1. CASE S = {}
  BY <1>1, FS_EmptySet
<1>2. CASE S = {x}
  BY <1>2, FS_Singleton
<1> QED BY <1>1, <1>2

(* A reconcile or a switch works on one account and one zone, whatever is  *)
(* saved meanwhile: apply_provider_settings tries for the same lock.       *)
THEOREM OneAccount == SettingsSpec => []OneAccountPerOperation
<1>1. SettingsInv => OneAccountPerOperation
  BY AtMostOne DEF SettingsInv, UsedInv, OneAccountPerOperation
<1> QED BY <1>1, SettingsInvariant, PTL

(* The clients hold what is saved, unless a PUT is under way or was cut    *)
(* off between the row and the clients.                                    *)
THEOREM LiveFollows == SettingsSpec => []LiveFollowsSaved
<1>1. ASSUME SettingsInv, up, holder \notin Admins, ~cut
      PROVE  chml = saved.chml /\ cf = CfConfig(saved)
  <2>1. \A c \in Admins : req[c].pc = "idle"
    BY <1>1 DEF SettingsInv, LockInv, At
  <2> QED BY <1>1, <2>1 DEF SettingsInv, FollowInv
<1>2. SettingsInv => LiveFollowsSaved
  BY <1>1 DEF LiveFollowsSaved
<1> QED BY <1>2, SettingsInvariant, PTL

(* A stored token changes only by the first start and by a PUT that names  *)
(* or clears it.                                                           *)
THEOREM TokenByRequest == SettingsSpec => TokenOnlyByRequest
<1> DEFINE Changed(p) ==
      saved'[p] # saved[p] =>
        ~served \/ \E c \in Admins : At(c, "write") /\ ~At(c, "write")' /\ req[c].input[p] # "keep"
<1>1. ASSUME SettingsInv, SettingsNext, NEW p \in {"chml", "cf"} PROVE Changed(p)
  <2>1. CASE Start
    BY <1>1, <2>1 DEF Start, SettingsInv, LockInv, seed_provider_settings_from_env
  <2>2. CASE \E c \in Admins : ApplyWrites(c)
    <3>1. PICK c \in Admins : ApplyWrites(c)
      BY <2>2
    <3>2. /\ req[c].input \in Inputs /\ req[c].row = saved /\ saved \in Settings
          /\ saved' = update_provider_settings(req[c].input, saved)
      <4>1. req[c] \in Requests /\ saved \in Settings
        BY <1>1 DEF SettingsInv, SettingsTypeOK
      <4>2. req[c].input \in Inputs
        BY <4>1 DEF Requests
      <4>3. req[c].row = saved
        BY <1>1, <3>1 DEF ApplyWrites, SettingsInv, CopyInv, At
      <4> QED BY <3>1, <4>1, <4>2, <4>3 DEF ApplyWrites
    <3>3. req[c].input[p] = "keep" => saved'[p] = saved[p]
      BY <3>2, UpdatedRow
    <3>4. At(c, "write") /\ ~At(c, "write")'
      BY <1>1, <3>1 DEF ApplyWrites, SettingsInv, SettingsTypeOK, At
    <3> QED BY <3>3, <3>4
  <2>3. CASE saved' = saved
    BY <2>3
  <2> QED
    BY <1>1, <2>1, <2>2, <2>3
    DEF SettingsNext, ApplyStep, Crash, ApplyBegins, ApplyReads, ApplyRereads, ReconfigureChml,
        ReconfigureCf, ApplyEnds, ApplyDropped, OperationBegins, OperationCalls, OperationEnds
<1>2. SettingsInv /\ [SettingsNext]_settingsVars =>
        [\A p \in {"chml", "cf"} : Changed(p)]_settingsVars
  BY <1>1
<1> QED BY <1>2, SettingsInvariant, PTL DEF SettingsSpec, TokenOnlyByRequest
=============================================================================
