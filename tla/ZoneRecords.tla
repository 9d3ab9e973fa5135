---------------------------- MODULE ZoneRecords ----------------------------
(***************************************************************************)
(* The Cloudflare client on its zone: the paged listing of the records,    *)
(* and the self-test of the API, which creates a temporary record, reads,  *)
(* changes and deletes it, and reports.                                    *)
(*                                                                         *)
(* Neither has the global lock.  The zone a call works on is the one the   *)
(* client holds when the call is made; new settings (ProviderSettings) may *)
(* change it between two calls.  Others create and delete records all the  *)
(* time.  A call may fail before or after Cloudflare has done it, and the  *)
(* handler may be dropped, or the program end, before any step.            *)
(*                                                                         *)
(* A record is its id, which Cloudflare uses once.  A zone's records have  *)
(* an order, which the pages follow.  What a record holds is left out.     *)
(***************************************************************************)
EXTENDS Naturals, FiniteSets, SequencesExt

CONSTANTS
  Zones,       \* Cloudflare zones
  None,        \* the client has no zone, or no token
  PageSize,    \* records on a page
  MaxRecords   \* bound: records ever created

ASSUME ZoneAssumption ==
  /\ None \notin Zones
  /\ PageSize \in Nat \ {0} /\ MaxRecords \in Nat

VARIABLES
  records,   \* each zone's records, in the order the pages follow
  made,      \* how many records have been created; their ids are 1 .. made
  live,      \* the zone the client's calls go to
  test,      \* the self-test in hand
  list       \* the listing in hand

zoneVars == <<records, made, live, test, list>>

Ids == 1 .. MaxRecords

NoTest == [pc |-> "idle", id |-> 0, absent |-> FALSE]
NoList == [pc |-> "idle", zone |-> None, page |-> 0, got |-> {}, there |-> {}, whole |-> TRUE]

Init ==
  /\ records = [z \in Zones |-> <<>>] /\ made = 0
  /\ live = None /\ test = NoTest /\ list = NoList

-----------------------------------------------------------------------------
(* What a call does at Cloudflare. *)

(* A new record takes any place in the order.                              *)
Created(z) ==
  /\ z \in Zones /\ made < MaxRecords
  /\ made' = made + 1
  /\ \E k \in 1 .. Len(records[z]) + 1 : records' = [records EXCEPT ![z] = InsertAt(@, k, made + 1)]

(* `whole` says that the listed zone has lost no record meanwhile.         *)
Deleted(z, r) ==
  /\ z \in Zones
  /\ \E k \in DOMAIN records[z] :
       records[z][k] = r /\ records' = [records EXCEPT ![z] = RemoveAt(@, k)]
  /\ list' = IF list.pc # "idle" /\ list.zone = z THEN [list EXCEPT !.whole = FALSE] ELSE list

Reconfigured ==
  /\ \E z \in Zones \cup {None} : live' = z
  /\ UNCHANGED <<records, made, test, list>>

(* The other users of the zones, the DNS page and the reconcile among them. *)
OthersCreate == (\E z \in Zones : Created(z)) /\ UNCHANGED <<live, test, list>>
OthersDelete == (\E z \in Zones, r \in Ids : Deleted(z, r)) /\ UNCHANGED <<made, live, test>>

-----------------------------------------------------------------------------
(* dns_diagnostics.  The checks before it need a token, a saved zone that  *)
(* the token reaches, and a listing of the zone.                           *)

TestBegins ==
  /\ test.pc = "idle" /\ live \in Zones
  /\ test' = [NoTest EXCEPT !.pc = "create"]
  /\ UNCHANGED <<records, made, live, list>>

(* The record is there, whether the answer arrives or not.                 *)
TestCreates ==
  /\ test.pc = "create" /\ Created(live)
  /\ test' \in {NoTest, [test EXCEPT !.pc = "get", !.id = made']}
  /\ UNCHANGED <<live, list>>

(* get_dns_record, update_dns_record: not found in another zone.           *)
Found == live \in Zones /\ Contains(records[live], test.id)

TestGets ==
  /\ test.pc = "get"
  /\ \/ Found /\ test' = [test EXCEPT !.pc = "update"]
     \/ test' = [test EXCEPT !.pc = "cleanup"]
  /\ UNCHANGED <<records, made, live, list>>

TestUpdates ==
  /\ test.pc = "update"
  /\ \/ Found /\ test' = [test EXCEPT !.pc = "delete"]
     \/ test' = [test EXCEPT !.pc = "cleanup"]
  /\ UNCHANGED <<records, made, live, list>>

(* After an error: the record is deleted if it can be, and the error is    *)
(* what the handler answers.                                               *)
TestCleansUp ==
  /\ test.pc = "cleanup"
  /\ Deleted(live, test.id) \/ UNCHANGED <<records, list>>
  /\ test' = NoTest
  /\ UNCHANGED <<made, live>>

(* A mutant of TestDeletes: the deletion that fails is not an error.       *)
TestDeletesAnyway ==
  /\ test.pc = "delete"
  /\ Deleted(live, test.id) \/ UNCHANGED <<records, list>>
  /\ test' = [test EXCEPT !.pc = "check"]
  /\ UNCHANGED <<made, live>>

TestDeletes ==
  /\ test.pc = "delete"
  /\ Deleted(live, test.id)
  /\ test' \in {NoTest, [test EXCEPT !.pc = "check"]}
  /\ UNCHANGED <<made, live>>

(* The report says whether the record is absent from the zone listed now.  *)
TestChecks ==
  /\ test.pc = "check" /\ live \in Zones
  /\ test' = [test EXCEPT !.pc = "report", !.absent = ~Contains(records[live], test.id)]
  /\ UNCHANGED <<records, made, live, list>>

TestAnswers ==
  /\ test.pc = "report"
  /\ test' = NoTest
  /\ UNCHANGED <<records, made, live, list>>

(* A failed call without an effect, or the handler is dropped.             *)
TestDropped ==
  /\ test.pc \in {"create", "get", "update", "cleanup", "delete", "check"}
  /\ test' = NoTest
  /\ UNCHANGED <<records, made, live, list>>

-----------------------------------------------------------------------------
(* list_dns_records: pages until the number of pages that the reply in     *)
(* hand names, all with the configuration the client held at the start.    *)

ListBegins ==
  /\ list.pc = "idle" /\ live \in Zones
  /\ list' = [NoList EXCEPT !.pc = "page", !.zone = live, !.page = 1, !.there = ToSet(records[live])]
  /\ UNCHANGED <<records, made, live, test>>

PageOf(s, p) == {s[k] : k \in (PageSize * (p - 1) + 1 .. PageSize * p) \cap DOMAIN s}
LastPage(s, p) == p * PageSize >= Len(s)

WithPage(s) ==
  [list EXCEPT !.got = @ \cup PageOf(s, list.page),
               !.pc = IF LastPage(s, list.page) THEN "done" ELSE "page",
               !.page = IF LastPage(s, list.page) THEN @ ELSE @ + 1]

(* A mutant of ListPage: each page with the configuration held then.       *)
ListPageOfLive ==
  /\ list.pc = "page" /\ live \in Zones
  /\ list' = WithPage(records[live])
  /\ UNCHANGED <<records, made, live, test>>

ListPage ==
  /\ list.pc = "page"
  /\ list' = WithPage(records[list.zone])
  /\ UNCHANGED <<records, made, live, test>>

(* A page that fails is the error of the listing; a listing that is done   *)
(* is used.                                                                *)
ListEnds ==
  /\ list.pc \in {"page", "done"}
  /\ list' = NoList
  /\ UNCHANGED <<records, made, live, test>>

-----------------------------------------------------------------------------
TestStep ==
  \/ TestBegins \/ TestCreates \/ TestGets \/ TestUpdates \/ TestCleansUp
  \/ TestDeletes \/ TestChecks \/ TestAnswers \/ TestDropped

ZoneNext ==
  \/ Reconfigured \/ OthersCreate \/ OthersDelete
  \/ TestStep
  \/ ListBegins \/ ListPage \/ ListEnds

ZoneSpec == Init /\ [][ZoneNext]_zoneVars

-----------------------------------------------------------------------------
(* What is promised. *)

ZoneTypeOK ==
  /\ records \in [Zones -> Seq(Nat)] /\ made \in Nat
  /\ live \in Zones \cup {None}
  /\ test \in [pc : {"idle", "create", "get", "update", "cleanup", "delete", "check", "report"},
               id : Nat, absent : BOOLEAN]
  /\ list \in [pc : {"idle", "page", "done"}, zone : Zones \cup {None}, page : Nat,
               got : SUBSET Nat, there : SUBSET Nat, whole : BOOLEAN]

(* A self-test that reports its record absent has left it nowhere: not in  *)
(* the zone it began with either, when the zone was changed under it.      *)
CleanReportIsClean ==
  test.pc = "report" /\ test.absent => \A z \in Zones : ~Contains(records[z], test.id)

(* A listing has every record its zone had when it began, however many the *)
(* pages and whatever was added to the zone, or changed in the settings,   *)
(* meanwhile; unless the zone lost records.                                *)
ListingComplete == list.pc = "done" /\ list.whole => list.there \subseteq list.got

(* REVIEW.md says that the listing follows all result pages.  A record     *)
(* deleted from a page already read moves the later ones up: one of them   *)
(* is in the zone from the start to the end, and not in the listing.       *)
ListingMissesNothing ==
  list.pc = "done" => list.there \cap ToSet(records[list.zone]) \subseteq list.got

(* The self-test is documented as verifying its cleanup: it leaves its     *)
(* record behind when the answer to the creation is lost, when the zone    *)
(* changes under it, or when it is dropped.                                *)
SelfTestLeavesNothing ==
  [][test.pc # "idle" /\ test'.pc = "idle" =>
       \A z \in Zones : ~Contains(records'[z], test.id)]_zoneVars
=============================================================================
