----------------------------- MODULE MCFunctions -----------------------------
(***************************************************************************)
(* The decisions that are functions of what they are given: what a line of *)
(* FRPC means, in which order candidates are tried, what a row of the      *)
(* dashboard says, and what is read and written of a tunnel.  A behaviour  *)
(* is about one of them.                                                   *)
(***************************************************************************)
EXTENDS FrpcLog, OrderedCandidates, StatusRows, TunnelFields, TLC

VARIABLE about

allVars == <<vars, listVars, rowVars, fieldVars, about>>

NoCall == [active |-> NoName, preferred |-> NoName, require_web |-> FALSE]

FunctionsInit ==
  /\ about \in {"log", "list", "row", "tunnel"}
  /\ IF about = "list" THEN ListInit ELSE nodes = << >> /\ call = NoCall /\ out = << >> /\ next = 0
  /\ Init /\ RowsInit /\ FieldsInit
  /\ about # "log" => style = "ini"
  /\ about # "tunnel" => shape = "legacy"

FunctionsNext ==
  /\ \/ about = "log" /\ Next /\ UNCHANGED <<listVars, rowVars, fieldVars>>
     \/ about = "list" /\ ListNext /\ UNCHANGED <<vars, rowVars, fieldVars>>
     \/ about = "row" /\ RowsNext /\ UNCHANGED <<vars, listVars, fieldVars>>
     \/ about = "tunnel" /\ FieldsNext /\ UNCHANGED <<vars, listVars, rowVars>>
  /\ UNCHANGED about

FunctionsSpec == FunctionsInit /\ [][FunctionsNext]_allVars

ServerSymmetry == Permutations(Servers)
=============================================================================
