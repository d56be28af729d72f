----------------------------- MODULE UnomiTables -----------------------------
(***************************************************************************)
(* The static tables of create_unomi_prs.py: the ticket registry          *)
(* (self.unomi_groups) in insertion order with its priorities and         *)
(* needs_new_ticket flags, and the dependency-aware creation order of     *)
(* create_all_prs cut into its five phases.                                *)
(***************************************************************************)
EXTENDS Sequences, SequencesExt, TLC

UnomiGroupsOrder ==
  <<"UNOMI-139", "UNOMI-878", "UNOMI-880", "UNOMI-881", "UNOMI-882",
    "UNOMI-883", "UNOMI-884", "UNOMI-887", "UNOMI-888", "UNOMI-889",
    "UNOMI-892", "UNOMI-897", "UNOMI-873", "UNOMI-877", "UNOMI-904",
    "UNOMI-905", "UNOMI-906", "UNOMI-907", "UNOMI-909">>

UnomiGroupsPriority ==
  [t \in Range(UnomiGroupsOrder) |->
     CASE t = "UNOMI-139" -> "CRITICAL"
       [] t \in {"UNOMI-878", "UNOMI-880", "UNOMI-884", "UNOMI-889",
                 "UNOMI-897", "UNOMI-904", "UNOMI-905"} -> "HIGH"
       [] t \in {"UNOMI-881", "UNOMI-883", "UNOMI-873", "UNOMI-877",
                 "UNOMI-906", "UNOMI-909"} -> "MEDIUM"
       [] OTHER -> "LOW"]

UnomiGroupsNeedsNewTicket ==
  [t \in Range(UnomiGroupsOrder) |->
     t \in {"UNOMI-904", "UNOMI-905", "UNOMI-906", "UNOMI-907", "UNOMI-909"}]

(* dependency_order and its slices [0:2], [2:5], [5:9], [9:12], [12:]. *)
DependencyOrderPhases ==
  << <<"UNOMI-139", "UNOMI-897">>,
     <<"UNOMI-880", "UNOMI-884", "UNOMI-878">>,
     <<"UNOMI-881", "UNOMI-873", "UNOMI-883", "UNOMI-877">>,
     <<"UNOMI-905", "UNOMI-909", "UNOMI-906">>,
     <<"UNOMI-887", "UNOMI-888", "UNOMI-892", "UNOMI-882", "UNOMI-908">> >>

(* Every ticket id the tables and the modelled commit messages name, in    *)
(* lexical (here also numeric) order.                                      *)
TicketsLexical ==
  <<"UNOMI-139", "UNOMI-873", "UNOMI-877", "UNOMI-878", "UNOMI-880",
    "UNOMI-881", "UNOMI-882", "UNOMI-883", "UNOMI-884", "UNOMI-887",
    "UNOMI-888", "UNOMI-889", "UNOMI-892", "UNOMI-897", "UNOMI-904",
    "UNOMI-905", "UNOMI-906", "UNOMI-907", "UNOMI-908", "UNOMI-909",
    "UNOMI-999">>
=============================================================================
