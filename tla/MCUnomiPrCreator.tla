-------------------------- MODULE MCUnomiPrCreator --------------------------
(***************************************************************************)
(* Model values for UnomiPrCreator.  Match sets are what re.search over   *)
(* the registry gives for the paths and messages in the comments.         *)
(***************************************************************************)
EXTENDS UnomiPrCreator, UnomiTables

CONSTANTS p1, p2, p3, p4, n1, n2, n3

(* p1 = services/.../scheduler/SchedulerServiceImpl.java                   *)
(* p2 = services-common/src/main/java/CacheHelper.java                     *)
(* p3 = tools/shell-commands/src/main/java/PermissionCheck.java            *)
(* p4 = api/src/main/java/org/apache/unomi/api/tasks/ScheduledTask.java    *)
PathMatchOfPaths ==
  (p1 :> {"UNOMI-878"}) @@ (p2 :> {"UNOMI-880"}) @@ (p3 :> {"UNOMI-904", "UNOMI-906"})
  @@ (p4 :> {"UNOMI-878"})
PrPathMatch == [f \in Files |-> PathMatchOfPaths[f]]

PrDocTargets == [f \in Files |-> {}]

(* n1 = "Update deps", n2 = "UNOMI-880 unified cache",                   *)
(* n3 = "UNOMI-878 UNOMI-880 cache scheduled tasks"                        *)
MsgTicketsOfMessages ==
  (n1 :> {}) @@ (n2 :> {"UNOMI-880"}) @@ (n3 :> {"UNOMI-878", "UNOMI-880"})
PrMsgTickets == [m \in Messages |-> MsgTicketsOfMessages[m]]
PrMsgMatch == [m \in Messages |-> MsgTicketsOfMessages[m]]
=============================================================================
