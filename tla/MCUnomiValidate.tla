--------------------------- MODULE MCUnomiValidate ---------------------------
(***************************************************************************)
(* Model values for UnomiValidate.  The registry, priorities and doc       *)
(* targets are the tables of create_unomi_prs.py; the match sets of the    *)
(* files and messages are what re.search over those tables gives for the  *)
(* paths and messages named in the comments.                               *)
(***************************************************************************)
EXTENDS UnomiValidate, UnomiTables

CONSTANTS f1, f2, f3, m1, m2, m3, m4, m5, m6

(* f1 = rest/TenantResource.java, f2 = manual/cluster.adoc,                *)
(* f3 = services/src/main/java/Foo.java                                    *)
MCPathMatch ==
  (f1 :> {"UNOMI-139", "UNOMI-909"}) @@ (f2 :> {"UNOMI-882", "UNOMI-877"})
  @@ (f3 :> {})

MCDocTargets == (f1 :> {}) @@ (f2 :> {"UNOMI-877"}) @@ (f3 :> {})

(* m1 = "UNOMI-873 add request tracing", m2 = "UNOMI-877 cluster health",  *)
(* m3 = "Fix segment condition bug", m4 = "Update deps",                   *)
(* m5 = "UNOMI-999 unrelated fix", m6 = "UNOMI-139 UNOMI-880 tenant cache" *)
MCMsgTickets ==
  (m1 :> {"UNOMI-873"}) @@ (m2 :> {"UNOMI-877"}) @@ (m3 :> {}) @@ (m4 :> {})
  @@ (m5 :> {"UNOMI-999"}) @@ (m6 :> {"UNOMI-139", "UNOMI-880"})

MCMsgMatch ==
  (m1 :> {"UNOMI-873"}) @@ (m2 :> {"UNOMI-877"}) @@ (m3 :> {"UNOMI-905"})
  @@ (m4 :> {}) @@ (m5 :> {}) @@ (m6 :> {"UNOMI-139", "UNOMI-880"})

(* Messages with at most one ticket id, all registered. *)
RegisteredMessages == {m1, m2, m3, m4}

(* Every message, including unregistered and multiple ticket ids. *)
AllCommitMessages == {m1, m2, m3, m4, m5, m6}

(* A message naming a ticket id the registry does not have. *)
UnregisteredMessages == {m4, m5}

(* A message naming two registered tickets. *)
MultiTicketMessages == {m4, m6}
=============================================================================
