---------------------------- MODULE UnomiGrouping ----------------------------
(***************************************************************************)
(* The change classification and grouping engine of create_unomi_prs.py   *)
(* as pure operators: the classifier (classify_file_to_unomi_ticket), the *)
(* group assembler and documentation co-location (analyze_and_group_      *)
(* changes, ensure_documentation_colocation) and the grouping validator   *)
(* (validate_groupings).                                                   *)
(*                                                                         *)
(* Data is abstracted to what the code tells apart.  A file path is a     *)
(* model value; what the code ever asks of it is which rules' path        *)
(* patterns re.search-match it (PathMatch) and which doc_mappings targets *)
(* its documentation patterns name (DocTargets).  A commit message is a   *)
(* model value with the ticket ids re.findall extracts from it            *)
(* (MsgTickets) and the rules whose commit_patterns match it (MsgMatch).  *)
(***************************************************************************)
EXTENDS Naturals, FiniteSets, Sequences, SequencesExt, TLC

CONSTANTS
  Registry,       \* <<ticket id, ...>>: keys of self.unomi_groups in insertion order
  Priority,       \* [Range(Registry) -> Priorities]: "priority" of each rule
  NeedsNewTicket, \* [Range(Registry) -> BOOLEAN]: "needs_new_ticket" (default False)
  Files,          \* changed-file paths
  PathMatch,      \* [Files -> SUBSET Range(Registry)]: rules with a matching "patterns" entry
  DocTargets,     \* [Files -> SUBSET ticket ids]: targets of the doc_mappings patterns matching
  Messages,       \* commit messages
  MsgTickets,     \* [Messages -> SUBSET ticket ids]: set(re.findall(r'UNOMI-\d+', message))
  MsgMatch,       \* [Messages -> SUBSET Range(Registry)]: rules with a matching "commit_patterns" entry
  DocTicket,      \* "UNOMI-882", the dedicated documentation ticket
  MiscTicket,     \* "UNOMI-908", the fallback group of unmapped files
  NoTicket        \* Python None returned by the classifier

Priorities == {"CRITICAL", "HIGH", "MEDIUM", "LOW"}
Registered == Range(Registry)
TicketIds == Registered \cup UNION {MsgTickets[m] : m \in Messages} \cup {MiscTicket}

ASSUME /\ Registry \in Seq(STRING) /\ Len(Registry) = Cardinality(Registered)
       /\ Priority \in [Registered -> Priorities]
       /\ NeedsNewTicket \in [Registered -> BOOLEAN]
       /\ PathMatch \in [Files -> SUBSET Registered]
       /\ MsgMatch \in [Messages -> SUBSET Registered]
       /\ DocTicket \in Registered /\ MiscTicket \notin Registered
       /\ NoTicket \notin TicketIds

(* CommitInfo, with the hash abstracted to the commit's index in the list. *)
Commit == [files : SUBSET Files, msg : Messages]

(* A group as UNOMIGroup keeps it; title, description and patterns are     *)
(* static per ticket and commit_count is Len(commits).                     *)
Group == [files : SUBSET Files, commits : Seq(Commit)]

(* The first element list(commit.unomi_tickets)[0] yields for each commit  *)
(* with tickets.  Set iteration order of str depends on the per-process    *)
(* hash seed, so every element is a possible outcome.                      *)
PickChoices(cs) ==
  LET D == {i \in DOMAIN cs : MsgTickets[cs[i].msg] # {}}
  IN {p \in [D -> TicketIds] : \A i \in D : p[i] \in MsgTickets[cs[i].msg]}

(* The first rule, in registry order, of a set of rules. *)
FirstRule(S) == Registry[SelectInSeq(Registry, LAMBDA t : t \in S)]

(* Mutant: path patterns consulted before the commits' explicit tickets. *)
ClassifyFilePathFirst(f, cs, pick) ==
  LET explicit == SelectInSeq(cs, LAMBDA c : f \in c.files /\ MsgTickets[c.msg] # {})
  IN CASE PathMatch[f] # {} -> FirstRule(PathMatch[f])
       [] explicit # 0      -> pick[explicit]
       [] OTHER             -> NoTicket

(* classify_file_to_unomi_ticket: explicit ticket of the first commit      *)
(* touching the file that has tickets, else first rule whose path pattern  *)
(* matches, else the first rule whose commit pattern matches the message   *)
(* of the first touching commit that any rule matches, else None.          *)
ClassifyFile(f, cs, pick) ==
  LET explicit == SelectInSeq(cs, LAMBDA c : f \in c.files /\ MsgTickets[c.msg] # {})
      byMsg    == SelectInSeq(cs, LAMBDA c : f \in c.files /\ MsgMatch[c.msg] # {})
  IN CASE explicit # 0       -> pick[explicit]
       [] PathMatch[f] # {}  -> FirstRule(PathMatch[f])
       [] byMsg # 0          -> FirstRule(MsgMatch[cs[byMsg].msg])
       [] OTHER              -> NoTicket

(* Mutant: `if ticket:` dropped, so unmapped files form a group under None. *)
AssembleGroupsNoneKey(changed, cs, pick) ==
  LET cls == [f \in changed |-> ClassifyFile(f, cs, pick)]
      filesOf(t) == {f \in changed : cls[f] = t}
  IN [t \in {cls[f] : f \in changed} |->
        [files |-> filesOf(t),
         commits |-> SelectSeq(cs, LAMBDA c : c.files \cap filesOf(t) # {})]]

(* analyze_and_group_changes up to the co-location call: one group per     *)
(* registered ticket that received a file (files classified to a ticket   *)
(* that is not registered are dropped), with the commits that reference   *)
(* the ticket or touch its files; and the fallback group of unmapped files *)
(* with the ticketless commits touching them.                              *)
AssembleGroups(changed, cs, pick) ==
  LET cls == [f \in changed |-> ClassifyFile(f, cs, pick)]
      filesOf(t) == {f \in changed : cls[f] = t}
      unmapped == filesOf(NoTicket)
      commitsOf(t) ==
        SelectSeq(cs, LAMBDA c : t \in MsgTickets[c.msg] \/ c.files \cap filesOf(t) # {})
      named == [t \in {u \in Registered : filesOf(u) # {}} |->
                  [files |-> filesOf(t), commits |-> commitsOf(t)]]
      misc == [files |-> unmapped,
               commits |-> SelectSeq(cs, LAMBDA c : c.files \cap unmapped # {}
                                                    /\ MsgTickets[c.msg] = {})]
  IN IF unmapped = {} THEN named ELSE (MiscTicket :> misc) @@ named

(* Mutant: every docs-group file whose doc pattern targets a present     *)
(* group is removed from the docs group, without being added to it.        *)
ColocateDocsByPattern(groups) ==
  IF DocTicket \in DOMAIN groups
  THEN [groups EXCEPT ![DocTicket].files =
          {f \in @ : DocTargets[f] \cap DOMAIN groups = {}}]
  ELSE groups

(* ensure_documentation_colocation: for every group other than the docs    *)
(* ticket, its own files matching a doc pattern that targets it are        *)
(* removed from the docs group's files.                                    *)
Colocate(groups) ==
  LET toMove(g) == {f \in groups[g].files : g \in DocTargets[f]}
      moved == UNION {toMove(g) : g \in DOMAIN groups \ {DocTicket}}
  IN IF DocTicket \in DOMAIN groups
     THEN [groups EXCEPT ![DocTicket].files = @ \ moved]
     ELSE groups

AnalyzeAndGroup(changed, cs, pick) == Colocate(AssembleGroups(changed, cs, pick))

(* Mutant: grouped_files updated before the overlap test. *)
ValidateGroupingsUpdateFirst(groups, changed) ==
  LET step(acc, t) ==
        LET grouped == acc.grouped \cup groups[t].files
        IN [grouped |-> grouped,
            errors  |-> acc.errors + IF grouped \cap groups[t].files # {} THEN 1 ELSE 0]
      r == FoldLeft(step, [grouped |-> {}, errors |-> 0], SetToSeq(DOMAIN groups))
  IN r.errors + (IF changed \ r.grouped # {} THEN 1 ELSE 0) = 0

(* validate_groupings: one error per group whose files overlap the files   *)
(* of the groups before it, one more if a changed file is in no group.     *)
(* The groups are visited in dict order; whether the error count is zero   *)
(* does not depend on that order.                                          *)
ValidateGroupings(groups, changed) ==
  LET step(acc, t) ==
        [grouped |-> acc.grouped \cup groups[t].files,
         errors  |-> acc.errors + IF acc.grouped \cap groups[t].files # {} THEN 1 ELSE 0]
      r == FoldLeft(step, [grouped |-> {}, errors |-> 0], SetToSeq(DOMAIN groups))
  IN r.errors + (IF changed \ r.grouped # {} THEN 1 ELSE 0) = 0

-----------------------------------------------------------------------------
(* Reference definitions: what the spec requires of a grouping.            *)

(* Every changed file is in exactly one group, and groups hold no others.  *)
IsPartition(groups, changed) ==
  /\ UNION {groups[t].files : t \in DOMAIN groups} = changed
  /\ \A t, u \in DOMAIN groups : t # u => groups[t].files \cap groups[u].files = {}

(* The tickets the spec's precedence (section 4.1) allows for a file:      *)
(* a registered id of the first touching commit that carries one, else the *)
(* first path-matching rule, else the first message-matching rule of the   *)
(* first touching commit some rule matches, else the fallback group.       *)
SpecTickets(f, cs) ==
  LET touching(P(_)) == {i \in DOMAIN cs : f \in cs[i].files /\ P(cs[i].msg)}
      T1 == touching(LAMBDA m : MsgTickets[m] \cap Registered # {})
      T3 == touching(LAMBDA m : MsgMatch[m] # {})
      first(S) == CHOOSE i \in S : \A j \in S : i <= j
  IN IF T1 # {} THEN MsgTickets[cs[first(T1)].msg] \cap Registered
     ELSE IF PathMatch[f] # {} THEN {FirstRule(PathMatch[f])}
     ELSE IF T3 # {} THEN {FirstRule(MsgMatch[cs[first(T3)].msg])}
     ELSE {MiscTicket}
=============================================================================
