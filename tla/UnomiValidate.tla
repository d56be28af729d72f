---------------------------- MODULE UnomiValidate ----------------------------
(***************************************************************************)
(* main() of create_unomi_prs.py run with --validate: validate_git_history *)
(* checks that both branches exist, analyze_and_group_changes reads the    *)
(* commits and changed files from git and groups them, validate_groupings  *)
(* checks the groups and decides the exit code.                            *)
(***************************************************************************)
EXTENDS UnomiGrouping

CONSTANTS
  MaxCommits,        \* bound on the length of the commit list
  CommitMessages,    \* the messages the commits of a run may carry
  BranchShadowing,   \* {FALSE} or BOOLEAN: can another branch name contain a missing one
  GitFailures        \* {FALSE} or BOOLEAN: can a git command fail on existing branches

ASSUME /\ MaxCommits \in Nat
       /\ CommitMessages \subseteq Messages
       /\ BranchShadowing \subseteq BOOLEAN /\ FALSE \in BranchShadowing
       /\ GitFailures \subseteq BOOLEAN /\ FALSE \in GitFailures

VARIABLES
  pc,          \* "start" | "checked" | "grouped" | "done"
  refsExist,   \* both compared branches really exist in the repository
  commits,     \* the commits base..source, oldest first, as the repository holds them
  changed,     \* get_changed_files(): files changed in base...source
  pick,        \* the element list(set)[0] yields per commit in this process
  groups,      \* the dict returned by analyze_and_group_changes
  exitCode     \* sys.exit status, -1 while running

vars == <<pc, refsExist, commits, changed, pick, groups, exitCode>>

CommitLists == BoundedSeq([files : SUBSET Files, msg : CommitMessages], MaxCommits)

Init ==
  /\ pc = "start"
  /\ refsExist = FALSE
  /\ commits = <<>>
  /\ changed = {}
  /\ pick = <<>>
  /\ groups = <<>>
  /\ exitCode = -1

(* run_git_command: a failed git command is reported and yields "", which *)
(* every caller splits into an empty list.  When a compared branch is      *)
(* missing every git command over the branches fails.                      *)
FailureChoices == IF refsExist THEN GitFailures ELSE {TRUE}

GitRead(real, empty, failed) == IF failed THEN empty ELSE real

(* validate_git_history: `name in branch` over the lines of `git branch    *)
(* -a` is a substring test, so a missing branch passes when another branch *)
(* name contains it; when `git branch -a` itself fails the only line is "" *)
(* and both tests fail.  A failed test ends main() with exit code 1; the   *)
(* rev-list and merge-base output is only printed.                         *)
ValidateGitHistory ==
  /\ pc = "start"
  /\ \E exist \in BOOLEAN, shadowed \in BranchShadowing, failed \in GitFailures :
       IF (exist \/ shadowed) /\ ~failed
       THEN /\ pc' = "checked"
            /\ refsExist' = exist
            /\ UNCHANGED exitCode
       ELSE /\ pc' = "done"
            /\ exitCode' = 1
            /\ UNCHANGED refsExist
  /\ UNCHANGED <<commits, changed, pick, groups>>

(* get_commit_info: a failed `git log` gives no commits, a failed `git    *)
(* show` of one commit gives that commit no files.                         *)
ReadCommits(cs, logFailed, showFailed) ==
  GitRead([i \in 1..Len(cs) |->
             [cs[i] EXCEPT !.files = GitRead(@, {}, showFailed[i])]],
          <<>>, logFailed)

(* analyze_and_group_changes groups what get_commit_info and               *)
(* get_changed_files read; `changed` keeps the files the branches really   *)
(* differ in and `commits` the commits it really holds.                    *)
AnalyzeAndGroupChanges ==
  /\ pc = "checked"
  /\ \E cs \in IF refsExist THEN CommitLists ELSE {<<>>},
        ch \in IF refsExist THEN SUBSET Files ELSE {{}},
        logFailed, diffFailed \in FailureChoices :
       \E showFailed \in [1..Len(cs) -> FailureChoices] :
         LET readCs == ReadCommits(cs, logFailed, showFailed)
             readCh == GitRead(ch, {}, diffFailed)
         IN \E p \in PickChoices(readCs) :
              /\ commits' = cs
              /\ changed' = ch
              /\ pick' = p
              /\ groups' = AnalyzeAndGroup(readCh, readCs, p)
  /\ pc' = "grouped"
  /\ UNCHANGED <<refsExist, exitCode>>

(* validate_groupings, then sys.exit(0) or sys.exit(1).  The validator   *)
(* calls get_changed_files() again and checks the groups against that      *)
(* second read, not against the files they were built from.               *)
Validate ==
  /\ pc = "grouped"
  /\ \E diffFailed \in FailureChoices :
       exitCode' = IF ValidateGroupings(groups, GitRead(changed, {}, diffFailed))
                   THEN 0 ELSE 1
  /\ pc' = "done"
  /\ UNCHANGED <<refsExist, commits, changed, pick, groups>>

Next == ValidateGitHistory \/ AnalyzeAndGroupChanges \/ Validate

Spec == Init /\ [][Next]_vars /\ WF_vars(Next)

-----------------------------------------------------------------------------
TypeOK ==
  /\ pc \in {"start", "checked", "grouped", "done"}
  /\ refsExist \in BOOLEAN
  /\ commits \in CommitLists
  /\ changed \in SUBSET Files
  /\ DOMAIN groups \subseteq TicketIds
  /\ \A t \in DOMAIN groups : groups[t] \in Group
  /\ exitCode \in {-1, 0, 1}

Grouped == pc \in {"grouped", "done"} /\ refsExist

(* Totality with fallback (spec section 8): after grouping and co-location *)
(* every changed file is in exactly one group.  Broken when the classifier *)
(* returns a ticket id the assembler then drops.                           *)
Partition == Grouped => IsPartition(groups, changed)

(* Precedence (spec 4.1): each changed file sits in a group the spec's      *)
(* three-tier first-match precedence allows, or in the fallback group.     *)
FollowsPrecedence ==
  Grouped => \A f \in changed : \E t \in DOMAIN groups :
                 f \in groups[t].files /\ t \in SpecTickets(f, commits)

(* Co-location as coded never changes the assembled groups: the files it   *)
(* removes from the docs group are files of another group, which the       *)
(* assembler never also put in the docs group.                             *)
ColocationIsNoop ==
  Grouped => groups = AssembleGroups(changed, commits, pick)

(* The validator accepts exactly the groupings that partition the changed  *)
(* files: exit code 0 after validation iff the groups are a partition.     *)
ValidatorSound ==
  pc = "done" /\ exitCode # -1 /\ refsExist =>
    (exitCode = 0 <=> IsPartition(groups, changed))

(* Determinism (spec section 8): the grouping does not depend on the hash  *)
(* order the process happens to iterate a commit's ticket set in.          *)
Deterministic ==
  Grouped => \A p \in PickChoices(commits) : AnalyzeAndGroup(changed, commits, p) = groups

(* --validate exits 0 only when the branches it compared exist and every  *)
(* file they differ in lies in exactly one group: a successful validation *)
(* means the grouping covers the real change.  Broken by the substring     *)
(* branch test, and by git reads that fail and are taken as empty.         *)
ValidationMeansGrouped ==
  pc = "done" /\ exitCode = 0 => refsExist /\ IsPartition(groups, changed)
=============================================================================
