--------------------------- MODULE UnomiPrCreator ---------------------------
(***************************************************************************)
(* main() of create_unomi_prs.py run without a mode flag: after the branch *)
(* check and the grouping of UnomiValidate, create_all_prs walks the fixed *)
(* dependency_order list and calls create_pr_for_group for every ticket    *)
(* that has a non-empty group.  Each call drives git and gh; their         *)
(* failures are swallowed (run_git_command returns "") or caught.          *)
(*                                                                         *)
(* The repository is abstracted to which group files' changes are where:  *)
(* uncommitted in the working tree (dirty), committed on a local ticket    *)
(* branch on top of the base branch (branches), pushed (remote), and which *)
(* tickets have an open pull request (prs).  Branch "<ticket>-implementation" *)
(* is written as its ticket.  The process may be interrupted and run again *)
(* over the same repository.                                               *)
(***************************************************************************)
EXTENDS UnomiValidate

CONSTANTS
  DependencyPhases,  \* <<<<ticket, ...>>, ...>>: the five slices of dependency_order
  TicketLexOrder,    \* every ticket id in str order (Python's < on the ids)
  Base,              \* the base branch
  CommitOutcomes,    \* results `git commit` may have: "ok", "rejected"
  PushOutcomes,      \* results `git push` may have: "ok", "fatal"
  GhOutcomes,        \* results of `gh pr create`: "created", "error", "absent"
  MaxInterrupts,     \* bound on interruptions of the process
  MaxRuns,           \* bound on invocations of the tool over the same repository
  FaultyRuns,        \* the invocations in which git, gh or the user may fail
  ShadowedBranches,  \* tickets whose "<ticket>-implementation" is part of another branch name
  Modes              \* the mode main() dispatches to: "validate", "summary", "simulate", "execute"

DependencyOrder == FlattenSeq(DependencyPhases)
DependencyPos(t) == SelectInSeq(DependencyOrder, LAMBDA u : u = t)

ASSUME /\ Base \notin TicketIds
       /\ CommitOutcomes \subseteq {"ok", "rejected"} /\ "ok" \in CommitOutcomes
       /\ PushOutcomes \subseteq {"ok", "fatal"}
       /\ GhOutcomes \subseteq {"created", "error", "absent"}
       /\ MaxInterrupts \in Nat /\ MaxRuns \in Nat \ {0}
       /\ FaultyRuns \subseteq 1..MaxRuns
       /\ ShadowedBranches \subseteq TicketIds
       /\ Modes \subseteq {"validate", "summary", "simulate", "execute"} /\ Modes # {}

VARIABLES
  head,       \* checked-out branch
  dirty,      \* files with uncommitted (staged or not) changes
  branches,   \* [ticket branch -> files committed on it on top of the base]
  remote,     \* [ticket branch -> files of the pushed branch]
  prs,        \* tickets with an open pull request
  baseFiles,  \* files committed onto the local base branch
  idx,        \* position of create_all_prs in dependency_order
  results,    \* [ticket -> "success" | "failed"]: this run's create_pr_for_group results
  interrupts, \* interruptions so far
  runs,       \* invocations so far
  mode        \* the mode flag of the invocations

gitVars == <<head, dirty, branches, remote, prs, baseFiles>>
loopVars == <<idx, results, interrupts, runs, mode>>
allVars == <<vars, gitVars, loopVars>>

PrInit ==
  /\ Init
  /\ head = Base /\ dirty = {} /\ branches = <<>> /\ remote = <<>> /\ prs = {}
  /\ baseFiles = {}
  /\ idx = 1 /\ results = <<>> /\ interrupts = 0 /\ runs = 1
  /\ mode \in Modes

(* In an invocation without faults every git and gh call succeeds and the *)
(* user lets it run to the end.                                            *)
Faulty == runs \in FaultyRuns
Outcomes(S, ok) == IF Faulty THEN S ELSE {ok}

-----------------------------------------------------------------------------
(* Mutant: the new branch is cut from whatever is checked out.             *)
PrepareBranchFromHead(t, hd, brs) ==
  IF t \in DOMAIN brs \/ t \in ShadowedBranches THEN brs
  ELSE (t :> IF hd = Base THEN baseFiles ELSE brs[hd]) @@ brs

(* `git checkout base`, `git pull`, then `git checkout <branch>` when the   *)
(* output of `git branch -a` contains its name, else `git checkout -b      *)
(* <branch>` from the base.  When the name is only part of another branch  *)
(* name the checkout fails, "" is returned and the base stays checked out. *)
(* Uncommitted changes are carried across each checkout.                   *)
PrepareBranch(t, hd, brs) ==
  IF t \in DOMAIN brs \/ t \in ShadowedBranches THEN brs ELSE (t :> baseFiles) @@ brs

(* The branch checked out after PrepareBranch, and what it has committed. *)
CheckedOut(t, brs) == IF t \in DOMAIN brs THEN t ELSE Base
CommittedOn(b, brs) == IF b = Base THEN baseFiles ELSE brs[b]

(* apply_file_changes: `git apply` of the per-file diffs is all or nothing; *)
(* when it fails `git apply --3way` may apply any part.  Changes already    *)
(* committed on the branch do not apply again.                             *)
ApplyOutcomes(t, brs) ==
  LET todo == groups[t].files \ CommittedOn(CheckedOut(t, brs), brs)
  IN IF Faulty THEN SUBSET todo ELSE {todo}

RecordBreakOnFailure(t, r) ==
  /\ results' = (t :> r) @@ results
  /\ idx' = IF r = "failed" THEN Len(DependencyOrder) + 1 ELSE idx + 1

(* successful_prs / failed_prs are counted and the loop moves on. *)
Record(t, r) ==
  /\ results' = (t :> r) @@ results
  /\ idx' = idx + 1

(* Mutant: the pull request opens whether or not the branch was pushed. *)
GhPrCreateAnyBranch(t, gh, rem) == IF gh = "created" THEN prs \cup {t} ELSE prs

(* `gh pr create --head <branch>` opens a pull request only for a branch  *)
(* the remote has.                                                         *)
GhPrCreate(t, gh, rem) == IF gh = "created" /\ t \in DOMAIN rem THEN prs \cup {t} ELSE prs

(* create_pr_for_group(ticket, group), with every way it returns.          *)
CreatePrForGroup(t) ==
  LET brs == PrepareBranch(t, head, branches)
      on == CheckedOut(t, brs)
  IN
  \E applied \in ApplyOutcomes(t, brs) :
    LET staged == dirty \cup applied   \* `git add .` stages everything
    IN
    \/ \* `git commit` reports "nothing to commit": back to the base, False
       /\ staged = {}
       /\ head' = Base /\ dirty' = {} /\ branches' = brs
       /\ UNCHANGED <<remote, prs, baseFiles>>
       /\ Record(t, "failed") /\ UNCHANGED <<interrupts, runs, mode, pc>>
    \/ \* `git commit` fails otherwise: False, branch and staged changes stay
       /\ staged # {} /\ "rejected" \in Outcomes(CommitOutcomes, "ok")
       /\ head' = on /\ dirty' = staged /\ branches' = brs
       /\ UNCHANGED <<remote, prs, baseFiles>>
       /\ Record(t, "failed") /\ UNCHANGED <<interrupts, runs, mode, pc>>
    \/ \* committed; the push result is never acted on (the test
       \* `not push_result and "fatal" in push_result` is always false);
       \* gh's exit status is ignored, a missing gh raises and is caught;
       \* `git push -u origin <branch>` fails when no local branch has the name
       /\ staged # {}
       /\ head' = on /\ dirty' = {}
       /\ branches' = IF on = t THEN [brs EXCEPT ![t] = @ \cup staged] ELSE brs
       /\ baseFiles' = IF on = Base THEN baseFiles \cup staged ELSE baseFiles
       /\ \E push \in Outcomes(PushOutcomes, "ok"), gh \in Outcomes(GhOutcomes, "created") :
            /\ remote' = IF push = "ok" /\ on = t THEN (t :> branches'[t]) @@ remote ELSE remote
            /\ prs' = GhPrCreate(t, gh, remote')
            /\ Record(t, IF gh = "absent" THEN "failed" ELSE "success")
       /\ UNCHANGED <<interrupts, runs, mode, pc>>
    \/ \* the process is interrupted before the commit
       /\ Faulty /\ interrupts < MaxInterrupts
       /\ head' = on /\ dirty' = staged /\ branches' = brs
       /\ UNCHANGED <<remote, prs, baseFiles, idx, results, runs, mode>>
       /\ interrupts' = interrupts + 1
       /\ pc' = "interrupted"

(* main() dispatches to create_all_prs. *)
StartCreateAllPrs ==
  /\ pc = "grouped" /\ mode = "execute"
  /\ pc' = "emitting"
  /\ UNCHANGED <<refsExist, commits, changed, pick, groups, exitCode, gitVars, loopVars>>

(* One iteration of the loop over dependency_order. *)
EmitNext ==
  /\ pc = "emitting" /\ idx <= Len(DependencyOrder)
  /\ LET t == DependencyOrder[idx] IN
     IF t \in DOMAIN groups /\ groups[t].files # {}
     THEN CreatePrForGroup(t)
     ELSE \* "Skipping ... not found in groups" / "no files"
          /\ idx' = idx + 1
          /\ UNCHANGED <<pc, gitVars, results, interrupts, runs, mode>>
  /\ UNCHANGED <<refsExist, commits, changed, pick, groups, exitCode>>

(* The loop is over: the summary is printed and main() returns. *)
FinishCreateAllPrs ==
  /\ pc = "emitting" /\ idx > Len(DependencyOrder)
  /\ pc' = "finished" /\ exitCode' = 0
  /\ UNCHANGED <<refsExist, commits, changed, pick, groups, gitVars, loopVars>>

(* The tool is run again over the same repository.  Its branch check sees *)
(* the same refs and its grouping the same commits and files; being a new *)
(* process, its list(set)[0] may pick differently.  The git state is what *)
(* the last run left.                                                      *)
Rerun ==
  /\ pc \in {"interrupted", "finished"} /\ runs < MaxRuns
  /\ runs' = runs + 1
  /\ pc' = "emitting" /\ exitCode' = -1
  /\ idx' = 1 /\ results' = <<>>
  /\ \E p \in PickChoices(commits) :
       /\ pick' = p
       /\ groups' = AnalyzeAndGroup(changed, commits, p)
  /\ UNCHANGED <<refsExist, commits, changed, gitVars, interrupts, mode>>

(* priority_order.get(group.priority, 4); UNOMI-908 is created as LOW. *)
PriorityRank(t) ==
  LET p == IF t = MiscTicket THEN "LOW" ELSE Priority[t]
  IN CASE p = "CRITICAL" -> 0 [] p = "HIGH" -> 1 [] p = "MEDIUM" -> 2 [] p = "LOW" -> 3
Rank(t) == SelectInSeq(TicketLexOrder, LAMBDA u : u = t)
KeyBefore(a, b) == a[1] < b[1] \/ (a[1] = b[1] /\ a[2] < b[2])

(* sorted(groups.items(), key=lambda x: (priority_order.get(...), x[0])):  *)
(* the order in which simulate_pr_creation lists "PR 1", "PR 2", ...       *)
SimulatedOrder(gs) ==
  SetToSortSeq(DOMAIN gs, LAMBDA a, b : KeyBefore(<<PriorityRank(a), Rank(a)>>,
                                                  <<PriorityRank(b), Rank(b)>>))

(* show_unomi_summary: splits the groups into existing and new tickets,   *)
(* prints each sorted by priority and the totals, the last of which is    *)
(* total_files / len(groups).  For an empty grouping that division raises *)
(* ZeroDivisionError, which nothing catches: the process exits with 1.    *)
ShowUnomiSummary ==
  /\ pc = "grouped" /\ mode = "summary"
  /\ pc' = "done"
  /\ exitCode' = IF DOMAIN groups = {} THEN 1 ELSE 0
  /\ UNCHANGED <<refsExist, commits, changed, pick, groups, gitVars, loopVars>>

(* main(): --validate takes precedence over --summary, which takes        *)
(* precedence over --simulate; without any of them PRs are created.  The  *)
(* mode is the branch main() takes, whatever combination of flags chose it.*)
ValidateMode ==
  /\ mode = "validate" /\ Validate
  /\ UNCHANGED <<gitVars, loopVars>>

(* simulate_pr_creation prints every group in SimulatedOrder and returns. *)
SimulatePrCreation ==
  /\ pc = "grouped" /\ mode = "simulate"
  /\ pc' = "done" /\ exitCode' = 0
  /\ UNCHANGED <<refsExist, commits, changed, pick, groups, gitVars, loopVars>>

PrNext ==
  \/ (ValidateGitHistory \/ AnalyzeAndGroupChanges) /\ UNCHANGED <<gitVars, loopVars>>
  \/ StartCreateAllPrs
  \/ EmitNext
  \/ FinishCreateAllPrs
  \/ Rerun
  \/ ValidateMode
  \/ ShowUnomiSummary
  \/ SimulatePrCreation

(* main() is one thread: while the process runs it keeps going. *)
PrSpec ==
  /\ PrInit /\ [][PrNext]_allVars
  /\ WF_allVars(ValidateGitHistory /\ UNCHANGED <<gitVars, loopVars>>)
  /\ WF_allVars(AnalyzeAndGroupChanges /\ UNCHANGED <<gitVars, loopVars>>)
  /\ WF_allVars(StartCreateAllPrs)
  /\ WF_allVars(EmitNext /\ pc' = pc)
  /\ WF_allVars(FinishCreateAllPrs)
  /\ WF_allVars(ValidateMode)
  /\ WF_allVars(ShowUnomiSummary)
  /\ WF_allVars(SimulatePrCreation)

-----------------------------------------------------------------------------
GroupFiles(t) == IF t \in DOMAIN groups THEN groups[t].files ELSE {}

PrTypeOK ==
  /\ pc \in {"start", "checked", "grouped", "emitting", "interrupted", "finished", "done"}
  /\ head \in {Base} \cup DOMAIN branches
  /\ dirty \subseteq Files
  /\ DOMAIN branches \subseteq Range(DependencyOrder)
  /\ \A t \in DOMAIN branches : branches[t] \subseteq Files
  /\ DOMAIN remote \subseteq DOMAIN branches
  /\ prs \subseteq DOMAIN remote
  /\ baseFiles \subseteq Files
  /\ idx \in 1..Len(DependencyOrder) + 1
  /\ \A t \in DOMAIN results : results[t] \in {"success", "failed"}
  /\ interrupts \in 0..MaxInterrupts /\ runs \in 1..MaxRuns /\ mode \in Modes

(* No group's branch, local or pushed, carries another group's changes,  *)
(* and none is committed onto the base branch, which every new branch is  *)
(* cut from: the spec's rule that no two groups' pull requests claim the  *)
(* same file, across every order of git failures, interruptions and       *)
(* re-runs.                                                                *)
BranchesHoldOwnFiles ==
  /\ baseFiles = {}
  /\ \A t \in DOMAIN branches : branches[t] \subseteq GroupFiles(t)
  /\ \A t \in DOMAIN remote : remote[t] \subseteq GroupFiles(t)

(* The loop of create_all_prs implements PrLoop: in each run it hands     *)
(* every phase-list group with files to create_pr_for_group once, in      *)
(* phase-list order, a pull request opens only for the group being        *)
(* handled, and the loop ends, having handled them all, unless the user   *)
(* interrupts the process: no failure of a group ends the loop early.     *)
(* Failed groups, git failures and re-runs over a changed repository      *)
(* included.                                                               *)
Eligible == {t \in Range(DependencyOrder) : GroupFiles(t) # {}}
Abstract == INSTANCE PrLoop WITH Order <- DependencyOrder,
              running <- pc = "emitting", eligible <- Eligible,
              handled <- DOMAIN results, open <- prs,
              interrupted <- pc = "interrupted"
PrLoopRefined == Abstract!LoopSpec

(* A group counted among the successful PRs has a pull request whose      *)
(* pushed branch holds exactly its group's files.                          *)
SuccessMeansPublished ==
  \A t \in DOMAIN results :
     results[t] = "success" => t \in prs /\ remote[t] = GroupFiles(t)

(* Re-running the tool completes what a failed run left: after a run in   *)
(* which no git or gh call failed, every group it handled has a pull      *)
(* request whose pushed branch holds its files.                            *)
CleanRunPublishesAll ==
  pc = "finished" /\ ~Faulty =>
    \A t \in DOMAIN results : t \in prs /\ remote[t] = GroupFiles(t)

(* --summary exits 0 whenever the branch check passed (spec section 6:    *)
(* non-zero only for a failed validation or a missing reference).         *)
SummaryExitsZero == pc = "done" /\ mode = "summary" /\ refsExist => exitCode = 0

(* --simulate previews PR creation: create_all_prs attempts the groups    *)
(* --simulate lists, in the order it lists them.                           *)
CreatedOrder == SetToSortSeq(DOMAIN results, LAMBDA a, b : DependencyPos(a) < DependencyPos(b))
CreationFollowsSimulation == pc = "finished" => CreatedOrder = SimulatedOrder(groups)
=============================================================================
