# TLA+ models of `create_unomi_prs.py`

`src/create_unomi_prs.py` compares two git branches and sorts the changes into
UNOMI-ticket groups. It checks that the groups cover every changed file once.
Then it opens one pull request per group, in a fixed dependency order. This
directory models the program for the TLC model checker.

## Inventory

| Component | Code | State | Operations |
|---|---|---|---|
| History provider | `run_git_command`, `validate_git_history`, `get_commit_info`, `get_changed_files` (449-529) | the repository: branches, commits base..source, diff base...source | branch check (substring test), commit list oldest first, changed-file list; a failing git command yields `""` |
| Rule registry | `self.unomi_groups` (81-447), `doc_mappings` (562-574), `dependency_order` (964-1003) | static tables | none |
| Classifier | `classify_file_to_unomi_ticket` (531-555) | none (pure) | explicit ticket of the first touching commit with tickets, else first path rule, else first commit-message rule, else None |
| Grouping assembler | `analyze_and_group_changes` (598-662) | the `groups` dict | one group per registered ticket that got files, plus UNOMI-908 for unmapped files |
| Documentation co-locator | `ensure_documentation_colocation` (557-596) | mutates `groups["UNOMI-882"].files` | removes from the docs group the doc files of each other group |
| Validator | `validate_groupings` (664-710) | none | overlap and omission count, exit code in `--validate` |
| Sequencer / PR loop | `create_all_prs` (959-1031) | success / failure counters | walks `dependency_order`, skips absent or empty groups |
| PR creation | `create_pr_for_group`, `apply_file_changes` (785-882) | the git working tree, local branches, pushed branches, PRs | checkout base, pull, checkout or create branch, apply patch, `git add .`, commit, push, `gh pr create` |
| Summary / simulation | `show_unomi_summary`, `simulate_pr_creation` (712-783) | none | printing; the summary divides by `len(groups)`, and the simulation prints its own sorted order |
| PR text | `generate_pr_body` (884-957) | none | formatting only |

How the parts interact: `main` calls the components one after another in a
single thread: branch check, then grouping (classifier, assembler, co-locator),
then either the validator, the summary, the simulation, or the PR loop. There is
no concurrency inside one process. Two things make the program hard to test:

- the data: the precedence between tiers, ticket ids missing from the
  registry, commits naming several tickets, and the hash order of a Python set;
- the external effects of the PR loop: git and gh calls whose failures are
  swallowed, a working tree shared from one group to the next, and re-runs
  over a repository that an earlier, possibly interrupted run changed.

What makes each part correct (spec sections 4 and 8): the classifier follows
the three-tier precedence; after co-location the groups partition the changed
files; the validator accepts exactly the partitions; grouping is deterministic;
every group with files gets a PR; each PR holds only its own group's files; a
failure of one group does not stop the others; a PR counted as created exists;
the emission order is phase, then priority, then ticket id.

## Modules

- `UnomiGrouping` holds the constants and pure operators. `ClassifyFile` models
  the classifier, `AssembleGroups` the assembler, `Colocate` the co-locator and
  `ValidateGroupings` the validator. It also holds the reference definitions of
  the spec: `IsPartition`, and `SpecTickets` for the section 4.1 precedence.
  Paths and messages are model values. What the code asks of a path is which
  rules' patterns match it (`PathMatch`) and which doc-mapping targets it has
  (`DocTargets`). What it asks of a message is the ids `re.findall` extracts
  (`MsgTickets`) and the rules whose commit patterns match (`MsgMatch`). The MC
  modules compute these sets from the real regular expressions for realistic
  paths, for example `rest/TenantResource.java` or `manual/cluster.adoc`. The
  element `list(set)[0]` returns is a parameter `pick`, because the order
  depends on the process's hash seed.
- `UnomiTables` holds the source's registry order, priorities,
  `needs_new_ticket` flags and the five phases of `dependency_order`.
- `UnomiValidate` models `main` with `--validate`. Its actions are
  `ValidateGitHistory`, `AnalyzeAndGroupChanges` and `Validate`. The inputs are
  chosen in the analysis step: any commit list up to `MaxCommits`, any
  changed-file set and any `pick`. If a branch is missing, every git command
  fails and the inputs are empty. `GitFailures` lets a git command fail on
  existing branches as well; `run_git_command` then returns `""`, which
  `GitRead` turns into an empty list. A failed `git branch -a` fails the
  branch check. `ReadCommits` models a failed `git log` (no commits) and a
  failed `git show` of one commit (no files for it). A failed `git diff` gives
  the grouping no files. `changed` and `commits` keep what the repository
  really holds; the groups are built from what was read. `Validate` reads the diff a second time, as `validate_groupings` does at
  line 668, and that read may fail too.
- `UnomiPrCreator` extends `UnomiValidate` with all modes of `main`. The
  mode is a variable chosen at start from `Modes`: the branch `main` takes,
  `--validate` before `--summary` before `--simulate`, else PR creation.
  `ValidateMode` is `Validate` in that dispatch. `ShowUnomiSummary` is
  `--summary`: its only effect on state is the exit status, 1 when the division
  by `len(groups)` raises `ZeroDivisionError`. `SimulatePrCreation` is
  `--simulate`, and `SimulatedOrder` is the order it prints, Python's
  `sorted` by (priority, ticket id), written with `SetToSortSeq`. The default
  mode follows. `EmitNext` is
  one iteration of `create_all_prs`, and `CreatePrForGroup` is all of
  `create_pr_for_group` in one step. It has one disjunct per way the function
  returns: nothing to commit, commit rejected, committed (with every push and gh
  outcome), and interrupted before the commit. The repository is abstracted to
  five parts: `dirty` (uncommitted files), `branches` (files committed per
  ticket branch), `baseFiles` (group files committed onto the local base
  branch, which new branches are cut from), `remote` (files pushed per
  branch) and `prs`. `ShadowedBranches` names the tickets whose branch name
  is part of another branch's name: the code's substring test then takes the
  branch as existing, `git checkout` of it fails, and the base branch stays
  checked out (`CheckedOut`). `Rerun` runs the
  tool again over the repository the last run left. The re-run is a new
  process, so it regroups with a fresh `list(set)[0]` choice. `FaultyRuns`
  names the invocations in which git, gh and the user may fail. In the other
  invocations every commit, push and `gh pr create` succeeds, `git apply`
  applies all that is not yet committed, and nothing is interrupted.
- `PrLoop` is the abstract specification of the PR loop. A run hands every
  eligible group to PR creation exactly once, in phase-list order. An eligible
  group is a phase-list ticket whose group has files. A pull request opens only
  for the group being handled, and none ever closes. The loop ends, having
  handled every eligible group, unless the user interrupts it: `Stop` is the
  only early exit, and it marks the run `interrupted`. `UnomiPrCreator`
  instantiates it with a refinement mapping:
  - `running` is `pc = "emitting"`;
  - `eligible` is the phase-list tickets with files;
  - `handled` is `DOMAIN results`;
  - `open` is `prs`;
  - `interrupted` is `pc = "interrupted"`, which only the interruption
    disjunct of `CreatePrForGroup` sets.

  `PrLoopRefined` checks `PrLoop`'s specification, its fairness included, as a
  property of `PrSpec`.
- `MCUnomiValidate` and `MCUnomiPrCreator` give the constants their values.
  Each cfg picks the paths and messages it uses from them.

## Runs

| Run | Expect | Shows |
|---|---|---|
| grouping_registered | pass | with single, registered ticket ids: `Partition`, `FollowsPrecedence` (each file in the group the spec's precedence picks), and `ColocationIsNoop`: co-location never changes anything, so `manual/cluster.adoc` stays in UNOMI-882 while UNOMI-877 is emitted |
| validator_all | pass | over all inputs, `--validate` exits 0 exactly when the groups partition the files (`ValidatorSound`). The groups the code can assemble never overlap, so only the omission half of the validator is exercised |
| grouping_unregistered_ticket | violation | `Partition`: a commit naming UNOMI-999 makes its files disappear from every group |
| grouping_hash_order | violation | `Deterministic`: a commit naming UNOMI-139 and UNOMI-880 is grouped by hash order |
| validate_false_success | violation | `ValidationMeansGrouped` (exit 0 means the branches exist and the groups partition the real diff): a missing branch passes the substring check and `--validate` exits 0 on an empty diff. With `BranchShadowing = {FALSE}`, both diff reads fail on existing branches (as `git diff base...source` does without a merge base) and `--validate` exits 0 with every changed file ungrouped |
| emission | pass | In all four modes, with commits that succeed and no interruption: `BranchesHoldOwnFiles` holds across push and gh failures, partial applies and a re-run. This is the normal path only: new branches are cut from the base and only the group's files are applied. Every cause of leftover changes (rejected commits, interruptions, shadowed branch names, two-ticket messages) is off here and shown by `emission_leftover_changes`. `PrLoopRefined` holds: the loop implements `PrLoop` |
| emission_failures | pass | With rejected commits, push and gh failures and one interruption, `PrLoopRefined` still holds. Since `PrLoop`'s only early exit is an interruption, no group's failure stops, repeats or reorders the others, and the loop ends having handled every eligible group. A `break` after a failed group (mutant `RecordBreakOnFailure`) violates it |
| emission_leftover_changes | violation | `BranchesHoldOwnFiles`: a group's files end up on another group's branch or on the base branch. Four causes: changes a rejected commit leaves staged; changes an interruption leaves applied, followed by a re-run; a re-run whose hash order puts a two-ticket commit's file in the other group; and (the trace printed) a branch name such as `unomi-878-implementation-old` that contains the ticket's branch name, so the checkout fails and the group is committed onto the base branch. The last cause remains with `FaultyRuns = {}` and `CommitMessages = {n1}` |
| emission_success_unpublished | violation | `SuccessMeansPublished`: a group is counted successful when its push failed. With `PushOutcomes = {"ok"}`, also when only part of its patch applied |
| rerun_no_recovery | violation | `CleanRunPublishesAll`: run 1's push fails, and a clean run 2 takes the "nothing to commit" path. The group never gets a PR |
| summary_empty_diff | violation | `SummaryExitsZero`: `--summary` with no changed files dies with `ZeroDivisionError`, exit 1 |
| simulation_vs_creation | violation | `CreationFollowsSimulation`: `--simulate` lists UNOMI-904 (`PermissionCheck.java`), which `create_all_prs` never creates. With `Files = {p1, p2}`, UNOMI-880 is created before UNOMI-878, while the simulation lists 878 first |

A violation run prints one trace: the first TLC finds. Where a row names a
second cause, it was confirmed by running the cfg with the change the row
states.

Every property of a passing run has a mutant in `PROJECT.json`: a plausible bug
in the mapped code that TLC catches. The findings in `PROJECT.json` say what
each violation means for the code.

### Bounds

- Grouping runs use 3 files and 6 messages, with up to 2 commits. Each message
  plays a distinct role: single registered ticket, message pattern only,
  neither, unregistered id, or two ids. Two commits are enough to order an
  explicit ticket against a message match, and to put a ticketless and a
  ticketed commit on the same file.
- Emission runs use 3 files whose groups are UNOMI-878, UNOMI-880 (same phase)
  and UNOMI-904 (not in the list). They have 1 commit and 2 runs of the tool.
  `MaxInterrupts` is 0 or 1.
  - Up to two groups are emitted in one run. That is the least needed for one
    group's leftovers to reach the next.
  - `emission_success_unpublished` uses two UNOMI-878 files instead, so that a
    partial apply is possible.
  - `emission_leftover_changes` shadows UNOMI-878's branch name and adds the
    two-ticket message `n3`, so that a
    re-run can regroup a file.
  - `rerun_no_recovery` makes only run 1 faulty.
- `validate_false_success` sets `GitFailures` to `{FALSE, TRUE}`: any of `git branch -a`, `git log`, each `git show` and both
  `git diff` reads may fail. The other grouping runs keep git reliable, since
  their properties are about the grouping of what the repository holds.

### Fairness

The whole program runs in one thread and never waits on another actor. So
every step of `main` and of the loop is weakly fair while the process runs.
Interruptions and re-runs come from the user and are not fair. `EmitNext` is
fair only in its steps that keep the process running, because one of its
disjuncts is the interruption. `PrLoop` asks only for weak fairness of its
loop step, and this fairness implies it.
`CHECK_DEADLOCK FALSE` is set because the program really terminates: after
exit there is no next step.

## Not modelled

- Regular-expression matching itself: it is replaced by match sets computed
  from the real patterns.
- Message, title and PR-body text.
- The patch file `/tmp/unomi_pr.patch` and git's content-level merges. A 3-way
  apply is any subset of the group's files.
- The text `--summary` and `--simulate` print. Only their exit status and the
  simulated order are modelled.
- Whether git's content-level apply succeeds in a clean invocation. It is
  assumed to apply exactly the changes the branch does not have yet.
- A `git checkout` refused because carried changes would be overwritten.
  Whether git refuses depends on file contents (it accepts when the staged
  content equals the target's), which the model does not track; every
  checkout is taken to succeed.
- Git failures in the PR-creation modes. Their cfgs set `GitFailures = {FALSE}`;
  the failures of `create_pr_for_group`'s own git and gh calls are modelled by
  `FaultyRuns`.
- `get_commit_info`'s line parsing. `%H|%s` always yields a `|` and a one-line
  subject, so no line is skipped; what parsing can produce is exactly
  `CommitLists` with the failures of `ReadCommits`.
- The spec's Sequencer (section 4.5) as a separate algorithm. The code has no
  such sort: it has `dependency_order` and `--simulate`'s `sorted`, both
  modelled, and `simulation_vs_creation` compares them with the spec's order.

## Plan

1. Done: the grouping operators, the `--validate` flow, and the PR loop with
   git failures, interruptions and re-runs.
2. Done: the `--summary` and `--simulate` modes, and publication completeness
   under partial applies. Also a re-run fault model (`FaultyRuns`), including
   regrouping by a new process, and the abstract `PrLoop` with its refinement.
3. Done: git failures in the history reads and the validator's second diff
   read (`GitFailures`, `ValidationMeansGrouped`), and the `--validate` branch
   of the mode dispatch in `UnomiPrCreator`. `get_commit_info`'s parsing and
   the spec's Sequencer were dropped: see "Not modelled".
4. Done: the substring test of `create_pr_for_group`'s branch check, which commits a
   group onto the base branch (`baseFiles`, `BranchesHoldOwnFiles`).
5. Left: a failed `git show` silently regrouping a commit's files (hazard at
   line 511). A property relating the groups to the repository's real commits
   would show it; it is not spec 8's determinism, which assumes identical
   input. Also left: the PR text, and git's content-level behaviour (`git pull` moving
   the base, 3-way merges, refused checkouts). See "Not modelled".
