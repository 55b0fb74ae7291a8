# Formal models of agent-runner-codex

`agent-runner-codex` is a provider: a host (the agent runner) starts one process of it per
request, on the same machine and over the same directories, so that any number of provider
processes, Codex processes and Bash bridges run at once and share files. Most of what can go
wrong lives there: in files that several processes publish, lock and read, in processes that
are killed between two system calls, and in pages, turns and tool calls that are answered
while the thing they are about goes on changing. This directory models those parts in TLA+,
checks them with TLC on small instances and proves the most important properties with TLAPS
for all instances.

File names below are relative to the repository's root (`src/launch.rs`); `PROJECT.json`, which
indexes the project, prefixes them with the checkout's directory. `PROJECT.json` also gives the source lines of every
definition, the runs, the seeded mistake that each property catches, and the hazards.

## The system

| Component | Source | State | Operations | Modelled in |
|---|---|---|---|---|
| Observation cursor authority | `src/session_turn_pages/observation.rs` | the scope's directory: `key`, `key.preparing`; a lock on the directory | `key` → lock, prepare, publish, validate, sync | `ObservationKey`, `SigningAuthority` |
| Canonical staging store | `src/session_turn_pages.rs` | packs of frames, staged prefixes, temporary files, legacy cursors; a directory lock | load, stage a prefix, reserve, scan, append, sync | `StagingStore` |
| Incremental paging | `src/session_turn_pages.rs`, `observation.rs` | none of its own: everything is in the token | `read_turns`: validate token, read a window, split records, answer a page | `TurnPaging` |
| Bash bridge and Bash tool | `integrations/codex/agent-bash-mcp.ts`, `integrations/opencode/tools/bash.ts` | per bridge: the bound session, the shared live-session report, calls in flight | call, cancel, close; dispatch, poll, settle, cancel a workload | `BashTool` |
| Headless launch | `src/launch.rs`, `src/terminal.rs`, `src/native_process.rs` | session locks, session files; through the SDK: request locks, records, receipts, process groups | prepare, translate output, finish, discard | `Launch` |
| Resident sessions | `src/resident.rs` | the `configs` directory of recorded templates | prepare, serve | `Resident` |
| Session lookup, enumeration, capture | `src/session.rs` | none: reads Codex's rollouts | locate, enumerate, capture, read | `Population`; guards of `Launch` and `TurnPaging` |
| Session registration | `integrations/codex/session-registration.ts`, `agent-bash-mcp.ts` | the bound thread; per report a socket and a deadline | report until acknowledged, hook, dispatch | `Registration`; its outcome in `BashTool` |
| Integration payload, interactive launch | `src/registration.rs`, `src/interactive.rs` | a private directory per launch | load configuration, stage, declare, exec | `ManagedTui`, `Environment` |
| Installers | `scripts/install-provider.py`, `scripts/install-labels.py` | four installed paths and a backup | back up, replace, read back, restore | `Installation` (the provider's) |
| Quota probe | `src/quota.rs` | one child process and its output file | poll, bound, kill | `QuotaProbe` |
| Policy and accounts | `src/policy.rs`, `account.rs` | none; what they decide goes into the environment of the next process | plan, evaluate, load | `Environment`, `Nesting`; `ManagedTui` |
| Models, settings, discovery, dispatch, envelopes | `models.rs`, `discovery.rs`, `dispatch.rs`, `envelope.rs`, `encoding.rs`, `main.rs` | none | validate, decode, encode | not modelled: pure functions of one request |

How they interact:

- A **launch** checks that the thread to resume belongs to the account (session lookup), holds
  the thread's lock, and makes a session file. The **Bash bridge** that Codex starts reads its
  session from its environment or waits for it in that file (`BridgeBinds` in `Launch`; the
  bridge then starts from `Resumed` in `BashTool`). The file is the only channel between them.
- A **resident** endpoint runs every turn as a launch of the recorded template, under the state root of
  its session (`launch.rs` 444-446, `resident.rs` 169). The lock of a resumed thread lies in that root too: turns of one
  session take turns, but a resident turn and a launch of the host do not meet at a lock (see Findings).
- **Paging** hands out tokens. A canonical token names a cursor in the **staging store**; an
  observation token carries its cursor and is signed with the **authority**'s key. `TurnPaging`
  takes a token to be its cursor, and the two other modules say why it may: a token that was
  issued can be loaded for ever, and every process signs with the same key for ever.
- Turns **nest**: a command of a turn may start the runner, which starts a provider, which starts
  Codex again. What passes from one to the next is the environment, which `policy.rs`, `launch.rs`,
  `interactive.rs`, `quota.rs` and the bridge's `sessionId` read and write by key. `Nesting` puts them together.
- An **installer** replaces files that a running TUI's bridge and hooks are started from. `ManagedTui`
  composes `Installation`, the launch that stages its own copy, and `Registration`, which that copy runs.
- The **SDK** (`agent-provider-sdk`, not in this repository) owns request custody. It is modelled in `Launch` from
  how `src/launch.rs` uses it and what `tests/codex_launch.rs` observes, and marked external.

What is hard: processes that interleave at every system call; death between any two of them
and loss of power, with what was not synced undone; torn appends; locks that the kernel drops
when their holder dies while the Codex group it started lives on; answers that are lost and
asked for again after the file has grown; files that are replaced or cut under a reader;
values inherited from a process that was launched for something else; installations that are
replaced, half replaced or restored under a running TUI; peers that never answer; aborts that arrive at any `await`; and limits that must hold although no ledger survives a
crash.

## Modules

Every module names the source functions in its header, and each action carries the name of the
step it models. Actions are the stretches of code that nothing else can interleave with: from
one system call to the next in Rust, from one `await` to the next in TypeScript. Definitions
marked `Variant` are deliberate mistakes (a dropped guard, a skipped sync, a swapped order):
no specification uses them; each stands for a plausible bug that one property must catch.

### `ObservationKey`, `SigningAuthority`: one signing identity per scope

`key_with_observer` and `prepare_and_publish`, one action per system call: `Acquire` the
directory lock, `FindPublished` or `BeginPreparation`, `DiscardResidue` of an earlier
initializer, `CreateCandidate`, `WriteSome`/`WriteAll`, `SyncCandidate`, `Rename`, then `ReadKey`,
`SyncKey`, `SyncDirectory` and `Return`. A file is the random key it is meant to hold, with how
much of it is written and whether it is synced. The directory is modelled twice: as processes
see it (`dir`) and as the set of directories that a loss of power may bring back (`onDisk`).
Killed processes, losses of power and damage by another program are faults, together at most
`MaxFaults`. `SigningAuthority` is the promise: a write-once authority that every request
that is granted a key is granted. `ObservationKey` implements it (`ImplementsAuthority`), where the abstract
authority is the key that *every* possible directory on disk agrees on.

### `StagingStore`: tokens that survive

`StagingAdmission`, `stage_partial`, `persist`, `scan_pack` and `load`. A request locks the
directory, loads its token, stages the prefix its new cursor needs, looks for the cursor's
frame, reserves room by measuring the directory, cuts a torn tail, appends, and syncs pack and
directory before it answers. Contents are identities, and sizes are quanta (`FrameLength`,
`PrefixLength`, `MaxBytes`, `MaxObjects`); an append may stop after any quantum.

### `TurnPaging`: every turn once

`read_turns_with_limits` with the host that drives it. A rollout is a sequence of cells,
ordinary bytes and newlines tagged with what their record is, that a writer appends to; it may
also be replaced, touched, or cut and written on, to its former length or beyond and with other content. A request is
three looks at that file (open, read, check) and an answer, with the writer free to act between them. `require_generation`
compares inode, length and, at equal length, modification time: a file that was cut and has outgrown the length it is
compared with passes, which `src/README.md` (556 and 733) says of itself. `NoTornPage` says what remains true: when a page is answered, a file cut since
one of the looks it relies on (its own, and the one its token is stamped with) has outgrown that look; every other truncation is refused.
What pages list is claimed for files that were never cut (`Intact`; `cut` is a history variable with the stamp of the last truncation).
It is assumed that every write moves the modification time, and that the identity record at the head is not cut.
A canonical read takes the prefix of an unfinished record from the store and may so join it to what a regrown file holds; an observation
compares it with the file (`NoLongerHolds`). Cursors carry what the code's do:
offset, snapshot, stamp, page, sequence, and where an unfinished record began. Both projections are modelled;
they differ in how a cursor inside a record is continued, and a cursor carries the one it was made for. `Scan` takes the
window byte by byte (`Take`), with a record that ends in it projected or the page closed. The host may lose an answer and ask
again. `Lists` says what pages should contain without a scan: the set of the places in the file where a turn's record starts, in order.

### `BashTool`: calls, workloads and the end of the bridge

`callBash` and `execute`, with every `await` a stage of its own: owner, registration, live-session
report, dispatch, status, tail, receipt, mode, snapshot, cancellation. Two calls may name each
other's workload, be aborted at any stage, arrive while the bridge is closing, and share one report of the live session.
`dispatched` holds the calls that have read the handle of a running workload: from there on an abort obliges them to
cancel it, however they are answered. The supervisor (`agent-bash`) and the runner's socket are external; a workload is named by the call that
started it.

### `Launch`: one turn per request

The `CodexLaunch` adapter inside the SDK's custody: `Submit`, `LockRequest`, an answer from the
record, `Reconcile` or `Begin`; `Locate`, `LockSession`, `CreateSessionFile`, `PublishKnown`;
`Spawn`, `OpenGate`, what Codex reports (`ThreadStarted`, `Announce`, `Reports`,
`IdentityChanged`), `NativeEnds` and `Complete`. Every refusal runs `Discard`, which removes
the session file of the attempt. Providers may be killed anywhere; a group that runs then
runs on until it ends or is reconciled. Each request has its state root (`root`): the host's data root, or a resident session's own;
`LockSession` takes the lock of the thread in that root.

### `Resident`: templates that stay recorded

`prepare` (one action per system call, no lock) and `serve` with `load_config`. Records may be
lost or cut short by a loss of power as far as they were not synced, and edited by others. `answered` and `recorded` are history
variables: the templates whose path was answered, and those of them that a process answered which wrote the record itself.
`WrittenIsDurable` holds of the second set, `RecordedIsDurable` does not hold of the first. That what is served has the digest
of its name is a comparison in `load_config`, of which nothing further is claimed.

### `Population`: what lookups and enumerations may answer

`rollout_paths`, `locate`, `locate_page_source`, `enumerate`, and the second look that `read_turns`
and `capture` take at the path they located. A provider lists `archived_sessions`, then
`sessions`, entry by entry (`VisitEntry`), and then opens, stats and possibly counts every path it
found (`EnumerateOpen`, `EnumerateStat`, `EnumerateCount`; `LocateUnreadable`, `NotClaimed`, `Claimed`),
while Codex creates, extends, archives, unarchives and deletes rollouts between any two of these steps.
A host follows the cursors of an enumeration, repeats a page after an error, and may change size or
filters by mistake. Two rollouts may claim one session, and a file name may end with another
session's ID: the first page of a snapshot then looks at these namesakes only (`Candidates`), and `LookupIsDecisive` says
what its answer is worth. The history variable `still` holds the rollouts that were readable when the host
asked and were not moved since. `Listing` puts entries in order by the number of those that precede each.

### `Environment`, `QuotaProbe`, `Nesting`: whose environment is it

`Environment` models what `plan`, `evaluate`, `prepare` (headless and interactive), `managed_native_args`
and `sessionId` do to seven keys: the two stores, account instructions, session file, session, the marks
of a managed TUI, and the exploration offer. Environments are functions from keys to the meaning of a
value, and the code's steps are `Over`, `With` and `Without`; values that are not Unicode escape the
maps but are inherited natively, as in the code. A launch is `Headless` or `Interactive`, from outside
(whose environment may hold anything) or from within any launch before it. `ThreadStarted`,
`PublishSession` and `SwitchThread` move the threads under it, and `Identity` is what the bridge takes
its calls to be of.

`QuotaProbe` models the poll of `quota.probe`: `Measure`, `StillRunning` or `SeenExited`, `Clock`, `Sleep`,
`Read`, and `Drop` of the child on every early return, against a helper that writes, forks, exits or
hangs at any moment. `Nesting` is both: the helper too is started with an inherited environment.

### `Installation`, `Registration`, `ManagedTui`: one release for one TUI

`Installation` models `install-provider.py`: `Begin`, `Copy` of each path into the backup, `Replace` and
`MoveAway`, `ReadBack`, and after an error `RemoveNew` and `PutBack` of each path. Any step may fail, the
restoration included, and the installer may be killed between any two, so that the next one begins with
a mixture. `whole` and `before` are history variables: the last entire installation, and what this
installer found.

`Registration` models the reports of a thread to the runner, by hooks and by the bridge before each
dispatch: `Connect`, `Acknowledge`, `Acknowledged` or `ExchangeFails`, and the deadline. The runner is
external: it may be silent, record without answering, or acknowledge another thread.

`ManagedTui` is the launch between them: `LaunchTui` takes the binary that the link leads to, `LoadConfig`,
`CheckCustom`, `Publish`, `DeclareAndExec`, and then `Load` of bridge, Bash tool, hook script and model catalog,
each at a time of its own, from wherever the configuration leads at that moment.

### Which promises build on which

`SigningAuthority` is refined by `ObservationKey`. `TurnPaging` relies on what `ObservationKey`
and `StagingStore` establish, `Resident` and `BashTool` meet `Launch` at the launch request and the session file;
`BashTool` takes a registration to succeed or fail, which `Registration` says more about. These
are compositions by contract: no module instantiates another's state, since the parts share
nothing but the values named above and the product would be out of TLC's reach. `Nesting` and
`ManagedTui` are compositions of state: each extends two components and adds the actions in which they meet.

## Runs

| Run | Question | Bounds | Assumed |
|---|---|---|---|
| `ObservationKey` | is there one complete, durable key for all (`OneAuthority`)? is it a write-once authority (`ImplementsAuthority`)? does a killed initializer wedge the scope (`Recovers`)? | 2 processes, 3 random keys, 1 fault, every initial directory | a process goes on; locks and requests are retried |
| `StagingStore` | do issued tokens survive, do limits hold, is replay free? | 2 processes, 4 cursors in 2 packs, 2 prefixes, 1 legacy cursor, room for some of it, 2 faults | nothing |
| `TurnPaging` | is every turn delivered once, in order, through any cuts and lost answers? is only a rewrite stale, is a truncation refused unless outgrown, does a snapshot end? | 3 cells and 4 writes in all, records of up to 3, 3 budgets, 1 replacement, truncation or touch, answers lost but not twice in a row | the provider answers; the host goes on again and again |
| `BashTool` | aborts, receipts, bindings and owners; does awaited work end with the bridge (`SyncWorkEnds`)? | 2 calls of every kind, 2 threads | the supervisor ends leases |
| `Launch` | once per request, one turn per thread and root, one identity, clean refusals | 2 providers, 2 requests, 2 roots, 2 threads, 1 death | nothing |
| `LaunchAcrossRoots` | are resumes of a thread serialized whatever their roots? **Violated** | as `Launch` | nothing |
| `LaunchEnds` | is success earned, is a limit charged only to who hit it? | 1 launch, every event and exit, 1 death | nothing |
| `Resident` | does what a preparation wrote and answered stay (`WrittenIsDurable`), is no short record published (`PublishedIsWhole`)? | 3 processes, 2 templates, 2 faults | nothing |
| `Population` | does a followed enumeration list what stayed exactly once? is "not found", or a sole claim, ever wrong about it? | 3 rollouts, 2 of one session, 2 named after another, 2 page sizes, 2 filters, 2 changes | nothing |
| `Nesting` | does each process work on its own account, instructions and offer, is each bridge its own thread's (`OwnAccountEverywhere`, `BindsItsOwnSession`)? does a probe end, and its helper with it (`ProbeEnds`, `NothingLeftRunning`)? | 2 launches, 2 accounts, 3 threads, output one quantum over its limit | the provider polls, time passes |
| `ManagedTui` | is a report of the installer true (`ReportIsTrue`), is an installation ever lost (`Recoverable`)? is a TUI of one release (`OneRelease`)? is what it dispatches registered (`DispatchIsRegistered`), does registering end (`RegistrationEnds`)? | 2 releases, 2 installers, 2 failures or kills, 2 threads, 1 call beside the hooks | bridge and hooks run, time passes |
| `ResidentDurability` | is an answered path durable? **Violated** | 2 processes, 1 template, 1 fault | nothing |

Why the bounds suffice. Every shared resource in these protocols is guarded pairwise (a lock,
an exclusive create, a rename), so that two processes reach every interference; `Resident` has
no lock and gets a third. Two faults are a crash and a crash during the recovery from it;
`ObservationKey` has one, since liveness is checked there with every initial directory (any residue of
earlier faults), and its proofs cover any number. Four
cursors give a legacy one, two that share a pack, one of them after a torn tail, and one in
another pack with a shared prefix; the store is given less room than they need. Three cells are a record
with two page ends inside it, a long and a short record, or three records, with or without an unfinished
tail; the fourth write lets a file that was cut outgrow what it was. Two roots are a host's and a resident session's. Two Codex threads are a right
and a wrong one. `Launch` leaves Codex's error reports to `LaunchEnds`, where one launch sees
all of them: the flags are private to the adapter, so that they add nothing to what two launches do to
each other. In `Population` two changes
bring a rollout away and back, or let one overtake another in the listing; the names make one claim with a
namesake, one without, and a namesake that claims another session. In `TurnPaging` a lost answer is
followed by the same request again before another one may be lost; what was lost before leaves no trace
in the system but the cursor, which is the same. In `Nesting` two launches make
parent and child, in all four combinations of kinds: a child sees nothing of its grandparents but what its
parent was given. A probe and a launch do not overlap there: they share only what they inherit. In
`ManagedTui` two installers are one that leaves a mixture and one that finds it, and two failures are a
failure and one of its restoration, or two kills; installers stop once everything is loaded, and
registrations begin then and where there were none: by then a TUI has nothing to do with the installation.

Symmetry is declared in the runs whose configuration says so, over sets of model values
(processes, requests, threads, calls, keys, templates) that are interchangeable there, and never
where liveness is checked. `BashTool` does not check for deadlock:
once the bridge has exited and its work is over, the system has stopped. Neither does `ManagedTui`: what
two killed installers left may be an installation that no TUI can be launched from.

### Fairness

- `ObservationKey`: a process that is scheduled takes its next system call (weak
  fairness of `Step`), a blocking `flock` is granted eventually to each waiter (strong
  fairness of `Acquire`), and requests keep coming (strong fairness of `Request` by a caller that presents
  no bearer token). Nothing is assumed of faults.
- `TurnPaging`: the provider process answers what it was asked (`[]<>` of no request being under way),
  the host looks at answers (weak fairness), and presents its token again as often as it can (strong
  fairness of `Continue`). The writer may do as it likes, or nothing.
- `BashTool`: the supervisor ends what is leased to a bridge that is gone (weak fairness of `LeaseEnds`), as
  `--cancel-on-owner-exit` asks of it. Nothing is assumed of calls, subprocesses, cancellations or of the bridge's exit, and no workload is assumed to
  end by itself: the lease taken at the dispatch is what the code relies on.
- `Nesting`: the provider goes on with its poll, which blocks nowhere, and the deadline passes. The helper may
  do anything or nothing.
- `ManagedTui`: the processes of bridge and hooks take their next step, and their deadline passes. The runner may
  never answer; users, installers and native hooks' kills are free.

## What is proved

The theorems hold for any number of processes, keys, cursors, packs, requests, threads,
templates and faults, any log, lengths, limits and budgets, from the named assumptions on constants (which only say that the
special values are not members of the sets, that bounds are numbers, and that what is stored is finite). Each proof module
shows the initial states and then every action to preserve an inductive invariant `IInv`, which
stands at the end of the component's module and was first checked by TLC on the instances above.

- **`ObservationKeyProofs`**: `OneAuthorityHolds` (which includes `GrantedIsDurable`),
  `PublishedIsCompleteHolds`, `ExclusiveHolds`, `KeyIsNeverReplacedHolds`, and `Refinement`: the protocol
  implements `SigningAuthority`. `OneAuthority` is not inductive: a process that is about to
  return must already know that all directories agree. `IInv` adds `Preparation` (while
  somebody prepares there is no key, and what is renamed is written and synced), `Confirmation`
  (from validation to return, the key is ever more durable) and `Survivors` (what a power loss brings
  back differs from what is seen at most by not having the key yet).
- **`StagingStoreProofs`**: `IssuedIsDurableHolds`, `DurableForeverHolds`,
  `ReplayNeedsNoSpaceHolds` and `WithinLimitsHolds`. `IInv` adds `Publication`, which says at each stage what a running
  request knows to be absent (what it is about to write) and what to be there (what it is
  about to rely on), and that every frame is in a pack that exists. The lock matters here: without it a
  second request could make stale what the first one knows.
  `WithinLimits` needs `Space` besides: between the reservation of a frame and its last byte the pack may be
  cut, torn and written in any number of steps, and what it weighs at each of them, with the growth still
  to come, is within the limit (`Reserved`); the temporary file of a fault is not that of an earlier one
  (`OrphansAreDistinct`); a loss of power shortens packs and turns prefixes back into temporary files of
  the same length (`PowerLossShortens`, `UndoneRenames`). The amounts are sums over finite sets with the library's
  `SumFunction`; the module begins with lemmas that they do not depend on the order of summation, change by what one
  summand does, and add up over disjoint sets. That the limit holds does not assume that an earlier release kept it: `WithinLimits` allows what
  that release left, and nothing is added to more than the limit.
- **`TurnPagingProofs`**: `ExactlyOnceHolds`, `CompletionIsTotalHolds`, `SequenceAgreesHolds`,
  `ReplayIdenticalHolds`, `OnlyRewritesGoStaleHolds` and `NoTornPageHolds`, all six safety properties of the run, for any log,
  limits and budgets, any number of appends, rewrites and lost answers. The argument has two halves. What one
  read finds: `Scan` takes byte after byte, and by a least counterexample whatever it has taken at byte n lists exactly the turns
  that begin between the page's start and the last record boundary (`TakeHolds`, `ScanLists`); how it is cut by
  budgets and then by `Fitted` only moves that boundary. What the host joins: two lists that meet at a boundary are the list of
  both spans (`ListsJoin`), so that `HostHolds` extends what the host already has. `IInv` ties them together:
  a cursor's start is a record boundary and everything up to its offset belongs to one record (`InRecord`); what is
  said of a file's content is said as long as it was never cut (`Intact`), since the writer may cut it and write something else
  over it; a truncation since a look leaves the file either shorter, or as long with a later modification time, or longer than
  that look, and the first two are refused (`CutsHold`, `StampHolds`); a rewritten file is another generation (`StampHolds`); a call that has read agrees with what a read
  finds now (`ReadHolds`), which is what makes replays identical. The bytes appended beyond the snapshot change no read (`ReadOfAgree`).
- **`LaunchProofs`**: `RunsOnceHolds`, `ResumesSerializedHolds`, `OneIdentityHolds`,
  `RefusalIsCleanHolds`, `SuccessIsEarnedHolds`, `SignalIsTheLastErrorHolds` and `TypeOKHolds`. `ResumesSerialized` is about turns
  under one state root, which is as far as the lock reaches. The session file is the hinge of `IInv`: `KnowsFile`
  relates it to what the adapter knows at each stage, `HeardOfFile` says that whoever heard of a
  thread heard of the one in the file, `Admitted` ties the durable record to the stage, and
  `FileOwned` says that a file before native admission belongs to the attempt under way.
  Identities agree since the file only changes from empty to a thread, and is never removed once the record exists.
  What is claimed of a turn rests on a second invariant, `Account` (theorem `Accountability`): the adapter's flags
  follow from what Codex did in its order (`Follows`), a claim and a terminal receipt are warranted by the flags and the exit
  (`Warranted`, `Accounted`), and neither changes once the turn is over, whoever serves the request later.
- **`ManagedTuiProofs`**: `ReportsAreTrue`, `LastInstallationIsRecoverable`, `TuiHasOneRelease`,
  `DispatchesAreRegistered` and `TypesAreCorrect`. The three parts share no variable, so that each has an
  invariant and lemmas of its own. The installer's needs `Progress`: which paths are already copied, replaced
  or restored at the point it has reached, and that from the first replacement on the backup is complete and the last entire
  installation is among the backups. The launch's needs `Staged`: before Codex is executed nothing is
  loaded, and from publication on everything is looked up in the private copy. The registrations' needs `Heard`: an
  acknowledgement that is being waited for was recorded.
- **`NestingProofs`**: `OwnAccountEverywhereHolds`, `BindsItsOwnSessionHolds`, `NothingLeftRunningHolds` and
  `TypeOKHolds`. Two lemmas settle every key of the environment of a headless launch and of a TUI whatever
  they inherit, so that no induction over the nesting is needed. `Transport` then says where a bridge
  can learn its thread, and `Seen` that an exit the probe has seen has happened.
- **`BashToolProofs`**: all five safety properties of the run and `TypeOKHolds`. `Places` says what a call knows
  where it is (from the dispatch on the runner knows its session, from the receipt on it holds output, its thread is the
  bridge's, and a call in `dispatched` is where an abort still leads to the cancellation), and `Owned` that workloads are of the thread the bridge is bound to. Steps that only move or answer a call are two
  lemmas.
- **`SessionProofs`**, two modules that share no variable. Of `Resident`: `WrittenIsDurableHolds`, `PublishedIsWholeHolds` and
  `ResidentTypeOKHolds`, from `Synced` (what has a final name, or is about to get it, is synced, so that a power loss cannot cut it) and
  `Anchored` (a process that staged its record answers only when the name is durable, and a durable name stays so whoever replaces the file).
  Of `Population`: `EnumerationIsAccurateHolds`, `LookupIsDecisiveHolds` and `PopulationTypeOKHolds`, for any rollouts,
  claims, names, page sizes and filters and any number of changes. The invariant says at each step of a scan where what stayed is: found, or in a
  directory not listed yet (`ScanFinds`), entered or still to be looked at (`EnumerationFinds`), found as the claim or
  still to be looked at, unless only namesakes are left and there was one (`LookupFinds`). `Followed` carries an enumeration from
  page to page: the host has what precedes its cursor in the cursor's listing, so that a page of the same listing continues it
  (`SubSeqConcat`), and what stayed passes the filter the enumeration began with, which the fingerprint then compares. That the least path exists is `LeastPath`;
  that a listing has each entry once is `ListingIsOfAll`: ranks are injective into as many places as there are entries.

What is only model-checked, and why:

- Liveness (`Recovers`, `SnapshotCompletes`, `SyncWorkEnds`, `ProbeEnds`, `RegistrationEnds`): the prover does not handle
  `ENABLED`, which fairness needs.

Every property of the passing runs that is not one of liveness is a theorem. The invariants the proofs need (`IInv` and `Account` of the modules) were checked with TLC on the
runs' instances before they were proved.

Induction over data is out of the prover's reach as a rule, since the library's induction theorems
take an operator. Where a proof needs it (`Scan` in `TurnPaging`, sums in `StagingStore`), it is done by hand: the set of counterexamples is a set of
natural numbers or of finite sets, has a least one (`WFMin` of the library), and one step refutes it. That a recursive
function exists at all is shown the same way (`ScanRuns`, `SumsExist`).

## Findings

`RecordedIsDurable` is violated by `src/resident.rs`. `resident.prepare` asks only whether the
final name exists (line 118). If another process has renamed its file there and has not synced
the directory yet, or died before it did, the second one answers with the path, and a loss of
power may remove the record. The comment at the head of the file ("durably records it,
content-addressed") and README.md ("records it durably and content-addressed") promise more; the staging store
handles the same situation by syncing what it finds. The host then gets "configuration refused"
from `resident.serve`. What a preparation wrote itself stays (`WrittenIsDurable` holds).

`SessionsSerialized` is violated by `src/launch.rs`. README.md, line 235, promises that "Concurrent resumes of one session are
serialized", but the lock of a thread is a file in the turn's state root (line 541), and a resident turn runs under a state root of its own
(README.md, line 254): a resident turn and a direct launch, or turns of two resident sessions, of one thread of one account run at once. Under one root
resumes are serialized (`ResumesSerialized`).

Four more behaviours are visible in the models; no statement of the repository rules them out clearly:

- A record that somebody damaged is refused by `resident.serve` for ever: `prepare` answers
  with its path again without looking at it.
- If a provider is killed after it made the session file and before native admission, or the
  file cannot be synced, every retry of that request fails with an I/O error, since the file is made with
  `create_new` (`spoiled` in `Launch`). Likewise a killed provider's session lock is free while its
  Codex group still runs, until the request is reconciled.
- `rollout_paths` lists `archived_sessions` before `sessions`: a rollout that Codex archives between
  the two listings is in neither, and `session.locate_transcript` answers that it does not exist, or an
  enumeration leaves it out. `Population` has these behaviours; its properties speak of rollouts
  that are not moved meanwhile.
- `locate_page_source` opens only the files whose names end with the ID of the session, once there is one (line 337). Another
  rollout that claims the session then goes unseen, and the first page is answered where `session.locate_transcript` reports
  `codex_session_ambiguous`; and if the namesake claims another session, the page answers not found although `locate` finds the
  session under another name. The comment at line 317 says that names select the candidates, the one at line 397 that
  "initial discovery still checks all claims", and README.md, line 724, that it "still checks metadata ownership and
  ambiguity". `LookupIsDecisive` states what is true of it.

## What is not modelled

- Digests, HMACs, base64 and JSON: a digest is the identity of its content, a signature that of its key.
- `agent-bash list`, which reads only, calls rejected before their first `await`, and request
  ids used twice, in `BashTool`. Answers computed after the bridge began to close are not sent.
- `install-labels.py`, which replaces label files one by one with no rollback and claims none; two installers at
  once, which nothing locks out; and loss of power during an installation, for which nothing is synced.
- The SDK's mediated bridge, which under tool mediation takes the place of the Bun bridge, and the environment's keys
  of socket and token that the runner sets anew for each launch.
- The drain, heartbeats, journal and delivery writer of the SDK; the rest of Codex's arguments;
  the host's own classification of raw streams (`classify_params`).
- In `Population`: subdirectories of `sessions`, symlinks, the capacity limits of a scan, and what the
  records of a rollout say beyond the session it claims (its version stands for them). The evidence
  that `capture` compares before it looks for the rollout is a function of the request.
- Validation and encoding of requests: no state and no interleaving.

## Plan

Done, in this order, the most important first: the key and its proofs; the staging store and its
proofs; paging; the Bash tool; launches and their proofs; resident templates; lookups and enumerations;
nested environments and the quota probe; the installer, the managed TUI and its
registration; the proofs of these, of the Bash tool and of resident templates; of what a launch claims, of paging
and of the store's limits; of lookups and enumerations. No safety property of a run is left unproved.

What would come next: an abstract account of paging that `TurnPaging` refines, and the envelopes of `src/envelope.rs`, which keep no state.
