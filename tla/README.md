# wop-go-sdk: a verification project

The repository holds two programs. The smaller surface is a Go SDK that signs
requests and verifies responses. Beside it, under `.factory/`, lives a
maintenance factory: scripts that turn issues into pull requests with the help
of agents, run by several machines at once against one issue tracker. Nearly
all of the state and all of the concurrency of the repository are in the
factory, so it is modelled first. Paths below are relative to `src/`.

## 1. Inventory

### The factory

| Part | State it keeps | Operations | Interacts with |
|---|---|---|---|
| lease arbiter, `.factory/db/schema.sql` | rows of tenants, machines, leases with epoch and expiry; an event trail | `factory_claim`, `factory_heartbeat`, `factory_fence_ok`, `factory_release`, `factory_revoke`, `factory_machine_disable` | called by the lease client over psql |
| lease client and lock-file fallback, `.factory/factory-lease.sh` | `<key>.lock`, `<key>.epoch`, `.rel.*` and `.stale.*` files; the token in the chain's environment | claim, heartbeat loop, fence, release, clean-up | chains call it; its heartbeat signals a process |
| dispatcher, `ChainPool` and `dispatch_main` in `.factory/factory_lib.py` | `locks/dispatcher` with a pid, the list of its children | spawn, reap, drain, shutdown | starts chains, gets signals from operators and heartbeats |
| dispatch round, `dispatch_round` | none of its own: reads and writes labels | sync, triage batch, merge, redispatch, drain the queue, final sync | tracker, chains |
| label function and sync, `.factory/state.py`, `.factory/factory-state.sh` | none: labels of issue and PR | plan from a snapshot, apply call by call | tracker |
| repair chain, `.factory/fix-issue.sh` with `factory-lib.sh` | worktree, branch, lease, traps | lease, triage, work, push, PR, hand over, clean up | tracker, origin, arbiter |
| triage batch, `.factory/triage-batch.sh` | a queue read once | one verdict per issue | tracker |
| breaker and cron wrapper, `breaker.sh`, `cron-dispatch.sh`, `factory_lib.py` | cost ledger with a day's runs and its failure streak; the file with the stall counter | check, record, reset | asked by wrapper, dispatcher and chains |
| lock directories of dispatcher, chains by hand and label writers, `factory_lib.py`, `fix-issue.sh`, `hosting.py` | a directory with a pid in it | mkdir, judge, take over, remove | everything that must be alone |
| hosting adapters, `.factory/hosting.py` | none: GitHub's labels and events, Codeup's comments | add, remove, view, list, history | every script that reads or writes labels |
| daily check, `.factory/regression/dispatch_liveness.py` | none | find a stalled dispatcher, labels without a lease | reads what rounds and chains leave |
| mutation runner and gates, `.factory/mutations/run.py`, `run_parallel_gate`, `guard.py` | the target file, remembered bytes, a stamp; processes and their sessions | inject, gate, judge, restore, stamp | working tree, configuration, people who edit |
| feedback to upstream, `.factory/feedback.py`, `feedback-upstream.sh` | ledger of what was fed back, commits and patch ids | collect, skip, close, open a PR, book | local history, which is rewritten; upstream |
| routing of regressions, upstream sync, receipts, validation of PRs | files and reports | see section 5 | tracker, working tree |

The actors meet in four places. *Labels* are shared mutable state without
compare-and-swap, read and written by every round, chain, sync and person. The
*lease* says which chain may act on an issue and gives it a fencing token.
*Processes and signals* tie a heartbeat to its chain, a chain to its
dispatcher, a segment to its gate and a gate to its runner. *Files* that outlive their
writers, lock directories, ledgers, remembered bytes, tell later processes what
earlier ones did.

What is hard there:

- every lock is a lease, so a holder may be late, and what it does late must be
  refused (fencing);
- labels are read, and acted on minutes later;
- a call to the platform may fail after it took effect;
- chains, heartbeats and dispatchers die at any point, and each leaves behind
  what only it would have cleaned up;
- sync and redispatch answer each other with labels, which has to end;
- to judge a lock dead and to remove it are two steps;
- the breaker is asked when a chain begins and told when it ends;
- the same runner edits a file, runs programs that read it, and must put it back.

What makes each part correct:

- *lease*: one holder per key; a token that is superseded never passes again;
  quota and revocation hold; both backends implement one abstract lease;
- *dispatcher*: it works alone, keeps to its slots, a shutdown ends, a heartbeat
  ends with its chain;
- *labels*: sync comes to rest, spares the locks, counts the rounds right;
- *locks*: as long as nobody removes another's lock, one process works under it;
- *breaker*: a day and a streak exceed their limits by a bounded number of chains;
- *rounds*: there are always new ones, or the stall is reported;
- *adapters*: both are one store of labels, an answer was true at some moment of
  the call, a history is never short;
- *gate and runner*: green means every segment ran and was green, no defect stays,
  a stamp is evidence, whatever hangs or is interrupted;
- *feedback*: content goes up once, and nothing leaves the candidates that no PR carries;
- *life of an issue*: work in progress is marked and belongs to somebody, the
  queue is served, rounds are bounded, a passed change becomes a PR.

### The SDK

| Part | State | Hard because |
|---|---|---|
| verification, `verify.go` and `message.go` | none | the order of the checks decides which error is seen |
| requests, `client.go`, `transport.go`, `headers.go` | none per call | order of encryption and signing |
| configuration cache and default client, `config/loader.go`, `default_client.go` | cached snapshots by path; a client and an initialisation error | concurrent loads and `ClearCache`, a cached error, `ResetDefault` |
| primitives, `sm2raw.go`, `keyencrypt.go`, ... | none | arithmetic, a matter of test vectors |

### Tooling

`tools/mutation/main.go`, `scripts/docstring_gate.py` and `.lefthook/` check
files and, the first excepted, change none.

`PROJECT.json` lists every component with its status, and under `hazards` each
point of the code where something can go wrong that a test would hardly reach.

## 2. Modules

| Module | Models | Relation |
|---|---|---|
| `FencedLease` | what a lease promises: the abstract specification | implemented by the next two |
| `LeaseArbiter` | `db/schema.sql` | refines `FencedLease`, client = machine |
| `LeaseArbiterProofs` | theorems about `LeaseArbiter` | |
| `LocalLease` | the lock-file fallback, content and age of the lock read in separate steps | refines `FencedLease`, client = chain |
| `LocalLeaseProofs` | theorems about it | |
| `ChainPool` | dispatcher, chains, heartbeats as processes | |
| `ChainPoolProofs` | theorems about it | |
| `LabelPlan` | `state.py`'s plan as operators | used by the next two |
| `LabelSync` | sync repeated on one issue | |
| `IssueLife` | rounds, chains, syncs, people around one issue and its PR | composes the label plan and a lease |
| `IssueLifeProofs` | theorems about it and about `LabelPlan` | |
| `LabelStore` | what the factory expects of labels: the abstract specification | implemented by the next one |
| `HostingLabels` | the labels of a pull request behind the two adapters, with the lock directory of label writers | refines `LabelStore` |
| `HostingLabelsProofs` | theorems about it | |
| `CronDispatch` | wrapper, dispatcher's lock, breaker, chains by hand and the daily check around the clock | |
| `CronDispatchProofs` | theorems about it | |
| `ParallelGate` | `run_parallel_gate` | part of the next one |
| `MutationRun` | the mutation runner with its three kinds of gate | EXTENDS `ParallelGate`, whose actions are part of its own |
| `MutationRunProofs` | theorems about it and about `ParallelGate` | |
| `Feedback` | what is owed to upstream, the ledger and a history that is rewritten | |
| `FeedbackProofs` | theorems about it | |

`MC*` modules add the symmetry sets and the functions a `.cfg` cannot write.

### LeaseArbiter

A stored function is a transaction, and one action unless it reads something it
does not lock: `factory_heartbeat` reads statuses first (`CheckHeartbeat`) and
updates later (`Heartbeat`, `HeartbeatFails`). `now()` in PostgreSQL is the start
of the transaction, so every action takes a start time `ts` at most `MaxLag`
behind the clock. `events` is the audit table as a set, and doubles as the memory
of what chains were ever told: any granted (machine, epoch) may be presented at
any later time. A refused claim still registers its machine. `Reinstate` is the
administrator's own `UPDATE`: no function does it.

### LocalLease

The steps are the file operations of `_lease_sw_claim` (put unburied locks back, see,
read, `stat`, `mv` to `.stale`, look again, create with O_EXCL, counter, write),
`_lease_sw_hb`, `_lease_sw_fence` and `_lease_sw_release`. Reading the lock and its
`stat` are two steps, and the name may stand for another file by then. The module's
head says which operations are merged and why nobody can come between them. A file is
an epoch and an mtime. Epoch 0 is content that does not parse, such as the empty file
between `set -C` and the write; the code then judges by age alone. A killed chain's
heartbeat goes on, and a killed shell leaves the `mv` or `touch` it had started.

The protocol has four windows in which the operation of one chain lands on the lock of
another, or the counter is lost: `HbStat` (the heartbeat judges the age of the lock
that replaced its own), `CreateLock` (a fresh lock is moved away just then), `Bury`
(the release moves somebody else's lock) and `KillChain` (between truncating the counter
and writing it). The model takes these steps like any other; the history variable
`crossed` remembers that one was taken. Properties and theorems are about what happens
until then, and section 3 names what fails afterwards.

Seen as a fenced lease, the holder is the chain whose fence would pass if it began
now, and the last holder the chain with the largest token. A fence under way is
stale knowledge like any answer: it may pass although the lock changed hands
between its two reads (`OnlyNewestPasses`, section 3).

### ChainPool

Dispatchers, chains and heartbeats with the signals between them. In the
heartbeat's background subshell `$PPID` is the parent of the *chain*, which is
the dispatcher, and the module follows the code in this. Between `Popen` and the
append to `_active` a signal may fall (`fresh`).

### LabelPlan, LabelSync, IssueLife

`Plan` is `plan_phase`, with the labels by name and every label that is not the
factory's as `"foreign"`. `LabelSync` applies it at once, again and again, from
every combination of issue labels. `IssueLife` has it call by call in the plan's
order: each machine's dispatcher walks `disp[m]` through the calls of a round,
each chain walks `chain[c]` through `fix-issue.sh`. A fence check and the call it
guards are two processes and two steps: `armed` has the chains whose fence said yes and
whose call is still to come, whatever becomes of the lease in between. A call is
answered, or fails with or without having landed.
The lease is the set of chains that share the current token, and whether it is
live. A chain's exits are the code's: before the EXIT trap (`Trip`, `PrepFails`,
refused `ClaimLease`), through it (`Abort`), or zero (`leave`). Rounds go on after the
issue is closed, so these runs have no deadlock to allow.

### HostingLabels

One action per request to the platform or operation on the lock directory. A call
of a slot is a process of its own, so a pid never comes back. The lock directories are
in the temporary directory of the machine, under a hash of the repository as the caller
spells it: `SiteOf` says where each process has them, and `LockOf` is the directory it
competes for. `Failed` is the retry
the code makes once with the other endpoint; `Lost` is a request that was carried
out and answered by an error, which the same retry repeats. GitHub's `Edit` and
`Reread` are `gh pr edit` and the second look at the labels. On Codeup a label is a
comment with a marker: `Mkdir`, `Judge`, `Take`, `Recheck`, `WritePid`, `Check`,
`Post`, `Unlock` and `Link` put one on, `List` and `Resolve` take it off, and
`ReadComments` reads the open comments and then the resolved ones. `was[c]` is no
state of the code: it remembers what was on and off since the call began, which is
what the properties of answers compare with.

### CronDispatch

Processes of the wrapper and of a person, issues with their in-progress mark and
chain, a lock directory with a pid, the ledger of the breaker, the stall counter and
the daily check. `Clear` and `Remake` are the two steps of a takeover. `strayed`
remembers that somebody removed a lock that was not the one he had judged, or his own.
A dispatcher counts its own children (`Children`, `ChainPool._active`): when it is
killed they go on as nobody's, its successor spawns as many again, and `orphaned`
remembers how many there were. `Zone` says how the local day lies to the UTC day: the
ledger is dated in UTC (`fix-issue.sh:354`) and read by the local date
(`factory_lib.py:1483`). `PgMode` is `SUPABASE_DB` where the daily check runs
(`dispatch_liveness.py:138`): leases are not files then, and in-progress is not looked
at. `KillChain` stands for a kill and for exits 2 and 4 before lease and trap.

### ParallelGate and MutationRun

A segment is a process that runs, hangs or has ended; the gate starts it (`Popen`), puts
it on its list (`Record`) and polls. An interrupt or an exception makes it
terminate the groups on its list and wait for their leaders one by one (`Reap`), killing
those that stay. An interrupt between `Popen` and `Record`, or a second one in the
cleanup but for the wait that expects it (`InterruptAgain`), is remembered in
`slipped`. `strays` are groups of which a leader heeded SIGTERM and others did not: only the
leader is waited for (`factory_lib.py:1388`).

The runner's steps are those of the code where an interrupt may fall: `Admit` (clean, a
gate is there), `Read`, `Write`, `Remember` (`original` is assigned when `apply_defect`
has returned, `run.py:379`), `StartGate`, `Answer` or `Timeout`, `Restore`. A Ctrl-C with
something remembered and the gate ahead or at work runs the finally (`CtrlC`,
`PutBack`); anywhere else it ends the runner where it is (`CtrlCBare`), as a kill does
anywhere, and a write in the middle of which it ends leaves `Torn`. The gate for
tests is what the configuration names (`IsSplit`): one process group, as
`factory-local.json:38` has it here, or a parallel gate, whose actions are
those of `ParallelGate`. `guard.py` and the docstring gate are single processes. A time-out
kills the gate's group, but not the segments of a parallel one, which have sessions of
their own: these are `orphans` from then on and read the target while later
defects are in it, as a gate does that a Ctrl-C left. A person edits the target or
the configuration at any time. `saw` is what each segment read and `witness` which
defects a whole gate was run on; of `guard.py` it asks nothing more than an answer, for
that judges the path, whatever is in the file.

### Feedback

A commit has an id (place in the history and number of rewrites), a patch, the
files it touches and the assets its scripts name. `Rewrite` gives every commit from some place on a
new id and keeps the patch; `Prune` forgets the objects of old ids, after which
the patch of a ledger line that has only an id cannot be looked up. A run is
`Collect`, `SkipSuperseded`, `CheckClosure`, `Adapt`, `OpenPr` and one `Book` per
ledger line, and may die between any two.

## 3. Runs

| Run | Bounds | What it shows |
|---|---|---|
| `tokens` | 2 tenants, 2 machines, 1 key, lag 1, clock 2, epochs 2, 1 heartbeat under way | tokens tell machines apart, a token older than a later event of its key never passes, and the arbiter is a `FencedLease` |
| `quota` | 1 tenant of quota 1, 2 machines, 2 keys, no lag | revoked and disabled hold nothing; the quota; only a new claim revives a token |
| `prompt` | 3 chains, lease of 1 tick, clock 2, kills at any operation | until a window is hit the fallback never prints an epoch twice, a fence that begins with a superseded token does not pass, the counter does not fall, and it is a `FencedLease` |
| `pool` | 3 issues, 2 slots, one failing heartbeat, kills and signals at any step | slots are respected, chains are reaped before the lock is released, a shutdown ends, heartbeats end with the dispatcher |
| `settle` | every set of issue labels, 3 reviews, 2 rounds | sync spares the locks, counts rounds right and comes to rest |
| `solo` | 1 machine, 1 slot, 3 deeds of people, 1 mishap | rounds stay bounded, the queue is served, and without a mishap no claim is abandoned |
| `duo` | 2 machines, 2 deeds, 1 lease that lapses while its chain runs | only a call that was fenced before its chain lost the lease takes the lock label of the chain that holds it |
| `labels` | 2 slots of 2 calls, 1 label, both platforms, 2 sites, 1 fault: a kill, a refused or a lost request | answers were true during the call, a history is never short, every call on Codeup ends, and the adapters are a `LabelStore` as long as the calls are of one site, without a kill or a loss |
| `night` | the wrapper, 1 chain by hand, 2 issues, a pool of 1, 2 days, a day's limit of 1, a streak of 2, 1 mishap | the breaker's limits, a streak of failures that stops for good, one process under the lock, new rounds that begin or a stall that is reported as long as chains end |
| `evidence` | 4 defects, 2 of them at a time, 2 runs, 2 segments on 1 worker, 3 configurations, one with a parallel gate, 2 mishaps | the gate is sound inside the runner, no defect stays but after a kill or a Ctrl-C nothing catches, stamps are evidence, runs end |
| `feedback` | 2 assets, 2 commits, 1 rewrite, 1 death | no content is in two PRs but for one more per death; what is no longer a candidate has its content in a PR, or was left to a human and a PR carries a later commit on all of its files |

One run finds the code in disagreement with what it says of itself:

| Run | The sentence | What the code does |
|---|---|---|
| `second` | a PASS becomes a PR | the rebuilt branch cannot be pushed over what an earlier round left |

The modules state more such sentences in a section of their own. No run lists
them; a configuration with the constants named here, and everything else as
small as it can be, shows each violated within seconds:

| Property | Constants | What the code does |
|---|---|---|
| `TokensAreUnique` of `LocalLease` | as `prompt`, without its constraint | the release of an expired lock buries the still empty lock of a claim under way (`factory-lease.sh:241`), or a claim is killed between truncating the counter and writing it (`:184`): two claims print one epoch (against line 176). With 4 chains a claim in the gap between `mv` and put-back does it too (`:164`, against line 167, where a single writer stays) |
| `OnlyNewestPasses` | as `prompt`, without its constraint | a fence that read its own token judges the age of the lock that replaced it, and passes (`factory-lease.sh:218` and `220`, against line 213) |
| `OldTokenStaysAway` | as `prompt`, without its constraint | a heartbeat that read its own expired token judges the age of the lock that replaced it and moves the old token over it (`factory-lease.sh:194`, `196` and `205`, against line 198) |
| `SupersededNeverPasses` | `Timely = FALSE` | a heartbeat that stalls between its check and its `mv` replaces the next owner's lock, and the fence finds the old token fresh (`factory-lease.sh:205`) |
| `LossStopsOnlyItsChain` | `Crashes = FALSE` | a lost lease sends TERM to the dispatcher, which stops every chain (`factory-lease.sh:323`, against line 313) |
| `QuotaRespected` | `MaxLag = 1`, 2 keys, quota 1, clock 4, leases of 2 | a heartbeat whose transaction began before the expiry extends a lease after its slot was given away (`db/schema.sql:135`) |
| `WorksAlone` | 2 dispatchers, `Crashes` | the lock of a dead dispatcher is taken while its chains run (`factory_lib.py:793`) |
| `BeatsEndWithChain` | `Crashes` | the heartbeat asks for the dispatcher and outlives a killed chain (`factory-lease.sh:320`, against line 314) |
| `LabelsFollowFacts` | as `settle` | PR labels of earlier phases stay (`state.py:125`; `.factory/README.md:118` calls labels a pure function of the facts) |
| `ForeignLabelsKept` | as `settle` | a closed issue loses the labels that are not the factory's too (`state.py:104`) |
| `RejectedNotWorked` | one deed, `reject` | claiming leaves `rejected` beside `in-progress` (`factory_lib.py:875`, against line 600) |
| `NeedsHumanStops` | one deed, `reject` | redispatch filters by needs-fix alone (`factory_lib.py:958`; `dispatch.sh:15` adds "and not needs-human") |
| `HumanAfterThird` | one deed, `reject` | one standing request uses up the rounds (`state.py:130`; `.factory/README.md:138` speaks of the third request) |
| `ClaimNotAbandoned` | 1 machine, 2 slots, one deed, `reject`, `Renews = FALSE` | redispatch puts the issue on a chain, the queue lists its `accepted` meanwhile, the chain's trap takes both labels, and the queue claims the issue once more for a chain that is refused the lease and leaves `in-progress` (`fix-issue.sh` exits 4 before its trap) |
| `WorkIsMarked` | as `duo` | a chain whose fence said yes loses the lease, the next holder marks the issue, and the call takes the mark away: fence and call are two processes (`factory-lib.sh:50` and `58`, `fix-issue.sh:69` and `73`) |
| `BreakerMarkStays` | one deed, `reject`; one mishap, `exit` | sync strips the breaker's needs-human when a PR is open (`state.py:114`; `fix-issue.sh:92` says nobody does) |
| `OneOpenMarker` | as `labels` | "exactly one POST" (`hosting.py:1033`): a POST answered by an error is sent again; and of a directory without a pid two waiters take over together, since the second look compares an empty pid with an empty pid (`hosting.py:1084`) |
| `OneStoreForAllSites` | as `labels` | two machines do not see each other's locks, both find no marker and both post: one round counts as two (`hosting.py:107`; line 95 calls the lock one across processes) |
| `DegradedViewHidesNothing` | as `labels` | a view without the comments hides the labels that were never linked (`hosting.py:910` has it show too much instead) |
| `ListShowsLabels` | as `labels` | the list on Codeup filters by the platform's own labels, not by the markers (`hosting.py:972`) |
| `AlwaysOne` | as `night` | two take over one dead lock (`factory_lib.py:795`, against line 771) |
| `StalledMeansGone` | as `night` | the label goes on before the lease is taken, so a chain on its way is reported as gone (`dispatch_liveness.py:151`, against line 25) |
| `DeathCaught` | as `night` | a lock without a pid keeps every round away with exit 0, which counts as health (`dispatch_liveness.py:11`, "both are caught") |
| `LossReported` | `PgMode = TRUE` | with leases in PostgreSQL in-progress is skipped, and a chain that is gone is never reported (`dispatch_liveness.py:147`, against line 14); it holds with `PgMode = FALSE` |
| `BreakerHolds` | `Zone` "ahead" or "behind" | the lines of some hours carry the date of another day and do not count for the day that is over its limit (`fix-issue.sh:354`) |
| `NoOtherReader` | as `evidence` | the segments of a parallel gate that timed out read on (`mutations/run.py:25`) |
| `CtrlCPutsBack` | as `evidence` | a Ctrl-C after the write finds nothing remembered, one in the finally skips or cuts the write (`run.py:379` to `392`, against line 18) |
| `InterruptEndsAll` | as `evidence` | an interrupt leaves the segment that is not on the list yet, a second one those not waited for (`factory_lib.py:1356`, `1392`, against lines 1299 and 1380) |
| `NoDescendantStays` | as `evidence` | a group is taken for ended when its leader is (`factory_lib.py:1388`, against line 1354) |
| `EditsKept` | as `evidence` | what a person saves while a defect is in the file is overwritten (`run.py:20`) |
| `StampBindsWhatRan` | as `evidence` | the stamp names the version of the index at the end, not the one the gates loaded (`run.py:150`) |
| `StampCoversAll` | as `evidence` | `--only` with a part of the defects, or with none (`,`), stamps as well |
| `RedMeansRed` | as `evidence` | an exception has the exit code of a verdict (`factory_lib.py:1290`) |
| `SelfContained` | `feedback`, 3 commits | the closure is computed anew over the candidates, superseded ones included, and not over what the run feeds back (`feedback-upstream.sh:156`) |
| `BackAgain` | `feedback`, 3 commits | content that was undone and made again has a patch that was fed back and is never offered (`feedback.py:109`) |

`ClaimNotAbandoned` without `faults = 0` fails too: exits 2 and 4 of
`fix-issue.sh` come before its EXIT trap and leave `in-progress`, where
`.factory/README.md:145` has every non-zero exit clear it.

The type invariants of `IssueLife` and `Feedback` are proved and listed by no run;
`LabelSync`'s holds in its run's instance and is neither.

### Why the bounds are enough

- *Two* machines are what a race over a key needs, and two keys what a quota
  needs. Three chains in `LocalLease`: one to find expired, and two that judge it,
  of which the second may carry off the first's fresh lock. TLC does not go on from a
  state in which a window was hit: nothing is claimed of what follows. The theorems
  speak of any number. Three issues for two slots so that the pool is full with one to come.
- A clock of 2 and leases of 1 tick let a lease run out, be taken over, and the
  second lease run out.
- Epochs to 2 distinguish "older" from "current". The theorems remove this bound
  and the others of the arbiter.
- One slot per machine in `IssueLife`: chains that overlap come from another machine
  (`duo`). Two chains of one issue on *one* machine overlap as well, redispatch and
  queue each start one; `ClaimNotAbandoned` then fails, see above. `RoundsBounded`
  is proved for any number of slots.
- `MaxFixRounds` is 2 as in the code. Three deeds reach a request for changes,
  another, and a merge or close; one mishap reaches the half of a hand-over that
  the next round finds. Redispatch and sync go on without deeds, so the rounds
  are used up within these bounds.

- In `labels`, two slots of two calls are three processes around one lock: a dead
  owner and two that take over; the last call of the second slot is at a second site. One fault, because a second only makes them more. A lock
  belongs to one label, so one label is enough for the lock, and its view for the
  rest; the theorems speak of any number.
- `night` needs two days for a ledger that begins again and a counter that goes
  stale. Its limits are the smallest that one chain does not reach at once. Two issues for
  a pool of one: a killed dispatcher's chain and its successor's work at a time, which reaches
  the bound of `BreakerHolds`. With two
  mishaps a lost chain and a broken platform meet; that instance takes longer than
  a run is allowed.
- `evidence` has one defect for each gate and a second for the gate of tests, each kind of configuration a
  reader refuses, and one worker for two segments, so that one waits while the other
  is cut off. Two mishaps are an interrupt and a second one in its cleanup, or one that
  leaves a defect and another in the run that finds it. Two runs let the second find what the first left.
- `feedback` with one asset and three commits, where content is undone and made
  again, has 4 million states and was checked as well.

### Switches

Several constants separate what holds under an assumption from what does not,
so that no property is weakened in silence:

| Constant | What it stands for |
|---|---|
| `MaxLag = 0` | `now()` is the time a statement runs. `quota` needs it |
| `Timely` | no file operation straddles a tick (`prompt`) |
| `Zone = "utc"` | the local day begins with the UTC day (`night`) |
| `PgMode = FALSE` | the daily check reads lease files (`night`; none of its properties needs it) |
| `Faults` of `labels` | killed, refused, lost; the store is promised until a kill or a loss, the rest with all of them |
| `SiteOf` of `labels` | which processes share lock directories; the store is promised to the calls of one site, the rest to all |
| `Crashes`, `MaxLost` | processes stopped from outside; how many heartbeats fail |
| `Fault`, `MaxFaults` | what goes wrong around an issue (a call fails, landed or not; a chain ends before its trap; a chain is killed; a lease ends early), and how often |
| `Renews` | PostgreSQL (a machine's own claim renews) or lock file (it is refused) |
| `AutoMerge` | the round merges approved PRs |
| `Split` | the configurations whose gate for tests is a parallel gate; the others have one process group |
| `Human`, `MaxHuman` | which deeds people do, and how many |

The four properties of `LocalLease` are promised until one of the windows of its
protocol is hit (`crossed`), and `WorkStaysMarked` excepts the call of a chain that
lost its lease after the fence let it through. `OneDispatcher` is promised until somebody removes a lock other than the one he
judged or his own (`strayed`), `RoundsGoOn` excepts a lock without a pid and supposes that chains end (`ChainsEnd`), and
`StampIsEvidence` a run in which the target was saved or a gate crashed
(`troubled`). `GateSound` excepts an interrupt that its cleanup does not cover (`slipped`),
and `NothingLeftBehind` a kill and a Ctrl-C that does not reach the finally
with something remembered, or falls into it (`Killed`): what these leave must still never be
remembered as the original, and no run stamps on it. What happens in all
these cases is under the sentences above.
`ReapedBeforeRelease` excepts a chain that `Popen` started and the dispatcher had
not yet recorded when the signal fell: the code has that gap
(`factory_lib.py:719`). `duo` has no breaker trips, which relabel without a fence.

### Fairness

- `ChainPool`: the dispatcher's rounds and shutdown and the heartbeat loop's
  liveness test keep running, they are loops with sleeps and no waits without a
  limit. Chains are *not* fair: they wait for programs nobody bounds.
  `ShutdownEnds` holds all the same, through the grace period and SIGKILL.
- `LabelSync`: sync is run every round.
- `IssueLife`: rounds follow each other (`--watch`, or cron), their calls are answered,
  and a lease whose chain is gone runs out. That a call is answered is an assumption:
  `gh` is run without a time-out (`hosting.py:252`). Chains are *not* fair: the gate
  commands (`fix-issue.sh:512`, `521`) and `gh` have no limit, and a round waits for its
  chains without one. `QueueServed` is therefore conditional on every chain
  ending (`ChainsEnd`). People are not fair, and neither are mishaps.

- `HostingLabels`: on Codeup a process that is not killed goes on, its requests have
  time-outs (`hosting.py:604`) and its wait for a lock ends after 5 s. Calls on GitHub are
  *not* fair: `gh` is waited for without a limit (`hosting.py:252`, `466`), so `CallsEnd`
  is about Codeup. Starting calls is not fair.
- `CronDispatch`: cron starts the wrapper again and again, its steps and those of a
  chain before its work go on, and the daily check comes every day. That a chain ends,
  in the pool or by hand, is *not* assumed: its gates have no time-out and `wait_all` has
  no limit, so `RoundsGoOn` is conditional on it. Kills, days and a broken platform are
  not fair.
- `MutationRun`: the runner goes on (`communicate` has a time-out, and what follows a
  kill of the group another, `run.py:276`, `293`); gates and segments may hang for ever.

`ChainPool`, `LocalLease`, `HostingLabels`, `MutationRun` and `Feedback` runs allow
deadlock: once every dispatcher is dead, every chain done and the clock at its bound, or
the calls, runs and commits of the bound are used up, the system has stopped.
`Feedback` states no fairness: nothing in it has to happen.

## 4. Proofs

Each set of theorems is for every value of the constants, under the module's named
assumption, which only gives the constants their types (and, where the module says
so, keeps its special values apart). Where a theorem has a further hypothesis, its table or
the text below it says which and why.

### The arbiter

`LeaseArbiterProofs` proves of `LeaseArbiter`, for every set of tenants, machines and
keys, every quota, lease length, lag and bound (assumption `ArbiterAssumption`, which
only types the constants):

| Theorem | States |
|---|---|
| `TypeCorrect` | `TypeOK` is invariant |
| `Invariance` | the inductive invariant `IInv` below |
| `TokensIdentifyMachines` | `OneMachinePerToken`: an epoch of a key is told to one machine |
| `StaleTokensStayDead` | `StaleTokenNeverPasses`, with any lag |
| `RevocationIsImmediate` | `DisabledHoldNothing`, if `MaxLag = 0` |
| `QuotaHolds` | `QuotaRespected`, if `MaxLag = 0` |
| `RevivalNeedsClaim` | `RevivalOnlyByReclaim`, if `MaxLag = 0` |
| `ArbiterImplementsLease` | every behaviour of the arbiter is one of `FencedLease` |

`OneMachinePerToken` is not inductive: it speaks of past grants, and a new grant
must be compared with all of them. `IInv` adds that the audit trail never runs
ahead of a key's row (`EventsBelowRow`), so that a takeover's `epoch + 1` is new,
and that grants with the row's own epoch went to the row's machine
(`GrantsOfRow`), so that a reclaim that keeps the epoch keeps the machine too. A
stale token then fails the fence because the fence compares with the row, and the
row is at least as far as the later event. `RowsRegistered` and the last conjunct
carry revocation: a machine with a row is registered, so disabling it finds it.

For the refinement, each action maps to one of the abstract actions: a granted
claim and a heartbeat to `Grant`, a release, a revocation and the passing of time
to `Lapse` of the keys they end, everything else to a stutter.

The quota is inductive once it says that a tenant's live leases are finitely many
(`Quota`; the set of keys need not be): a granted claim adds one to leases that
were fewer than `max_parallel`, and after every other step a row that is live was
live before. The same fact gives `RevivalNeedsClaim`. A status plays no part in it:
by `DisabledHoldNothing` a token whose lease is live passes the fence. `MaxLag = 0`
is necessary for these three, section 3 names the instance in which the quota is
exceeded without it.

### The lock file (`LocalLeaseProofs`)

| Theorem | States | Needs |
|---|---|---|
| `LocalTypeCorrect` | `TypeOK` | |
| `NoTokenIsPrintedTwice` | `OneChainPerToken` | `Timely` |
| `DeadTokensStayDead` | `SupersededNeverPasses` | `Timely` |
| `CounterOnlyRises` | `CounterNeverFalls` | `Timely` |
| `LockFileIsFenced` | `ImplementsFencedLease` | `Timely` |

The chains are any number, a lease is any number of ticks, whoever is killed may be
killed between any two file operations, and a release may come after the lease ran
out. What the properties except is in their statements: the behaviours in which one of
the four windows was hit (`crossed`). So the invariant is `Sound`: a window was
hit, or `IInv` holds.

What the steps share is a name in a directory, so `IInv` is about who *owns* it: a
claim that has created the lock and not written it yet, and a chain whose token is in
the lock and fresh, in one that is moved away and still fresh, or about to be written
by a heartbeat. There is at most one owner (`SoleOwner`), an owner that holds the lease
has the latest token (`OwnerIsLatest`), and while there is one a fresh lock lies there or
is moved away (`OwnersOccupy`), so that nobody else creates one without hitting a
window. A chain that finds its token in the lock, expired or not, has the latest one
(`MineIsLatest`), which is what shuts the fence. The counter is ahead of every token and
every file (`Counted`), and a buried file never has the token of a chain that holds the
lease (`TombsAreDead`). Time does the rest: an expired lock has lain there since a tick
at which every chain rested (`ExpiredRests`), because with `Timely` no operation is under
way when the clock ticks. So whoever carries off an expired lock carries off nobody's.

For the refinement, writing the lock is a `Grant` with a larger token. Moving the
lock away ends what the abstract lease calls held, a `Lapse`, and putting it back is a
`Grant` that renews the last holder; so is a heartbeat's write. All else is one of
these or a stutter.

### The pool (`ChainPoolProofs`)

| Theorem | States |
|---|---|
| `PoolTypeCorrect` | `TypeOK` |
| `SlotsHold` | `SlotsRespected` |
| `LockOutlivesChains` | `ReapedBeforeRelease` |

`SlotsRespected` counts chains that run, the code counts its list. The invariant ties
them: a running chain is in the list or is one that `Popen` has just returned
(`Recorded`), and there is room in the list wherever the dispatcher is about to start
one (`Room`). A signal between `Popen` and the append leaves a chain that no list has,
and the dispatcher then starts no other; so the count holds, and the exception is
in `ReapedBeforeRelease` alone. `HolderWorks` says that who works has the lock.

### The life of an issue (`IssueLifeProofs`)

| Theorem | States | Needs |
|---|---|---|
| `LifeTypeCorrect` | `TypeOK` | |
| `RoundsStayBounded` | `RoundsBounded` | one machine |
| `HolderKeepsMark` | `WorkStaysMarked` | `Undisturbed` |
| `NoClaimIsAbandoned` | `ClaimNotAbandoned` | one machine, one slot |
| `PlanSparesLocks` | no plan for an open, unmarked issue takes a lock from it | |
| `OnePassSettles` | a pass after a pass plans nothing, unless the phase of the PR moved | |

- *Rounds*: a redispatch is paid for by a `needs-fix` event (`Paid`): the label is on
  the PR, or a dispatcher took it off and is on its way to the spawn, or the spawn is
  counted. A sync plans the event only below `MaxFixRounds`. Slots, deeds and mishaps
  are any. Two machines may each plan an event from one count, so `adds` passes
  `MaxFixRounds` there; hence one machine, and `TypeOK` has no bound on `adds`.
- *Mark*: only a chain that its fence let through takes the lock label off an issue
  that is worked on, since a sync plans no removal from an open issue without a marker
  (`Steady`). The chain at work does not, so it is another one, and with the lease
  where it is that one has lost its own since it was fenced: the exception in the
  property. Machines are any; calls fail, leases lapse, chains are killed. `Undisturbed` excludes what
  takes the mark away by design: people or the round close, merge or mark the issue;
  `exit`, which includes the breaker's unfenced relabelling; and several slots of a
  machine that renews its own lease, where two chains hold one token.
- *Claim*: `Owned` says whose `in-progress` is: a dispatcher's before its spawn, a sync's
  that is about to take it, a chain's that has the lease, or the queue's, when
  `accepted` is there too. `LeaseIsOurs` says that the chain inside its lease holds it
  and nobody else does, which is where two slots fail (section 3).

`PlanSparesLocks` and `OnePassSettles` are about `Plan` itself, for every combination
of labels and facts: `factory-state.sh:6` calls sync convergent and idempotent. The
condition on the phase is needed: the `needs-fix` that a pass adds may be the last
that `MaxFixRounds` allows, and the next pass plans `needs-human` then.

### The adapters (`HostingLabelsProofs`)

| Theorem | States |
|---|---|
| `HostingTypeCorrect` | `TypeOK`, and that exactly the calls between rename and second look have a directory in their hands |
| `HistoryIsNeverShort` | `HistoryNeverShort` |
| `AnswersHold` | `AnswersAreTrue` |
| `AdaptersAreALabelStore` | `ImplementsLabelStore`, whose exceptions are in its statement |

The first three rest on one invariant, `Inv`: which steps belong to which operation
(`Placed`), that `was[c]` has at least what is on and off now (`Seen`), and what
a call has found out so far (`Told`). It holds with all faults, because no step
undoes what it says: a marker is never removed and never opened again (`Kept`). So
a reader that counted the open markers and has yet to count the resolved ones is
owed at most those: what it told plus the closed markers is at least what there
was when it began. Read the other way round, a marker resolved in between is
missed, and that is the mutant.

The refinement needs the lock, and the lock is one per site, and not safe once a call
was killed. As long as the calls so far are of one site and faults are refusals only
(`Calm`), `LockInv` holds: a directory names a call that is
alive at one of the steps under the lock, the pid in it is that call's or not
written yet, and nobody renames. So `Judge` never finds one stale, two calls never hold one lock,
and a call that is about to post still sees no open marker. Then `Post` is the
store's `Add`, `Resolve` is its `Remove` when it resolves the last open marker, and
everything else stutters.

### The night (`CronDispatchProofs`)

| Theorem | States |
|---|---|
| `NightTypeCorrect` | `TypeOK` |
| `OneDispatcherAtATime` | `OneDispatcher` |
| `PoolsStayBounded` | `Pooled`: a dispatcher has at most MAX_PARALLEL children, and living chains without one are at most `orphaned` |
| `BreakerIsBounded` | `BreakerHolds`, if `Zone = "utc"` |
| `StopIsFinal` | `TripIsFinal` |

The lock names the one that works under it until somebody strays (`Held`). A
process that starts takes a number nobody remembers; that there is one is a count:
there are more numbers than processes that could remember one (`FreshNumber`).

`BreakerHolds` counts lines of the ledger, and lines appear when chains end, so it is
not inductive. What is (`Pot`): today's lines together with the chains that were let
in are fewer than the limit plus the number of chains at a time, and so are the lines
of the streak. Letting one in needs lines below the limit, and an end exchanges a
chain for a line. That the chains let in are no more than `Chains` is a count of its
own (`AtMostChains`): each child of a dispatcher is given a place among its
MAX_PARALLEL ones, the rest are orphans. `Chains` grows with the orphans of a kill, so
the lemmas carry the bound across a step. `Dated`, that a line has the date of the day
it was written on, is what another `Zone` takes away.

`TripIsFinal` holds because who writes a line was let in, and the gates let in nobody
while the streak stands (`StopNext`).

### Gate and runner (`MutationRunProofs`)

| Theorem | States |
|---|---|
| `GateIsSound` | `GateSound` of the gate by itself |
| `RunnerTypeCorrect`, `RunnerGateSound` | `TypeOK` and `GateSound` inside the runner |
| `NoDefectStays` | `NothingLeftBehind` |
| `StampsAreEvidence` | `StampIsEvidence` |

The gate's invariant says that a segment waits, is on the list, has its return code in
`rcs`, or is the one that `Popen` has just started (`Sorted`, `Fresh`); the bound counts
this one with the list (`Bounded`), and once the loop is left there is none, unless an
interrupt slipped through (`Swept`). The runner's theorems use it as it is and add
where a defect can be: in the target from the write to the restore, and never in what is
read or remembered, since the target is compared with the index before it is read (`Files`);
and that a verdict of this run has its witness, unless it was troubled (`Evidence`).

### Feedback (`FeedbackProofs`)

| Theorem | States |
|---|---|
| `FeedbackTypeCorrect` | `TypeOK` |
| `NothingForgotten` | `Accounted` |
| `BookedContentStaysHome` | `FedOnce` |

An id names a place in the history for good, and a rewrite keeps patch and files of
the place. So a ledger line, written under whatever id, speaks of content that the
history still has (`Known`), and that content, or that of a later place that touches all
of its files, is in a PR (`Covered`). The direction matters: with an earlier commit
allowed to cover a later one, a second change of a file would be lost unseen. A
covering chain only leads to later places, so what covers the last covers the first.
`Accounted` speaks of PRs, not of what upstream merges.

`FedOnce` counts PRs, and a PR is opened long before its ledger lines are written,
so it is not inductive. What is (`Once`): the PRs that carry a content are at most the
deaths so far, and one more only if the content is *spent*: booked, or in the list of
the run whose PR is open. A run opens a PR with content that is not booked, so it
was not spent; a death between PR and line unspends and counts.

### What stays with TLC

- Of the action properties, `LocksSpared`: `PlanSparesLocks` proves what it needs of the
  label function, the run checks it for the issue it is applied to.
- Every liveness property (`ShutdownEnds`, `BeatsEndWithDispatcher`, `Settles`,
  `QueueServed`, `CallsEnd`, `RoundsGoOn`, `RunEnds`): fairness and
  ENABLED are beyond the prover. Of `Settles`, `OnePassSettles` proves the step.
- What the hypotheses above exclude: two slots and mishaps in the life of an issue
  beyond those named, stalls of the lock file's operations. There the sentences
  of section 3 show what happens.

## 5. Not modelled

- *Hosting adapters, the rest*: issues and their labels (`issue_set_labels` of Codeup
  reads and writes without a lock, `hosting.py:771`), comments on issues (looked for,
  then posted), creation of issues (posted again on the other endpoint), merging,
  diffs, and the translation of requests and answers.
- *Night*: the watch mode, a floor or a ledger that cannot be read, the `shlock`
  branch of `cron-dispatch.sh` (lines 32 to 40), the half of
  `check_stalled_labels` about `rejected`, and the routing and the reconciling of
  regressions (`factory_lib.py:535`, `579`), which map a list of issues to a list of deeds.
- *Mutation runner*: a disk that is full, line ends that differ, defects of several targets, targets
  that are not tracked, the Go runner of the SDK, which works on a copy.
- *Feedback*: ledger lines of the old form without a patch, the guard on commits of the
  ledger, conflicts of a cherry-pick with the adapted manifest, the report of
  drift. Two runs at once: the script takes no lock, and would open two PRs.
- *Upstream sync*: one process in one checkout, run again from the start.
- *Guard's and validation's matching of text, docstring gate, receipts, parser of
  agent output*: text in, verdict out, no state.
- *Cryptographic primitives*: wide-integer arithmetic; test vectors say more.
- *The SDK's pipelines and caches*: one call at a time, nothing kept between calls; the configuration cache and
  the default client are next in the plan, their hazards are listed.

Inside the modelled parts: wording of comments and logs, parsing of psql output,
the agents' nodes beyond their outcome, machine ids, file system errors, the
order of the queue among issues.

## 6. Plan

Done: `FencedLease`, `LeaseArbiter`, `LocalLease`, `ChainPool`, `LabelPlan`,
`LabelSync`, `IssueLife`, `LabelStore`, `HostingLabels`, `CronDispatch`,
`ParallelGate`, `MutationRun`, `Feedback`, with the proofs of section 4.

Next modules, in order:

1. `ConfigCache`: concurrent `Load` and `ClearCache` over a file that changes, the
   default client and its cached error on top. Abstract specification: a load
   returns a snapshot the file had during the call.
2. `RegressionRouting` as one more actor around `IssueLife`'s issue, and the issue half of
   `hosting.py`.
3. `VerifyPipeline`: which error each combination of faults shows.
4. `ParseAgentJson` and the priority order of the queue against a reference
   definition.

Theorems worth proving next:

- `LabelSync`: `LocksSpared`, and that the round counter it computes is the number of
  needs-fix events;
- `LocalLease`: what survives a window, for instance that the counter falls only when a
  claim is killed inside its write;
- `IssueLife`: that at most one chain works on an issue as long as leases do not
  lapse, on any number of machines, as a refinement of `FencedLease`;
- `MutationRun` as an implementation of an abstract runner that applies one defect,
  asks one gate and restores.
