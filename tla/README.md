# A verification of prism-harness

Specifications in TLA+ of the parts of `src/src/prism_harness/` whose
correctness depends on interleavings, crashes, failures of single steps or time,
with the TLC configurations that check them on small instances and proofs,
checked by TLAPS, that hold for every instance. Line numbers are those of the
files under `src/src/prism_harness/` unless another path is given.

- [1. The system](#1-the-system)
- [2. Modules](#2-modules)
- [3. The file owner lock](#3-the-file-owner-lock)
- [4. The task list](#4-the-task-list)
- [5. The address index](#5-the-address-index)
- [6. Turns, approvals and the session](#6-turns-approvals-and-the-session)
- [7. A tree of runs](#7-a-tree-of-runs)
- [8. Tools and what is offered](#8-tools-and-what-is-offered)
- [9. Files of the session store](#9-files-of-the-session-store)
- [10. Runs](#10-runs)
- [11. Proofs](#11-proofs)
- [12. Findings](#12-findings)
- [13. Not modelled](#13-not-modelled)
- [14. Plan](#14-plan)

## 1. The system

prism-harness runs LLM agents in *sessions* that survive the process. A session
has an ephemeral and a durable document in a *session store*, a conversation
*thread*, and a run that may stop to wait for a human *approval* and be resumed
by another process. Agents take work from a *task list* under leases, spend a
*budget* shared with their subagents, and keep their resources under *addresses*
that are indexed so that everything of a participant can be erased.

Everything that is shared between processes goes through `SessionStore`
(`stores/base.py`): `get`, `put`, `forget`, and `with_lock(key, seconds,
wait_seconds, callback)`. `with_lock` is the one primitive of mutual exclusion;
the task list, the thread, the address index and the sessions are all
read-modify-write sequences in its callback. That makes the lock the most
important part, and the first one modelled.

| Component | State | Operations | What is hard | What makes it correct |
|---|---|---|---|---|
| **File owner lock** `stores/_file_owner_lock.py`, `_file_lock_identity.py`, `_file_lock_read.py` | a directory at the lock path with one owner record named by a nonce, a release temporary, the pending releases of each process | acquire, inspect, reclaim, release, retry a release | many processes, each file-system call a step; death at any step; pid reuse; unknown and foreign identities; refused calls | one callback at a time; a live holder's record is left alone; unproved owners are never reclaimed; no failed release is forgotten; a death does not wedge the key |
| **Task list** `tasks.py` | the list of task records under one key; what each worker was told | add_many, claim, release, extend_lease, records, find, pending | leases that lapse while held; whole-second expiries; waiting for the lock between a decision and its use | one worker at a time for a task; a worker within its lease is never refused; ids unique; no claim lasts for ever |
| **Address index** `address_index.py` | head with count and journal, pages, entries; the indexed stores' data | record, recover, page, put, forget | an append is four writes, interrupted anywhere; readers without the lock; the quota | no data without an index entry; recovery finishes an append once; readers see committed positions in order |
| Session addresses `address.py` | none | format and parse a key | - | distinct addresses have distinct keys |
| Session state `session.py` | ephemeral and durable documents, and a copy of both in every `Session` instance | set mode, model and provider, begin, complete and fail a run, capabilities, lock, forget | instances in several workers write whole documents from their cache | a superseded run changes nothing; nothing another worker wrote is undone |
| Agent runtime `runtime.py` | the run in progress, its pending calls and the decisions on them | turn, loop, resolve approvals, run approved calls | crash between a tool's effect and its recorded result; two resuming workers | an approved call runs once; every call gets one result |
| Conversation thread `thread.py`, `thread_rows.py` | rows with positions | record, rows, fold into turns, approval scope | concurrent appenders; rows of an interrupted turn | positions dense and unique; the fold pairs every call with its result |
| **Budget, ledger, subagents** `subagents.py`, `subagent_runner.py` | steps, money and time used by a tree of runs | charge, cancel, nest, exhaustion, refuse or run a subagent | a child's relative budget inside its parent's cumulative one; responses without a cost; cancellation meeting a charge; subagents that call each other | no tree spends more than its root allows but for the step in flight; a child is not refused what is left; every tree ends |
| **Tool registry and authorization** `tools.py`, `registration.py`, `runtime.py` 264-299 | tools, factories, providers and their owners per namespace; an authorizer's options | register, replace, resolve, narrow, offer, check a call | registrations of several owners and kinds under one name; names that only resolve time knows; options that agents override one by one | one registration a name; what is offered is what was listed; no completion without a call policy |
| File session store `stores/file.py`, `_file_state_io.py` | one file per key, with expiry | get, put, forget, with_lock | get removes what it has seen expire | a put that returned is not lost |
| Memory store, store manager `stores/memory.py`, `manager.py` | a map, threading locks | the same, choice of a driver | process-local | as above in one process |
| Modes, skills `modes.py`, `skills.py` | tables of lists and texts | register, replace, look up | - | a mode's list is the ceiling |
| Structured output `structured.py` | none | validate a document | - | - |
| Facade, doctor, attachments, events, errors | wiring | - | - | - |

How they interact: sessions, threads, tasks and the index call `with_lock` and
then `get` and `put` of a store inside the callback; the runtime holds a session
lock around the approvals it resolves and calls the thread inside it; indexed
stores call `record` (which takes the index lock) before each `put`; workers
call the task list with the budget of the run they are in, or let the model call
it through the tool `complete_task`; a turn gets its tools from the registry
through the authorizer, and some of those tools send whole runs of their own, on
the same ledger.

The hazards are listed, each at its line and with the properties that would
catch it, in `PROJECT.json`.

## 2. Modules

| Module | What it is |
|---|---|
| `AbstractLock` | what `SessionStore.with_lock` promises |
| `FileOwnerLock` | the file lock, one action per file-system call; implements `AbstractLock` |
| `MCFileOwnerLock` | its instances for TLC |
| `FileOwnerLockProofs` | its proofs |
| `TaskSource` | the contract of `AgentTaskSource` |
| `TaskList` | `StoreTaskSource`; implements `TaskSource` |
| `MCTaskList` | its instances |
| `TaskListProofs` | its proofs |
| `AddressLog` | what the index promises: a list that only grows |
| `AddressIndex` | `StoreAddressIndex` and `IndexedSessionStore`; implements `AddressLog` |
| `MCAddressIndex` | its instances |
| `PageArithmetic` | lemmas on div and mod for an unknown page size |
| `AddressIndexProofs` | the proofs of the index |
| `Approvals` | what approvals promise, whoever resumes and when |
| `AgentTurns` | `send`, the resolution of approvals, the loop of a turn, `record_approval`, on one thread; implements `Approvals` |
| `MCAgentTurns`, `AgentTurnsProofs` | its instance and its proofs |
| `SessionState` | the ephemeral document and its copies in `Session` instances |
| `SessionStateProofs` | its proofs |
| `RunTree` | a run and the subagents below it: budgets, one ledger, cancellation |
| `MCRunTree`, `RunTreeProofs` | its instance and its proofs |
| `ToolRegistry` | one `ToolRegistry`: registrations, and how names resolve |
| `ToolOffer` | extends it with a turn: mode, narrowing, authorizer, offer, calls |
| `MCToolOffer`, `ToolOfferProofs` | its instance and its proofs |
| `FileStore` | one key of a `FileSessionStore`, file-system call by call |

The layers rest on each other: `TaskList` and the writers of `AddressIndex` take
the operation under the lock as atomic, or as free of other writers, because
`FileOwnerLock` is shown to implement `AbstractLock`; `AgentTurns` takes the
session lock and the appends to the thread from it in the same way. An operator whose comment
calls it a *variant* of another is a plausible mistake in the definition that
follows it; `PROJECT.json` ("mutants") says which property notices it. No
specification uses a variant.

## 3. The file owner lock

`with_file_owner_lock` prepares a private candidate directory with one owner
record in it and renames it to the lock path. The rename succeeds for one
contender; the others inspect the record they find, reclaim it if it is released
or its owner is proved dead, wait, and try again until a deadline.

| Model | Code |
|---|---|
| `canonical` | the lock path: absent, a directory, or something else |
| `owners`, `released`, `temps` | `owner-<nonce>.json` files in it, those that say released, the `.release.tmp` files |
| `pend` | `_pending`, the releases a process still owes, with `owner_removed` ("rmdir") |
| `pc`, `mine`, `job`, `mode`, `sawTemp`, `todo` | where a thread is, its own nonce, the record it works on and why, what its listing showed, which pending releases it still has to flush |
| `dead` | pids that name no process |
| `Begin`, `Flush`, `Refuse`, `Publish`, `Blocked`, `Again`, `GiveUp` | the acquisition loop, 290-358 |
| `List`, `Read`, `Probe` | `_inspect`, 187-230 |
| `CleanTemp`, `CleanOwner`, `CleanDir` | `clean_owner`, 168-185 |
| `Exit`, `RelRead`, `RelWrite`, `RelReplace` | the callback's end and `_release`, 232-256 |
| `Raise`, `Fault` | a refused call: an inspection says "held", a release becomes pending |
| `Crash`, `Restart` | a process dies; its pid is given to a new one |

Abstractions. There is one key; keys share nothing but the order in which
pending releases are flushed. Candidates are private to the thread that makes
them, so they appear only as that thread, and the leftovers of a crash before
the rename are left out. `lstat` and `rename` are one step because only a foreign
file makes `lstat` matter and nobody creates or removes one while the program
runs. The retries of a single call (five times on Windows) are one call. Waiting
is a choice between `Again` and `GiveUp`. A nonce is 128 random bits: `Draw` takes
one that nothing mentions, so a nonce recurs only when no step could tell it from
a new one; nonces are only compared, and the states that differ by the choice are
permutations of each other, which is also why they may be a symmetry set. The
pools in the instances are large enough never to run dry. `LooksDead` answers the
truth for a pid of the asker's own namespace and anything at all for another.
`Identity` is whatever the process could establish, or `Unknown`; how it is
sampled and cached is left out. `RenameOverEmpty` tells POSIX from Windows.

Safety: `MutualExclusion`, `HolderKeepsRecord`, `OnlyRealmRecovers`,
`RecordAccountedFor`, and `ExclusiveCallbacks`, the refinement of `AbstractLock`.
Liveness: `PendingRetired` and `LockUsable`. Fairness is weak fairness of each
thread's `Step`: the operating system schedules every live thread, callbacks end,
and threads keep asking for the lock, which is what retries a pending release. A
fault, a crash or a reuse of a pid is never forced. `RecordAccountedFor` is
checked while no pid is reused: the record of a dead process whose pid names a
new one has nobody to answer for it, which the code accepts (it is "held" until
an operator looks).

## 4. The task list

`StoreTaskSource` keeps the whole list in one document and changes it under the
store's lock, so each operation is one action. `left` is the number of ticks
until `lease_expires_at`; `phase` is the part of the current second that has
passed, because timestamps are cut to whole seconds (`TicksTo`, 1008) and a lease
may end up to a second early.

| Model | Code |
|---|---|
| `tasks` | the stored records: id, state, claimed_by, ticks to the expiry |
| `hand` | what each worker was last told about its lease: history, read by no action |
| `runLeft`, `stopped` | `remaining_seconds` and `exhaustion` of the run of a worker |
| `ask` | an extension that has been granted a length, or a completion that found its task, and waits for the lock |
| `AddMany` | `add_many`: ids of the caller or made up from the position, all or nothing |
| `Claim`, `ClaimNothing` | `claim`: expire, first todo task, write |
| `Release` | `release`; every other case raises and writes nothing |
| `AskCompletion`, `Complete` | `TaskCompletionTool.handle`: find and check outside the lock, then `release` |
| `AskExtension`, `Extend` | `extend_lease` before and inside the lock |
| `Refused` | either of the two is refused inside the lock, or never gets it |
| `Stop`, `Tick` | the run is stopped; time passes |

`extend_lease` is two actions because the code reads the run's clock before it
waits for the lock and uses the result afterwards; `complete_task` is two because
it finds the task and its holder without the lock (812-817) and releases it after:
what it saw may be over by then, and only the check that `release` repeats under
the lock (`Holds`) keeps it from closing somebody else's claim. Batches have all ids chosen or
all made up; mixed ones add no case, as ids meet only by being equal. The wall
clock does not step back.

Safety: `LeasesExclusive`, `LeaseHonoured`, `IdsUnique`, and `ImplementsContract`,
the refinement of `TaskSource` by what `records()` shows. Liveness: `ClaimsEnd`.
Fairness is on `Tick` alone: any worker may stop for ever, and the claim of a worker
whose run is capped still ends.

## 5. The address index

`record(address, resource)` runs under the index lock. For a new address it puts
a journal into the head, puts the address on its page, writes its entry and
writes the head again without the journal, which commits the append.
`_recover`, which starts every `record` and `recover`, carries out the last three
of these for whatever journal it finds.

| Model | Code |
|---|---|
| `head` | the head document: count, pages, pending (`journal`) |
| `page`, `entry` | the page documents and the entry documents |
| `data` | the resources the indexed stores hold |
| `lock`, `pc`, `call`, `own` | the holder, where each caller is, what it records, whether the append under way is its own |
| `scan` | what a caller of `page` has read so far |
| `corrupt` | somebody was told that the index is invalid |
| `Begin`, `Link`, `PutEntry`, `Commit` | `_recover`, one action per write |
| `Known`, `Attach`, `Refuse`, `Prepare` | the four outcomes of `record` |
| `Put`, `Forget` | `IndexedSessionStore.put` and `forget` |
| `Open`, `Turn`, `Pick`, `Close` | `page`, one action per read |
| `Interrupt` | a write raises, or the process dies: the lock is freed, nothing else happens |

Abstractions. One participant; its documents are shared with no other. What a
writer reads under the lock is read with its next write. The resources of an entry are a
set: their order is that of their arrival and nothing depends on it. The quota is
the same for all callers. Keys are hashes and taken to be distinct.

Safety: `DataIndexed`, `NeverCorrupt`, `QuotaKept`, `ScanFaithful`, and
`ImplementsLog`, the refinement of `AddressLog`. Liveness: `AppendRecovered`.
Fairness is weak fairness of every worker's `Writing` (a caller that is not
interrupted goes on) and of `Begin` of some worker (callers keep coming: nothing
else recovers an index).

## 6. Turns, approvals and the session

A turn narrows the tools its run is offered, resolves the approvals it finds
decided in the thread, records its prompt, and then alternates model steps and
tool calls until the model calls nothing, the budget is out, a call is refused,
or a call needs a person. Any number of workers do this on one thread. The
resolution looks once without the session lock and again under it.

| Model | Code |
|---|---|
| `rows` | the stored messages: prompts, replies with calls, approval requests and tool scope, result rows with results and decisions |
| `ran` | how often the effect of each call has happened; no code reads it |
| `holder` | the session lock |
| `pc`, `offered`, `todo`, `got`, `waits` | where a worker is in `_turn`, and its locals: tools, calls still to run, results of the row it will record, whether the step made requests |
| `Asking`, `Answers`, `Unresolved` | `_unresolved` on the view of the thread: last turn with calls, first block of result rows after it, gated calls without a result |
| `Scope`, `Narrow` | `approval_tool_scope` and its use in `_turn` |
| `Look`, `Take`, `LockBusy`, `Resolve`, `RunApproved`, `Record` | `_resolve_approvals`, 628-710, and `_run_approved` |
| `Prompt`, `Exhausted`, `Respond`, `FailedStep`, `RefuseAll`, `Invoke`, `RecordResults` | `_turn` and `_loop` |
| `Decide` | `record_approval`: any request, at any time, also twice |
| `Effect`, `Unwritten` | `_invoke`: the tool runs and has a result, or one that `json.dumps` refuses outside the `try` (808), which ends the turn |
| `CutOff` | a crash, or an exception of the model, a store or a listener, at any point |
| `faults` | turns cut off, and turns ended by the result of an approved call: history |

Abstractions. A call stands for its id, its tool and its approval, whose ids are
all fresh; a reply calls each tool once. `Gated` is the same for all turns, so the
mode is. The budget may stop the loop before any step. Which tools a run is
offered (`Offers`) and whether the authorizer refuses a call are free. The row that
resolves a turn repeats earlier results and decisions of the same block, which
changes nothing that is read. Rows of 0.1.0, legacy scopes and structured output
are left out. There is one session lock for all workers: that needs an ephemeral
store all of them share, or an address index (`session.py` 87-89); with a memory
store per process nothing excludes two processes.

`Approvals` says the same of gated calls without workers, rows or locks: calls are
asked about, a person approves or denies them, a call that was approved and offered
runs while nothing is settled about it, and what is told of a call is so ("denied"
only if somebody denied it, "ran" only if it did). The mapping reads it off the thread:
`Requested`, `Scoped`, `Approved`, `Denied` and `Told`; a turn that is cut off is a
`Cut`, and a `Run` whose result cannot be written is one at the same time. Calls of a failed step, and free calls, are no concern of it. It
leaves open that a call that ran is told about again, which the code does (finding
2), and when "no response" is said, as a decision may come behind another row.

Safety: `NeverAgain`, `ApprovedOnly` (and within scope), `RunsBounded`,
`NoFalseRefusal`, `ToldOnce` (finding 2 needs somebody to speak between a request and
its first result), and `ApprovalsHonoured`, the refinement. Liveness: `Answered`, under weak fairness of each worker's `Step` (a turn
that is not cut off goes on: model and tools return) and of `Send` (somebody
sends again, with an empty prompt perhaps; "nothing runs until the next
`send()`", `runtime.py` 874). `MaxFaults` also bounds how often an approved tool
returns what JSON refuses: `Answered` says that its call is answered if it stops doing
so. One that never does keeps its call waiting for ever and runs at every turn
(section 12). `NeverAgain` is subtle: as finding 2 shows,
`_unresolved` may overlook a result, and only the empty scope of a thread in which
somebody has spoken since keeps the call from running again.

`SessionState` has what a turn writes beside the thread: the run in flight and
the mode, in one document that every `Session` instance caches whole and writes
back whole. A turn never acts on it, so it is a module of its own. One
step is one `get` or `put`. It states `SupersededKeepsOff` (finding 3), and
`LiveNotOver`, what holds in spite of the finding: the document never says of a
run that goes on that it is over.

## 7. A tree of runs

A run that calls a subagent tool runs the child inside the tool call, on the
same `RunLedger`. A budget declares steps, cost and seconds relative to where it
starts; `nested_within` turns a declaration into ceilings on the cumulative
ledger, inside the caller's. Tools run one after the other, so the live runs are
a stack and only its last element acts.

| Model | Code |
|---|---|
| `root` | the budget of the context the host made: history once the tree has ended |
| `stack` | the live runs: the context each was sent with, its budget after `_bounded_run`, where it is, the calls left of its reply |
| `steps`, `cost`, `unmetered`, `clock` | `RunLedger` |
| `stopped` | the ledger's cancellation, and how many steps had been taken: history |
| `Nested`, `Bounded`, `Exhaustion` | `nested_within`, `_bounded_run`, `exhaustion` |
| `Starts` | `_turn` up to the loop: the run begins with its check, or with the approved calls that `_resolve_approvals` runs before it (431) |
| `StopEarly`, `Ask`, `Answer`, `Fail`, `Proceed`, `Unauthorized` | `_loop`: check, request, charge and calls, an exception, the end of a batch, a refused call |
| `UseTool`, `Refuse`, `Spawn` | a call that is no subagent or fails, `SubagentRunner.run` refusing, and running |
| `Cancel`, `Tick` | `cancel` by anybody, the monotonic clock |

The package mounts no subagent tool itself: the host decides which context a tool
carries, and the model takes the one of the run that calls it. `Ceiling`
(`max_steps_ceiling`) narrows a run's own budget and not the context its children
nest in, as in the code. A request that raises is not charged (`Fail`). Whatever
a child returns goes to its caller as a tool result, so the wording of that
result (a child cancelled midway says "exhausted", one that waits for a person
"completed") is left out. The root has depth 0 and `Refuse` says no at
`MAX_DEPTH`. Output ceilings bound one request and are left out.

Safety: `TreeWithinBudget`, `CostCapHolds`, `StopsWhenCancelled`, and
`ChildMayStep`, the other side of it: the tree is not refused what it has left.
It is what a child with no cost cap under a caller with none depends on when some step
has reported no cost, so the instance has a root with steps only beside the capped one.
Liveness: `TreeEnds`, under weak fairness of `Step` (a model or a tool answers or
raises); mutual recursion of modes and models that never stop calling are in. The
tree ends, so deadlock is not checked.

## 8. Tools and what is offered

`ToolRegistry` is one namespace, a legacy one, a legacy one that refuses
duplicates, or that of a named agent; `for_agent` makes one more of the same. What
a provider finds and what a factory builds is known when names are resolved and
may differ every time, so they are parameters (`found`, `builds`) of `Resolvable`
and `Resolved`, and any value is tried. A provider finds a set of names: one that yields
a name twice is refused by a strict registry, which changes no state, and in a legacy one
its second tool takes the place of its first under the same claim. `ToolOffer` adds the turn.

| Model | Code |
|---|---|
| `kind` | the agent and `refuse_duplicates` of a registry; both but a plain legacy registry are `Strict` |
| `tools`, `factories`, `providers` | `_tools` and `_static_owners`, `_factories` and `_factory_owners`, `_providers` in order |
| `metadata` | `_metadata`: the last claim on a name |
| `Register`, `Replace`, `RegisterFactory`, `ReplaceFactory` | the four callers of `_claim` (`Claimable`, `Kept`) |
| `RegisterProvider`, `RegisterAnonymous`, `ReplaceProvider` | `register_provider` with and without a name, `replace_provider` |
| `Resolvable`, `Detail`, `Resolved` | `resolve_detailed`: when it raises, and what a name becomes |
| `Claimed`, `Renames` | the copy of `_metadata` that a legacy factory which builds another name rewrites (243-252) |
| `Admits`, `Names` | `_narrowed_tools`, and the widening a legacy runtime may allow |
| `Scoped`, `Allows`, `Checks`, `Safe` | `ToolAuthorizer.for_agent`, `allowed`, `allows_call`, the refusal in `_offer` (275-283) |
| `Begin`, `Call`, `End`, `Change` | a turn gets its offer, the model calls a tool of it, the turn ends, a registration is made |

A turn keeps the tools it resolved, so one that is under way when the registry
changes is not affected and not followed further (`Change`). Policies are the
host's code: an offer policy may refuse any tools; a call policy's answer only
decides whether the handler runs. `ran` remembers, for each call whose handler
ran, whether the policy was asked.

Properties: `ClaimsExclusive`, `OfferFaithful`, `CompletionGuarded`. The first two
are about strict registries: legacy ones keep overwriting by design (`src/README.md`
95), with the consequences listed under 12.

## 9. Files of the session store

`FileStore` has one key and takes each file-system call as a step: the read of
`get`, its judgement of the expiry, the unlink of an expired document; the
temporary of `put` and its replacement, which Windows may refuse until the
deadline (`GiveUp`); `forget`; a killed process. None of the three operations takes
the lock. `kept` is history: the last document put without a TTL. Temporaries
are named by pid and `time.time_ns()` (89) and taken to be distinct: two threads
of one process that put one key in the same tick of the clock would share one.

## 10. Runs

| Run | Instance | Shows | Distinct states |
|---|---|---|---|
| `file_lock_safety` | two threads of one process and one of another; the second process dies anywhere, its pid is reused, and some of its acquisitions have no established identity; one refused call; POSIX renames | the inductive invariant, exclusion, undisturbed holders, no recovery without an established common realm, the refinement | 344 636 |
| `file_lock_recovery` | one thread in each of two processes, one death, one refused call, fairness | records are accounted for, pending releases are retired, the key stays usable after a death that leaves no release temporary | 9 704 |
| `file_lock_crash_window` | the same with deaths that leave a release temporary | `LockUsable` violated, see Findings | |
| `task_list` | two workers, one with a capped run; two tasks; ids chosen and made up that meet; half-second ticks; leases of one and two seconds; extensions and completions that wait for the lock | exclusive and honoured leases, unique ids, the contract, the end of claims | 270 352 |
| `address_index` | two callers, four addresses, pages of two, a quota of three, two kinds of resources, three interruptions | indexing first, recovery, quota, refinement | 677 286 |
| `address_pages` | two callers and a reader, three addresses, cursors 0 and 1, limits 1 to 3, one interruption, fairness | readers, the whole inductive invariant with readers, recovery of an interrupted append | 317 301 |
| `run_tree` | a root with every kind of limit or one with steps only, subagents that declare too many steps or a little of everything, three deep, two calls a reply, two approved calls to run first, responses without a cost, cancellation, fairness | the tree's budget, cost cap and cancellation; children may step; every tree ends | 402 726 |
| `agent_turns` | two workers, a gated and a free call, runs offered both tools or only the free one, tools that may both return what JSON refuses, one turn cut off or ended so by an approved call, fairness | the five safety properties, the contract of approvals, answers to waiting calls | 443 265 |
| `agent_done_again` | the same, nothing cut off | `DoneIsDone` violated, see Findings | |
| `run_superseded` | two Session instances, two runs | `SupersededKeepsOff` violated, see Findings | |
| `tool_offer` | two names, one of them `complete_task`; two owners, two providers; the three kinds of registry; three modes, four requests, seven authorizers | one registration a name, faithful offers, guarded completion | 145 014 |
| `file_store_purge` | two workers, documents with a TTL of one and without | `PutKept` violated, see Findings | |

Deadlock is checked in the runs of the lock, the task list, the index, the
session document and the registry. Turns may really stop: nobody has to send, and
the thread of the instance is full at some point; what must go on there is
`Answered`. A tree of runs ends, and the workers of a file may all be dead.

Why the bounds are enough. For the lock, a violation needs an owner, an inspector that
has judged it, and a third party that changes the directory in between: three
threads, two of them in a process so that they share pending releases. One
refused call makes a release pending, and the retry meets the other threads. For the task
list, the second task makes the order of claims visible and two leases of
different lengths let one worker's lapse under another's; four ticks are two
whole seconds. For the index, three positions on pages of two are a full page and one
that is begun; the fourth address meets the quota; three interruptions let an append, the
recovery of it and the recovery of that be cut short. For turns, a thread of `MaxTalk` = 3 prompts, replies
and decisions holds a request, its decision and a row of somebody else between
that and the result; result rows are not bounded, and turns start until there are `MaxRows`
= 5 rows, so that a waiting call can always be answered. For a tree, three runs are a caller
that is a callee; two calls a reply let a run go on after a child has spent;
declarations above and below what is left meet both sides of `nested_within`, and
four steps let a child pass each limit. For the registry, a name can be claimed,
replaced and claimed again by the other owner in either kind, two providers may
find one name, and a factory may build the name of any other; one more name would
only be one more bystander. The safety results of these components are
proved for all values besides (section 11), foreign pid namespaces and Windows
renames, which no run has, included.

`agent_turns` has one fault, as its mutants have to end in the same time; with two
(`MaxFaults = 2`, 715 240 states) all its properties hold as well.

Bounds that stand for nothing in the code: `MaxFaults` (refused calls,
interruptions, turns cut off, results of approved calls that JSON refuses), the sizes of the nonce pools, `MaxTasks`,
`RunTicks`, `MaxTalk`, `MaxRows`, `MaxRuns`, `MaxCalls`, `MaxTime`, `MaxProviders`,
`MaxClock`. Those of the proofs' theorems may be any number.

## 11. Proofs

Everything below is proved without bounds on threads, processes, workers,
tasks, addresses, page size, calls, failures, depth, budgets, names or owners, from
the assumptions named in the modules (`LockAssumption`, `TaskAssumption`,
`IndexAssumption`, `TurnAssumption`, `TreeAssumption`, `RegistryAssumption`,
`OfferAssumption`), which only say what constants are: a pid for every thread, positive page sizes and
tick counts, a value that is no nonce, every name in the sorted list, and the like.
`OfferAssumption` also has what the constructor of `ToolAuthorizer` refuses.

**File owner lock** (`FileOwnerLockProofs`). `MutualExclusion` is not inductive:
the danger is a thread that decided something about a directory that has since
been cleaned and published again. `IInv` adds what makes late decisions harmless:
at most one record is ever published (`DiskShape`); what each program point knows
(`ThreadShape`); one thread or one pending entry, of a live process, answers for a
nonce (`Claims`); nobody knows the nonce of an unpublished candidate
(`CandidatePrivate`); a record an inspector is about to unlink, if still there,
says released or is unclaimed (`CleanupAuthority`); a thread about to rewrite its
record still has it (`RewriterKeepsRecord`). Since records are removed by the
name of their nonce and directories only when empty, these give
`HolderKeepsRecord`, and that gives exclusion: a second `Publish` would need
an empty directory. `AInv` adds who answers for a record. `RecordAccountedFor` is
disturbed only where a thread lets go of a record or an entry leaves the pending map,
and there the record must be gone or say released: `ReleaseDone`, for the threads that
clean up after themselves and for entries of which only the directory is left. With
a reused pid a record of a dead process looks like one of a live process, so
`Accounted` speaks of the other pids (`RecordsAnswered`), and `NoneLeaks` of all of
them under the hypothesis `Reused = {}`. Theorems: `Invariance`,
`TypeCorrect`, `Exclusion`, `HolderUndisturbed`, `RealmBoundRecovery`, `RecordsAnswered`,
`NoneLeaks`, and `ImplementsLock`, the refinement.

**Task list** (`TaskListProofs`). `LInv` is type correctness, unique ids, that
what a worker was told equals what the store says (`LeaseHonoured`), and that a
waiting extension was granted a whole second at least (`GrantsWhole`), without
which an extension could store a lease that is over. Theorems: `LeaseInvariance`,
`TaskTypeCorrect`, `UniqueIds`, `HonouredLeases`, `OneHolder`, and `KeepsContract`,
the refinement of `TaskSource`. A completion needs no clause of its own: nothing is
known of the task it found when it gets the lock. For the refinement,
`ViewRewritten` says what a rewritten record changes in what `records()` shows; a
claim then is `Take`, a release or a completion `Settle`, an extension and a claim
that finds nothing are invisible, and a tick is the lapse of the leases with one
tick left. `LeaseRuns` matters here too: a lease that starts
over would show its task as claimable.

**Address index** (`AddressIndexProofs`, `PageArithmetic`). `IndexInv` says how
full each page is for a given count and journal (`PagesFilled`), what a journal
may say (`JournalShape`), that entries and pages point at each other but for the
journal's entry (`EntriesLinked`), what a writer at each point has done
(`WorkShape`), and that a page a reader holds is still good for the positions it
will look at (`ScanShape`): pages only grow, and a reader stops at the count it
has seen. Theorems: `IndexInvariance`, `IndexTyped`, `RecoverySound`, `IndexedFirst`,
`ReadersRight`, `QuotaHolds`, and `ImplementsList`, the refinement. The arithmetic of
pages needs facts about quotients by an unknown number, which are lemmas of
`PageArithmetic`.

**Turns** (`AgentTurnsProofs`). `TurnInv` has two halves. `ThreadShape` says what
the thread is: a call is made once, requests are for gated calls of their reply,
results follow the call. `Shape` says what a worker's locals are worth at each
point: the worker at `run` holds the lock, and each call it may still run is
approved, in scope and without a result in *any* row; a worker at `invoke` has free
calls of a reply that is its own; one that refuses a failed step has calls nobody was
asked about. `Apart` keeps two replies' calls disjoint. The hard step is
`Resolve` (`RunnableRight`): where there is a scope, the asking reply is the last row
that is no result, so every later row is one of the folded block and none hides a
result. Then `Frame` is the argument for several workers: only the holder of the
lock records results of gated calls, so that what another worker has read stays true
until it acts. Theorems: `TurnInvariance`, `TurnsTyped`, `DoneStays`, `RunsApproved`.
`RanShape` counts: an approved call that ran once more than there were
faults is accounted for by a row that says so or by the result its worker still holds.
This gives `RunsOnce` and `RefusalsTrue`, for any tools: an approved call whose result
JSON refuses ends its turn, which is a fault and leaves nothing to account for. The
refinement (`ApprovalsKept`) rests on the same count. `TruthShape` is what it adds: each result a worker at `run` has
in hand is so, because a verdict repeats a decision of the snapshot, which the thread
keeps (`DecidedHeard`), and `TruthStays`. Then `Respond` is `Ask` (or nothing, if no call is gated),
`Decide` is `Approve` or `Deny`, the effect of an approved call is `Run` (one more cut
if its result cannot be written), `Record` is
`Tell`, `CutOff` is `Cut`, and every other step is invisible (`OtherRows`, `OtherSteps`):
rows of failed steps and free calls are about calls that nobody was asked about.
`NotToldAgain` (`ToldOnce`) needs `PendingShape`: a result of a call that a worker at
`run` holds is hidden behind what somebody said after the request. `Overlooked` has why
`_unresolved` misses no other result: with nothing but result rows in between, it would be in the
folded block. Nobody records one meanwhile, since only the holder of the lock
records results of calls that were asked about.

**Tree of runs** (`RunTreeProofs`). That the tree stays in budget is not
inductive, because a step is charged when the answer arrives, long after the check.
`TreeInv` adds that every run but the last waits for its tools (`CallersWait`), so
one request at most is out; that the context of each run lies within that of the
run before it and its own budget within its context (`CeilingsNest`), so the check
of the last run speaks for all of them; and that while a request is out the
ledger is where the check found it, the tree not cancelled before (`InFlight`).
Charging one step then keeps `TreeWithinBudget`, `CostCapHolds` and
`StopsWhenCancelled` at once. `ChildFits` shows that a child that is sent may take a
step: its caller's context was not exhausted, and what it declares comes on top of
what is spent, in whole seconds from the second that has begun. Theorems:
`TreeTyped`, `BudgetKept`, `CostKept`, `CancelKept`, `ChildStarts`.

**Registry and offer** (`ToolOfferProofs`). `Sole` says of each name of a strict
registry that the registration its claim names is there and no other; a claim that
passes `Claimable` may then overwrite, as it clears the only registration there is.
`StrictDetail` derives from it what a name resolves to, whatever providers find and
factories build; `Asks` says that a named agent's turn that holds `complete_task`
checks its calls, which `Begin` establishes and `Call` needs. `OfferTyped` holds of
legacy registries too, where a provided tool is reported with a claim that a factory
before it lent: a recursive function of the sorted names. The library's induction
theorems cannot be cited, but its least-number principle can (`Least`): were there a
position up to which no such function exists, the least one would be one more than a
good one (`ChainExists`), and a least position with a value out of range would have got it
from a smaller one (`ChainType`). So every claim is found, and names an owner there is
(`ClaimedType`). Theorems: `OfferInvariance`, `OneClaim`, `OfferRight`,
`CompletionSafe`, `OfferTyped`.

**Session document** (`SessionStateProofs`). The document alone does not carry
`LiveNotOver`: an instance may write back a copy of any age. `StateInv` says the same
of every copy somebody may still write (`Honest`), that no document is of a run not
yet begun (`Dated`), so a new run's id is in none of them, and that runs have ids of
their own (`OwnRuns`). What carries it in `_finish_run` is that the id written is the
worker's own (`session.py` 351); the comparison before it only decides whether to
write. No run of section 10 has this property; TLC agreed with
it on three workers and four runs (12 004 129 states), without fairness. Theorems:
`StateTyped`, `NobodyEndsAnother`.

**Only model-checked.** Liveness (`PendingRetired`, `LockUsable`, `ClaimsEnd`,
`AppendRecovered`, `Answered`, `TreeEnds`) is out of the prover's reach. Every other
property of a passing run is a theorem.

## 12. Findings

1. *A crash during a release can wedge the lock* (`file_lock_crash_window`,
   `_file_owner_lock.py` 224). An inspector lists the directory before the
   release temporary is written, so it will not unlink one; the holder writes
   it and dies; the inspector unlinks the record it has proved dead, and `rmdir`
   finds the directory not empty. A temporary without a record is nothing
   `_inspect` can judge: the key is held for ever, although its owner was
   established and dead, the case `src/tests/test_file_owner_native.py` 131-133 expects to
   be reclaimed.
2. *A result can be overlooked* (`agent_done_again`, `runtime.py` 741).
   `_unresolved` reads the first block of result rows after the asking reply. A
   reply of another turn that lands between the decision and the result splits
   the block: the call that ran counts as unresolved, every later turn records
   "Not run: ... is not available to this run", and `thread_view` folds that over
   the real result. The comment (750) says that a call that has a result is done.
3. *A superseded run overwrites the live one* (`run_superseded`, `session.py` 344).
   `_finish_run` compares with what its own instance has cached, which is its own
   run, and writes the whole document back, as of when it was cached. The comment
   (341) says that it does not overwrite the run in flight. What it goes on to
   fear, the live run marked finished, does not happen (`NobodyEndsAnother`).
4. *A put can be purged by a get* (`file_store_purge`, `stores/file.py` 81). `get`
   unlinks what is at the path after it has read an expired document there; a
   document put in between, without a TTL, is gone although the contract
   (`stores/base.py` 60) keeps it until it is removed. A document with a fresh TTL
   goes the same way: a session whose state has just expired may lose the run that
   another worker begins.

Noticed while modelling, without a run of their own:

- `extend_lease` computes what is left of the run before its wait for the lock and
  adds it to the time after it (`tasks.py` 660), so an extension may pass the end of
  the run by the length of the wait; the docstring (636) says that a worker may not.
- `json.dumps` of a tool's result is outside the `try` (`runtime.py` 808): an
  approved tool that returns what JSON refuses has had its effect when the turn fails
  without a result row, and every later turn runs it again. `RunsBounded` and
  `Approvals` count such a turn as cut off: what is checked and proved is that nothing
  else lets a call run again, not that the code is right to do so.
- In a legacy registry `replace` naming the last claimant also removes a static
  tool of another owner that the claim no longer names (`tools.py` 170); a
  factory that builds another name lends that name its claim (252), so a provided
  tool of that name is reported as the factory's; and a renamed tool answers to a
  name that is in neither the mode's list nor its approvals.
- A provider registered without a name is called `provider:<count>` (128), which
  a host may have taken for another provider; the later one replaces it silently.

## 13. Not modelled

Left out for good: key formatting and hashing, wire formats and their
validation, structured output, attachments, doctor and the facade, which have
no state or none that two actors share; modes and skills, which are tables; sampling
of process identities (PowerShell, sysctl, `/proc`), which is the environment's answer
in the model; an exception delivered asynchronously between two statements
(`_file_owner_lock.py` 361); a wall clock that is stepped back (`tasks.py` 485);
candidates that a crash leaves behind before the rename (`_file_owner_lock.py` 334);
a pending release that keeps failing, which makes every later lock call of its
process raise, whatever the key (340): the model has one key and bounds failures.

Left out so far: the fold of a whole thread into a view, capabilities,
`resolve_read_only`, rows written by 0.1.0.

## 14. Plan

The order is by importance of the behaviour.

1. *File owner lock*, *task list* with its completion tool, *address index*,
   *turns and approvals*, *session document*, *tree of runs*, *registry and offer*,
   *files of the store*: done.
2. *An abstract specification of approvals*: done.
3. *Conversation thread*: the fold of rows into turns as recursive functions,
   checked against a reference definition on all row sequences up to five, with
   the positions of concurrent appenders; `clear`.
4. *Session document*: capabilities, and what two instances cannot undo of each
   other's writes.
5. Windows renames with an operator that clears an empty directory, for the
   liveness of the lock.
