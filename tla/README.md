# TLA+ models of the ZUAEF agent

TLA+ modules, TLC configurations and TLAPS proofs about the core of this
repository: the interactive gateway that turns chat messages into agent runs and
holds them at a human decision, the runtime that settles those runs into
receipts, the console that shows and analyses them, and the plugins that keep
state of their own beside them. Paths below are relative to the repository root;
`zuaef_agent/` is `src/zuaef_agent/`, `zuaef_quant/` is
`plugins/zuaef-quant/zuaef_quant/`.

Contents: 1 the system, 2 the modules, 3 the runs, 4 fairness, 5 the proofs,
6 where documents and code disagree, 7 abstractions and what is not modelled,
8 the plan.

## 1. The system

A *run* is one bounded agent execution with a fresh run id. It ends in exactly one
receipt, a JSON file per run id: *terminal* (completed, failed, limit reached) or
*paused*, when a tool call needs approval. A paused run is never continued in
place: a decision starts a *continuation*, a new run that carries the identity
frozen in the pause receipt. The gateway binds chats to runs, so that a user can
talk, see that a run waits, and decide from an approval card or with a command.

| Component | State it keeps | Operations | What is hard | What makes it correct |
|---|---|---|---|---|
| Gateway dispatcher, `gateway/service.py` | none durable of its own; a handler works on a *copy* of the session row for the whole length of a run; the registry of progress watchdogs | `handle` → text, `/new`, `/case`, `/unbind`, `/profile`, `/approve`, `/deny`, `/status`, card taps; settlement of runs; `recover_sessions` | several commits and sends per handler, any send may raise, the process may die at each; other processes write the same store | rows agree with receipts; a card decides what its session waits on; one tap, one continuation; nothing crosses `/new` |
| Routing store, `gateway/store.py` | SQLite: `session_bindings`, `approval_bindings`, `surface_cursors` | `get_or_create_session`, `save_session`, `reset_session` (two commits), `create/consume_approval`, `expire_approvals_for_run` | lost updates between processes; expiry racing a tap | a token is redeemed once, by its user |
| Continuation, `continuation.py`, and receipts, `receipt_store.py` | one file per run id, written through a temporary file and a rename | `resume_paused_run`, `write`, `read` | the pause receipt is never marked as used; CLI, console and gateway share the seam | identity is inherited; a receipt is never rewritten |
| Transports and loop, `gateway/telegram.py`, `feishu.py`, `runner.py` | in-memory offset and batch, durable cursor; Feishu: an in-memory queue fed by the SDK's thread | `poll_once`, normalisation, download of files, `handle`, `save_surface_cursor` | redelivery after a crash, a batch that fails halfway, a download that fails, a dead connection | no update is lost by a crash, order is kept, what is refused never starts |
| Progress watchdog, reply marker, `service.py` | a registry under a lock, one thread per run; one file for all chats | start, stop, checkpoint line; the answer of a run without a reply | the thread is never joined; the marker names no run | one late line at most; a run is answered with its own decision |
| Runtime kernel, `runtime.py`, `integrity.py`, `effects.py`, `core.py` | the step store's tool ledger, artifact files, receipts, the delivery root | `execute_run`, `finalize_terminal`, `_build_paused`, `_changed_artifact_facts`, `export_receipt_artifacts` | runs of several processes over one workspace; a file that changes over a pause; a copy cut short | receipts claim no file from before and list all the work done; a delivered file is whole |
| Composition, `composition.py`, `profiles.py`, `config.py` | profile files, installed plugins; the snapshot frozen in a receipt | resolve, freeze, build, restore | plugins and settings change while a run waits | a continuation is what was frozen; a run may do what was granted |
| Web console, `web/` and `web-ui/` | tables of runs in flight and of results, in memory; `analysis.md` per run; the browser's selection and generations | projections of a run's facts, pages, invalidation stream, approve and deny, `start_analysis` | reads that straddle the run they are about; a check outside the lock; answers out of order | the screen never goes back; one worker, one resume; a report is never overwritten; counts add up |
| `zuaef_quant`: ledger, monitor, bridge | JSON files truncated and refilled under a lock, an append-only alert stream, a cursor with delivered identities | `ack-buy`, `ack-sell`, cycles, ticks | processes that die between files, rotation of the stream, sends that fail | what is acknowledged is kept; every alert reaches the chat, twice only after a fault |
| `zuaef_quant`: pool, proof, scan, history, replay, market context, freshness, board | files handed from program to program; caches; a page joined of eight files | build, prove, scan; fetch; replay a day; collect; judge; render | a pool rebuilt between proof and scan; a cache written by two; a verdict from dates | a trigger stands on a proof of that pool; a verdict is of today; nothing green is unearned |
| `zuaef_case`, `zuaef_client_service` | drafts, situation and trajectory of a case; a state file, its history, a receipt per exchange; the policy corpus | tools of one model answer in parallel threads; an approval-gated send; the merge of policies | read and write without a lock; a send approved long after it was shown | what is sent is what was shown; a confirmed exchange has its receipt; asking more never loosens |
| Supervisor loop, `tools/supervisor_loop.py` | worktrees, an outbox, a state file, two git branches | poll, launch, publish | polls that overlap, a push that is refused, a crash after the record | no instruction is launched twice; a published report stays |

`PROJECT.json` lists every part with its status, the parts that are left out too.

Interactions. `runner.run_gateway` is one loop: poll a batch, hand each event to
`service.handle`, save the cursor. `handle` calls `execute_run` or
`resume_paused_run` and waits for it; so the gateway is *serial*, and what
interleaves with it is everything else: the users, who tap cards at any time; the
watchdog thread of the current run; a crash; `gateway bind-case`, which rewrites
a session row from another process; and the CLI or the web console, which resume
the same paused runs through the same function. All of them share the SQLite store, the
receipt directory and the workspace. The plugins share with the core only the tool
call and the chat; among themselves the programs of `zuaef_quant` share files and no
memory. The supervisor loop and its workers share git branches.

## 2. The modules

One module per component; the parts that share state are in one module (the
dispatcher, its store and the receipts are `Gateway`). The header of each module
names its sources, `map` in `PROJECT.json` the lines of every definition.

### The gateway

**`Gateway`** – dispatcher, routing store, continuation.

| Variables | Code |
|---|---|
| `session`, `owner`, `token` | the tables of `gateway/store.py`. A row is `SessionBinding` (models.py:90-112) reduced to the conversation, the case and the three run pointers; a token is `ApprovalBinding`, its `approved` and `denied` both being `"consumed"` |
| `receipt` | what `<run_id>.json` holds: nothing, a pause or an end, with conversation, case and the run it continues |
| `runs`, `tokens`, `convs` | identifiers handed out; `uuid4` becomes the next number |
| `frame` | the handler in progress: where it is, *the copy of the row it read*, and its locals |
| `shown` | approval cards that reached the chat |
| `cli` | `gateway bind-case` between its read and its write |
| `resumes`, `redeemed`, `closed`, `outside` | history the properties speak of: how many continuations each pause and each token started, which waits are over, how many resumes came from other processes |

A handler is an event action (`Text`, `New`, `BindCase`, `Status`, `Decide`, `Press`)
followed by steps on `frame.pc`. It is cut exactly at the durable commits and at
the outbound calls that may raise, since a crash, a transport error or
another process can fall there and nowhere else matters:

- a text: `Text` → `StartRun` (commits `active_run_id`) → `SendAck` (may raise) →
  `RunSettles` (the receipt) or `RunRefused` → `SettleTerminal`, or
  `MintToken` → `SavePaused` → `SendCard`;
- a tap: `Press` → `ConsumeToken` → `MatchToken` → `AnswerCallback` (may raise) →
  `Resume` → `ContinuationSettles` → the same settlement;
- `/approve`, `/deny`: `Decide` → `Resume` → `ContinuationSettles` →
  `ExpireButtons` → settlement;
- `/new`: `New` → `AbandonPaused` (first commit) → `ResetSession` (second commit).

`Crash` may fall at any of these; `Recover` is `recover_sessions` over every row.
`ResumeRaises` is the exception that escapes the poll loop and ends the process.
`CliRead`/`CliWrite` and `ResumeOutside` are the other processes.

**`SessionLifecycle`** is what a session promises: it is free, busy, or waits on one
run; it waits only on a run it was busy with or that continues the previous wait,
never twice on the same run, and a new conversation leaves nothing behind. `Gateway`
implements it under the mapping `busy <- active # NoRun`, `gate <- paused`
(property `ImplementsLifecycle`). The abstract module knows neither frames,
tokens, receipts nor crashes.

**`Polling`** – the Telegram side of the loop. `arrived` and `confirmed` are the Bot
API, which forgets an update when a poll carries a higher offset; `offset`,
`response` and `events` the memory of the process; `cursor` the durable row.

**`Feishu`** – handlers on the SDK's thread normalise an event, fetch its files and
queue it; the loop drains small batches. There is no cursor: what a dead process had
is gone unless the platform delivers again.

**`Watchdog`** – the dispatcher beside one progress thread per run. The two halves
of the stop, popping the registry under the lock and setting the event outside
it, are two actions.

**`ReplyMarker`** – `record_decision_brief` writes a decision and, in three steps, the
one file `last-reply.json`; a run that ends without a reply is answered from it.

**`ArtifactDelivery`** – from the receipt to the delivery root, through one
temporary file per path, and to the chat or the exit status of the command line.

### The runtime and the console

**`Composition`** – profile, resolution, freezing, building, pausing and restoring,
while profiles are edited, plugins installed and the process restarted.

**`Settlement`** – overlapping runs over one workspace: `Accept` takes the snapshot,
tools write and delete artifacts and open and close tool calls, and `Finalize`,
`BuildPaused` or `RunLost` end the run. `Changed`, `Inherited` and `Unresolved` are the
three computations of `_changed_artifact_facts` and `_tool_effect_facts`.

**`RunProjection`** – `readers.py` reads receipt, events and snapshot one after the
other while the run goes on; `projector.py` derives status, rows and usage.

**`RunInspection`** – the caps of a summary and the second cut that makes it fit.

**`ConsoleList`**, **`LiveConsole`** – pages by offset into an order that moves, put
together by the browser; the invalidation stream, debounced reloads, generations.

**`ConsoleActions`** – approve and deny: the request registers a run, a thread resumes it.

**`RunAnalysis`**, **`AnalysisReport`** – who may start a worker and what becomes of
its file (opening it for writing empties it, so writing is two steps); what the worker
loads and how the report is put together from the agent's Markdown.

### `zuaef_quant`

**`TradingLedger`** – transactions under the ledger lock by a session and by one
process per acknowledged trade; each file is truncated and then filled. **`AlertBridge`** –
ticks that read the alert stream from a saved cursor, line by line, with rotation,
refused sends, loss and recovery. **`Watchlist`** – edits of a scope's list through one
temporary file and a rename, without a lock. **`CandidatePool`** – three programs
and the files between them; **`CandidateRank`** – the ranking as a function of the
figures. **`HistoryCache`** – two files per symbol, written one after the other, under
a lock and without. **`Replay`** – the days of a backtest. **`ScanFreshness`** – what an
answer may say of today out of the dates in the files. **`MarketContext`** – layers of
evidence and their fallbacks. **`StrategyRound`** – the evaluation of a round, its
directory and the store that evaluations share. **`DecisionBoard`** – the page and its
form over the files of all of these.

### Other plugins and tools

**`CaseDesk`** (`zuaef_case`), **`ClientRecords`** and **`ClientPolicy`**
(`zuaef_client_service`), **`SupervisorLoop`** (`tools/supervisor_loop.py`).

### Composites

`MCGateway` adds the symmetry set to `Gateway`. The remaining modules share no state with
each other, so an interleaving of two of them shows nothing that each alone
does not: a composite chooses one part at the start (`part`) and a behaviour takes the
steps of that part only. A part that appears twice appears under two mixes of bounds.

| Composite | Parts |
|---|---|
| `MCDelivery` | Watchdog, Feishu, ReplyMarker, Composition, ArtifactDelivery |
| `MCRuns` | Settlement, RunProjection ×2, ConsoleList, ConsoleActions, LiveConsole, RunInspection, AnalysisReport, DecisionBoard ×4 |
| `MCDurable` | Polling, TradingLedger ×2, AlertBridge, Watchlist |
| `MCMarket` | CandidatePool, HistoryCache ×2, Replay ×2, ScanFreshness ×2, MarketContext ×2 |
| `MCPlugins` | MCMarket, CaseDesk, ClientRecords, ClientPolicy, StrategyRound, CandidateRank, SupervisorLoop ×2 |
| `MCLive` | RunAnalysis, TradingLedger, AlertBridge, Feishu, Polling, LiveConsole, ConsoleActions, Watchdog, HistoryCache, SupervisorLoop, each under its own fairness |

## 3. The runs

What the properties relate is local: a token, its run and its session; a pause and its
continuation; two processes at one file. Each bound is the least at which every
action fires and the hazard in question can happen at least twice, or once more than it may.

### Passing runs

| Run | States | Instance |
|---|---|---|
| `gateway_core` | 1 094 085 | one chat with a chat-level and a thread session, two users (symmetric), one case, 3 runs, 2 tokens, 2 conversations, 1 crash |
| `gateway_shared` | 370 085 | one session, one user, 3 runs, 1 token, one `bind-case`, one resume from outside; with fairness |
| `delivery` | 884 225 | watchdog: 3 runs. Feishu: 3 events, one file each at most, 1 fault. Reply marker: 3 runs, one at a time. Composition: 2 plugins, 6 profiles, 3 hosts, 2 edits. Artifacts: 2 runs that may overlap, 2 paths, 1 fault |
| `runs` | 1 371 317 | settlement: one artifact, one call, 3 runs, 1 write. Projection: 3 requests with a retry, and 4 without. List: 6 runs, pages of 2, 4 requests. Actions: 2 runs, 3 requests, 1 crash. Console: 2 runs, 1 click, 1 fault. Summary: 3 rows under caps of 1 and 2. Report: 5 lines. Board: four mixes of 1 symbol, 1–2 cycles, forms, builds and faults |
| `durable` | 2 066 892 | polling: 3 updates, 2 crashes. Ledger: 2 acknowledgements and 1 cycle, or 1 and 2, with a fault. Bridge: 2 lines, 2 files, 2 faults, 2 identities kept. Watchlist: 2 scopes, 3 calls one at a time |
| `plugins` | 711 887 | case: 2 runs, 2 threads, 3 calls, 1 crash. Records: 3 exchanges, 1 death. Policy: 3 topics. Round: 2 calls, 1 kill, 1 change. Ranking: 4 symbols, 4 kinds of figures. Loop: 2 polls, 2 commits, 1 fault, or one poll beside a hand. Pool: 2 builds, 2 proofs, 1 scan, 1 crash. Cache: 2 fetches, 3 calls. Replay: 3 and 5 days. Freshness: 2 days, weekday or Saturday. Context: feeds with 1–4 answers each |
| `live` | 49 309 | the same components, smaller, under their fairness |

**`gateway_core`.** Three runs allow a pause, its continuation and
one more; two tokens a nested pause or a second card; a thread session and
a chat-level one of the same chat are what a tap without a thread can confuse; two users
are what token ownership can confuse; one crash can fall in any step, and recovery
is idempotent, so a second adds only repetitions. Only this run, which checks no liveness,
uses symmetry.

- `RowsAreGrounded`: what `/approve` would resume is a pause receipt of the session's
  own conversation and case, no session shares it and nothing is active beside it; and the
  run whose turns go into the next prompt ended in the session's current conversation.
- `LiveCardMatchesSession`: between events, a button the store would accept decides a
  run that a session of that chat waits on. The order token, row, card, and the
  expiry in `/approve` and `/new`, are what make it true.
- `TokenRedeemedOnce`, `SettledForGood`: one tap, one continuation; a pause is resumed
  again only if a crash came between; a run whose wait ended is not resumed again.
- `ImplementsLifecycle`: the refinement.

**`gateway_shared`** states nothing of `RowsAreGrounded`: with another process that
resumes runs or rebinds cases, the row is stale until a handler works on it, and
nothing promises otherwise. `ContinuationKeepsIdentity` holds beside other processes
too, and the dispatcher always returns to its loop (`DispatcherReturns`).

**`delivery`.** `OneLateLine` bounds the progress lines after an outcome.
`MessagesAsSent`: what was refused for its files is never handed over, what is handed
over has all its files, and only a download lets a later event overtake. `ReplyIsOwn`:
with one run at a time, no run is answered with the decision of another and none that
recorded a decision is left without. `CompositionHolds`: hidden tools can be searched
for, a continuation is what was frozen, nothing is granted that the host, the profile and the
plugin did not all grant, a refusal has its cause. `ArtifactsArrive`: a durable copy is
whole unless two runs delivered one path at once; what is missing was told.

**`runs`.** `ReceiptIsTheRun`: no fact from before the run, all the work that is still
there. `ProjectionIsTrue`: a call shown unresolved never completes, usage is a lower bound, a
verdict stands, a request is shown with its own answer. `ConsoleHolds`: pages miss no
run but of several without a start, list none twice and newest first while no more start
than a page holds; one thread resumes a run. `SummaryIsTrue`: rankings are the top of what is known,
shown and omitted add up through both cuts. `ReportIsWhole`: a reader of the Markdown sees
each section once, in order, of one load. `NeverBackwards`: however answers are
reordered. `BoardHolds`: no judgement older than its event, HEALTHY and green are
earned, a confirmed trade is recorded once and shown, a refused one is not recorded unless its
command died.

**`durable`.** `PollingKeepsItsPlace`, `LedgerHolds`, `AlertsReachTheChat`, `AnswerHolds`:
what a file promises to the next process. The ledger has two mixes because two
acknowledgements and two cycles together exceed what adds anything: lost buys need two
commands, repeated announcements need two cycles.

**`plugins`.** One property per part, in the composite's last section. `ArmedIsProven`,
`SentAsShown` (in `CaseHolds`), `NothingSkipped` and `LaunchedOnce` (in `LoopHolds`) are
the ones about actions with consequences outside the program.

**`live`.** `EverythingArrives` and `NothingHeldForever` gather the liveness of ten parts;
`InFlightIsLive`, `CompletedIsWhole` and `ReportStands` are the safety of the analysis.

Deadlock is checked in the two `Gateway` runs. In the others, the bounded number of runs, calls
or days is used up and the part stops.

### Violation runs

| Run | Property | Length | See section 6 |
|---|---|---|---|
| `resumed_once` | `Gateway!ResumedOnce` | 14 | 1 |
| `ledger_torn` | `TradingLedger!AckedBuysKept` | 25 | 2 |
| `watchlist_race` | `Watchlist!AnswerHolds` with two calls at once | 11 | 3 |
| `reply_shared` | `ReplyMarker!OwnReplyOnly` with two runs at once | 8 | 4 |
| `board_scan` | `DecisionBoard!ScanIsReal` | 9 | 5 |

### Mutants

Every property of a passing run has a mutant in `PROJECT.json`: a mapped definition
and an operator (marked `(mutant)` in its module) that changes it the way a plausible
bug would. TLC finds each property violated under its mutant.

## 4. Fairness

`FairSpec` of each module, repeated part by part in `MCLive`. All fairness is weak but one.

- `Gateway`: `Handler` and `Recover`. The dispatcher is one thread whose calls
  return (a model run is cut by its usage limits, the transports have timeouts), and a
  dead process is restarted. Users, crashes, other processes owe nothing.
- `Polling`: polls answer in the end, and the loop runs on. A normalisation may always raise.
- `Feishu`: the probe, each handler, the loop and the restart.
- `Watchdog`: the dispatcher's steps, except that it need not start another run, and
  each thread.
- `RunAnalysis`, `ConsoleActions`: each worker thread and the second half of a request.
- `LiveConsole`: the stream, the timer, and that requests are answered *in some order*.
- `TradingLedger`: cycles and commands go on; **strong** fairness only for a
  command that enters the ledger's lock: `flock` wakes its waiters each time the session
  gives the lock back between cycles, so it is enabled again and again, not all the time.
- `AlertBridge`: the timer starts ticks. Sends may fail up to the bound on faults.
- `HistoryCache`: each caller's steps. `SupervisorLoop`: polls and publications; nothing
  of the supervisor, who may be silent for ever.

## 5. The proofs

All theorems hold for every value of the constants that satisfies the module's
assumption (naturals as bounds; `NoUser`, `NoCase`, `Main` outside their sets) and the
hypotheses in the table.

| Theorem | Statement | Inductive invariant and argument |
|---|---|---|
| `TypeSafe` | `Gateway!Spec => []TypeOK` | `Typed` adds to `TypeOK` which fields of the frame each step relies on (`FrameOK`) and that a displayed card has a channel (`CardsOK`): without it a tap could name a session that does not exist |
| `TokenRedeemedAtMostOnce` | `... => []TokenRedeemedOnce` | `TokensOK`: a redeemed token is consumed; the tap in progress holds a consumed token not redeemed yet; tokens beyond the counter are blank. A consumed token never becomes pending, `Expired` included |
| `ContinuationKeepsItsIdentity` | `... => []ContinuationKeepsIdentity` | `ReceiptsOK`: a run at work has no receipt, ids are handed out in order, and what a continuation continues says paused and stays so. The conjuncts need each other: the pause of a continuation is stable *because* no run works under its id |
| `ReceiptNeverRewritten` | no step changes a written receipt | the same invariant, as an action property |
| `RowsStayGrounded` | `... => [](bindings = 0 => RowsAreGrounded)` | `SInv`, below |
| `LiveCardsMatch` | `... => [](bindings = 0 => LiveCardMatchesSession)` | `SInv`: `ButtonsOK` |
| `ResumesAreCounted` | `resumes[r] <= 1 + crashes + outside` while `bindings = 0` | `SInv`: `ResumesOK` |
| `SettledRunsStaySettled` | `SettledForGood`, if no other process resumes or rebinds | `SInv` as an action property |
| `RowsImplementLifecycle` | `Spec /\ [](bindings = 0) => ImplementsLifecycle` | every initial state maps to one of `SessionLifecycle`, every step to a step or a stutter |
| `OneLateLineHolds` | `Watchdog!Spec => []OneLateLine` | a told run is stopped (`StopOK`); a thread that sent a late line has only the stop left to see (`LateOK`) |
| `OneWorkerInFlight`, `ReportIsNeverOverwritten`, `CompletedMeansWhole` | `RunAnalysis!Spec => []InFlightIsLive`, `ReportStands`, `[]CompletedIsWhole` | `StartedOK`, `LiveOK`: a thread is alive exactly while its run is in the table; `PathOK`, `OpenOK`: with a single live worker, its own check holds until it opens the file; `OwnFile`: what it finishes is what it opened |
| `PollingHolds` | `Polling!Spec => PollingKeepsItsPlace` | `LoopOK`, `BatchOK`, `QueueOK`, `PassedOK`, `FreshOK`: the rest of a batch has no gaps, the queue is in order between the last update handled and the offset, and what was passed is processed or pending |
| `ReceiptsAreTheRun` | `Settlement!Spec => ReceiptIsTheRun` | `OrderOK`: digests are handed out in order, so what differs from a snapshot was written after it; `PausedOK`, `BesideOK` carry a pause's facts to its continuation |
| `CopiesAreWhole` | `ArtifactDelivery!Spec => [](TypeOK /\ DurableIsWhole)` | `TempOK`: the temporary file that one run alone has open is torn until it is written and whole until it is renamed |
| `ListedIsAccounted` | `... => [](CopiedOrTold /\ SentOrTold)` | `RunOK`: at every step, what a completed run lists is copied, failed or still to do, and then sent, told or still to do |
| `ContinuationsAreAsFrozen` | `Composition!Spec => [](TypeOK /\ HiddenIsFindable /\ FrozenStands)` | `ComposeInv`: a snapshot names a plugin once and hides tools only where the search for them is granted (`FrozenOK`); first agent and continuation are both built of it (`BuiltOf`), so they agree with each other whatever was edited between them |
| `OnlyWhatWasAsked` | `... => []NothingUnasked` | `WayOK`, `AgentOK`: the policy of a run is the one its profile asked for, cut by the host once, before it is frozen |
| `RefusalsHaveCause` | `... => RefusedForCause` | `BuiltOf`: the releases of the first agent pass every check, so if one fails now, another release is installed |
| `TriggersAreProven` | `CandidatePool!Spec => []ArmedIsProven` | `PassOK`, `BuildOK`: a proof on file that passes, and the one a scan goes by, is of its pool; the snapshot is filled before the handoff is opened |
| `CursorNeverPassesUnsent` | `AlertBridge!Spec => [](TypeOK /\ SentBeforePassed)`, for `~SharedIds` and `~SameInode` | `IInv`: both the saved state and the one a tick works on satisfy `Cursor`; what a re-scan meets among the delivered identities was sent |
| `NothingTwiceWithoutFault` | `... => []RepeatNeedsFault`, and with `NoneDropped` | `Once`: without a fault, an event that was sent is among the saved identities or is the line about to be saved, and a summary that was sent is in the state |
| `RecoveryAnswersLoss` | `... => []RecoveryFollowsLoss`, the same | `RecoveryOK`: recoveries plus what is owed are at most losses settled plus faults |
| `AnswersStayTrue` | `Watchlist!Spec => [](TypeOK /\ AnswerHolds /\ ReadersSeeWhole)`, for `OneAtATime` and `NamedApart` | `AskedOK`: what the call in progress will change, nobody has been told; `MergedOK`: what it merged still follows from the list; `InodesOK`: a listed file is whole and has no second name; `SpareOK`: there is an unused inode to write to |
| `NoBuyIsLost` | `TradingLedger!Spec => [](TypeOK /\ NoBuyLost /\ StreamLeadsLedger)` | `HolderOK`: one process is in a transaction, works on what the files said, and has emptied each file before it fills it; `FactsOK`: every set of positions, on disk or in hand, is numbered below `next`, holds what was acknowledged, and is in the stream already |
| `FactsMakeOnePosition` | `... => [](PinnedUnlessFault /\ FactRecordedOnce)` | `PinnedOK`: without a fault the opportunities agree with the positions they are saved with; `OnceEach`: a fact that is still to be recorded is in neither list |
| `AnnouncedOnce` | `... => [](RepeatNeedsFault /\ OneLossADay)` | `Announced`: if the last notice of a symbol says READY, so does the file the holder works on; no notice is of a later day |
| `LaunchedAtMostOnce` | `SupervisorLoop!Spec => [](TypeOK /\ LaunchedOnce)` | `LockOK`: one poll at a time; `LaunchOK`: a launch needs the worktree, and only the poll that made it passes. The state file is not part of the argument: it may be torn or lost |
| `NothingPassedOver` | `... => []NothingSkipped` | `BranchOK`: commits are numbered in the order of the branch and nothing speaks of a later one, so positions compare as numbers; `PassedOK`: what is not after the last one started is settled or in the hands of the poll at work, also while the state file is open |
| `PublishedStays` | `... => ReportsStand` | a push is a fast-forward or nothing |
| `ToldIsPublished` | `... => []PublishedIsThere`, for `Hand = {}` | `PublishOK`: between commit and push the worktree holds the report of the poll at work; `PublishedStays` keeps it |
| `OneResumeAtATime` | `ConsoleActions!Spec => [](TypeOK /\ OneResume)` | a thread that lives has its run in flight, and `AcceptedOK`: threads are numbered as requests are accepted, so the thread of a new one cannot be an old one's; the run is marked before its thread starts and unmarked by that thread only |
| `EvidenceIsOfOneSeries` | `HistoryCache!Spec => []EvidenceAgrees` | `FilesOK`, `AnswersOK`: a file is absent, torn or of a fetch that was made, and an answer that counts is of fetches of one range; `LockHeld` adds who may write |
| `FreshShowsToday` | `ScanFreshness!Spec => [](TypeOK /\ CompletedIsToday)` | `CycleOK`, `StateOK`: a cycle under way is of today, and what a scan quoted it saw on its day |
| `FreshDaysLast` | `... => [](FreshIsLasting /\ DaysWereObserved)` | `LogOK`: the lines are in the order of their days, none of a weekend or a later day; `ReaderOK`: what a snapshot has read was so when it read it; `FreshOK`: what made today fresh is still there, unless `state.json` is torn |
| `EvaluationsAreOwn` | `StrategyRound!Spec => [](TypeOK /\ AnswerIsOwn)` | `OwnOK`: a directory is never given up, and while no other call has taken it, what lies in it is of its owner, and passed once the call is on its way back |
| `EvaluationsCoverUniverse` | `... => []EvidenceIsWhole` | `PanelOK`, which holds until a kill, an overlap or a change: one sidecar at a time, the staged files are whole up to the symbol in hand, and a store is complete or being dumped from complete files |
| `ReplayIsAccounted` | `Replay!Spec => [](TypeOK /\ Accounted /\ GateIsExact)` | `IntentsOK`: an intent waits in one place or is settled, and new ones are of a later day; `GateOK`: a position dates from the first buy since the last sell (`OpenedOn`), is `crossed` by every change of the factor after that day, and a sell was tainted accordingly (`ClosedAt`) |
| `NothingSoldTheSameDay` | `... => TPlusOne` | `TurnOK`: the queue of an open has its sells first, deferred ones included, and while one is left nothing was bought today |
| `NoCashIsOwed` | `... => []CashNeverNegative`, for `FeesFit` | `CashOK`: a position is worth a lot at least, so its sell pays its own commission |
| `OneOfManyHydrates` | `HistoryCache!Spec => []OneHydration`, for `Builder = {}` | `MissOK`: between the second look under the lock and the fetch nobody else writes |
| `SendsAreAsShown` | `CaseDesk!Spec => []SentAsShown` | `ToldOK`, `CardOK`: where no saves have overlapped a reference the tool returned keeps its text, so the card and the send read the same; `ExistOK`: a file is never removed |
| `ClaimsAreProven` | `... => []ClaimsHaveProvenance` | what is written is itself either empty or proven, whatever it replaces |
| `CaseFilesKeepUpdates` | `... => [](BeliefsKept /\ StepsInOrder)` | `AloneOK`, `ReadOK`: a call that nobody overlapped is the only one of its tool on the case, so what it has read still stands when it writes; `NextInOrder`: the next number is the next position |
| `ReceiptsOfTheConfirmed` | `ClientRecords!Spec => []ConfirmedHasReceipt` | `ProgressOK`: an exchange past its reading has its receipt, and its id is its own |
| `HistoryIsKept`, `ExchangesFormOneChain` | `... => []HistoryKept`, `[]OneSuccessor` | `ChainOK`: without an overlap the exchange in progress is the last, and nothing confirmed has replaced what it replaces; `CopiesOK`: its number in the history was free, and it copies what its receipt names |
| `MoreNeverLoosens` | `ClientPolicy!Spec => AskingMoreNeverLoosens` | For one message of any customer over the fixed table. `EngineInv`: a decision is that of the features it was asked about. A further topic keeps every policy that matched (`MatchesStay`): the one feature it can take away is the unknown budget, and no condition names a budget that is not low (`Vague`, `Firm`). Of the policies that match, the strictest value counts (`MergeIsStrictest`), so more of them only tighten |
| `NothingUnapproved` | `... => []BoundaryHolds` | no assessment says that the method is validated, so policy 14, which restricts the full plan and workflow and asks for approval, always matches |
| `ScreenNeverGoesBack` | `LiveConsole!Spec => NeverBackwards` | `LatestOK`: of the requests for a run on screen one is current; `ServedOK`: the current one was served after what is shown |
| `RunListIsWhole` | `ConsoleList!Spec => [](TypeOK /\ NothingMissing /\ NewestFirst /\ LateRunsStayOff)` | `PagesInv`, below |
| `UnresolvedStays` | `RunProjection!Spec => [](TypeOK /\ UnresolvedIsTrue /\ (Prior = 0 => UsageIsLowerBound))` | `LoadOK`: what was read is the beginning of the log, and all of it once a verdict or the end was seen; `LogOK`: nothing follows the end of a run; `RunOK`: every answered request is in the history |
| `VerdictsStand` | `... => VerdictStands` | `LoadOK`: the verdict read is the receipt's, and no step writes a second one |
| `ResponsesAreOwn` | `RunProjection!Spec => []Attributed`, for `Prior = 0` and `MaxRetries = 0` | `PairsOK`: a request is answered before the next one starts, so the n-th response is to the n-th request, in every saved history |
| `BoardTellsTheTruth` | `DecisionBoard!Spec => []BoardHolds` | `BoardInv`, below |
| `RepliesAreOwn` | `ReplyMarker!Spec => []OwnReplyOnly`, for `Together = 1` | `OwnOK`: a marker not older than the run at work is its own, because nobody else works and every run starts later than all that was published; `RecordedOK`: it publishes its last decision |
| `LastDecisionAnswers` | `... => NothingBuried`, also for `~Pausing` | `YoungOK`: decisions are younger than their run, no two of one time, and between two calls the marker is the run's last one |
| `RefusedIsNotStarted` | `Feishu!Spec => []RefusedNeverStarts` | `PlaceOK`: an event is in one place, and the queue and the batch hold what they say; `FilesOK`: what is fetched is on disk, so a handler that is through has all files, also those of an earlier delivery |
| `FilelessInOrder` | `... => []OrderKept` | `LineOK`: what was handled, the batch and the queue are one line in which events without files stand in order; `CleanOK`: without a fault the events not taken are the last ones and the transport is up |

`SInv` is the conjunction behind five theorems: the CLI does nothing; `PausedIsGrounded`,
`HistoryStaysInConversation`; `CopyOK`, the copy a handler works on is the row as it is; `ClosedOK`, a wait that is over was
on a paused run and no row waits on it again; `WorkOK`, the run at work is nobody's pause and its
receipt is of the row's identity; `ActiveOK`, an active run is of one row, was never paused, and
has a receipt only between its end and the commit of the row, or when the process died in
between; `OwnedOK`, a row nobody opened is empty; `ButtonsOK`, one token per paused run and none
alive past the decision; `ResumesOK`, how often a pause was resumed, by what became of it. It is needed as a
whole: a handler writes back its *copy*, so a row is sound after a commit only because
the copy was, and the copy is only because no other row or token can move what it
refers to. It holds as long as `bindings = 0`: `gateway bind-case` rewrites a row from another
process whatever a handler holds (section 6, `case_while_paused`). Resumes by other
processes are allowed, except where the table says otherwise.

The hypotheses of `AlertBridge` are what the code assumes and does not check: events differ in
their identity (`event_identity`), the alert file is replaced, not rewritten in place.
`NoneDropped` says that `DELIVERED_IDS_MAX` has not been exceeded and that no agent run
delivers its note *and* reports failure. Without each of them TLC has a counterexample
(section 6). The three theorems are the three conjuncts of `AlertsReachTheChat`.

`Together = 1` is the loop of the Telegram side, which handles one update at a time; with two
`reply_shared` refutes `OwnReplyOnly`, and with pauses TLC refutes `NothingBuried` (section 6).

`OneAtATime` says that one call on the watchlists is in progress at a time: two at once lose a
confirmed addition (`watchlist_race`). `NamedApart` says that no two scopes share a file name
(`Alike` in section 6).

The three theorems on `TradingLedger` are `LedgerHolds`, part by part, and hold for any number
of processes, retries and deaths; the conditions on faults stand in the properties.
`NoBuyLost` is conditional on `wrecked = {}`, no death having left a file torn: otherwise the
loss of `ledger_torn` is real. The events of a cycle are put together by `FlattenSeq`, a recursive
function. What it yields is proved in `FlattenFacts` (each element comes from one of the
sequences, none is lost, none comes twice), with the least counterexample in place of an
induction (`Climb`).

The cursor of the run list is an offset into an order that new runs shift, and a page skips
what the client does not ask for. `PagesInv` says why no run is lost: what the list misses
of the first page's runs stands behind the cursor (`Place(r) > cursor`) and below all that is
listed, a run only ever moves down (`PlaceGrows`), and of all requests only the last may still
answer, with a page that starts at the cursor (`AskOK`). A late run stands among the first
(`LatePlace`), in front of every cursor until more have started than a page holds. That bound
was found by the proof: an earlier form of `NewestFirst` held in TLC because too few runs started.
The ranks by which a filtered set is put in order are counted (`RanksAre`, `AscendingIs`).

`UsageIsLowerBound` needs `Prior = 0`, the first turn of a conversation: in a later one the
snapshot also holds the answers of earlier turns (section 6). The proof of `VerdictsStand`
found that the alternatives of `Status`, a CASE before, were not exclusive: TLC takes the
first that applies, TLA+ leaves it open. They, and those of `Replay`, are now tried in the code's order.

`BoardInv` joins the files a request reads one after the other. `TimesOK`: the log is in the
order of its times. `StateOK`: what `state.json` says is of a cycle that was. `TradeOK`: how
many lines a POST has in the log, by where it is: one from its append on, and after a failed
answer none, unless the command died (`Fits`). `NowOK`: NOW reads the state first and the log
last, so what it has read of the log holds for every cycle up to that of the state it has
(`Covers`). `PanelOK` and `PoolOK` are what is on screen. The proof found two conditions that the
bounds had hidden: a judgement is not older than its event only while no two cycles have one
time (section 7), and a confirmed trade is shown only while the log is no longer than
`AlertTail`. `WorstIs` and `QualityIs` say what the nested verdicts of the audit yield.

`FeesFit` is what `validate_spec_dict` demands, half of the cash for a position at most
(`toolset.py:130-132`), and that a lot is worth the least commission. The proof shows that the
reduction by one lot (`Shares`) is then never needed; an earlier form of the property held in TLC
without the hypothesis because its prices were low (section 6). The symbols an evening takes are
counted against the free slots (`FirstFit`, `EntriesAre`), which is what bounds the builder's side of `TypeOK`.

`Builder = {}` says that `quant_build_candidate_pool.py` does not run beside the service: a
builder fetches without the lock, and then two processes may both ask. `Hand = {}` is the
same for a report published by hand. The hypothesis of `SentAsShown`, `BeliefsKept` and
`StepsInOrder` is part of the properties: with two overlapping calls they fail
(`DraftNamesOneText` in section 6).

A proof module EXTENDS one component and, as the MC modules do, takes its neighbours by
INSTANCE: `ConsoleProofs` has `RunAnalysis`, `ConsoleActions`, `LiveConsole`,
`ConsoleList`, `RunProjection` and `DecisionBoard`, `MarketProofs`
`CandidatePool`, `HistoryCache`, `ScanFreshness`, `StrategyRound` and `Replay`, `DurableProofs`
`AlertBridge`, `Watchlist` and `TradingLedger`, `PluginProofs` `SupervisorLoop`, `CaseDesk`,
`ClientRecords` and `ClientPolicy`, `DeliveryProofs` `Polling`, `ReplyMarker` and `Feishu`, `RuntimeProofs`
`Settlement`, `ArtifactDelivery` and `Composition`. The constants and variables of an instance are declared in the proof module, so a theorem about it is for every value of them.

Each invariant was model-checked before it was proved. The proofs have one lemma per
action or group of actions, and a lemma such as `TokensUntouched`,
`ReceiptsUntouched` or `OnceAtRest` settles at once those that leave its variables alone.

Only model-checked:

- liveness (`DispatcherReturns`, `EverythingArrives`, `NothingHeldForever`): fairness and
  ENABLED are beyond this prover;
- what a fold or a filter over a sequence computes, which needs induction over data:
  `SummaryIsTrue`, `ReportIsWhole`, `RankingHolds`, `ContextHolds`.

## 6. Where documents and code disagree

Five have a run whose counterexample TLC prints.

1. `resumed_once`. `continuation.py:50` says "Resume a paused run exactly once". The
   guard is that the receipt says paused, and nothing ever changes that. If the
   process dies after the continuation started and before the row is saved,
   `recover_sessions` keeps the wait and the next `/approve` resumes the run again
   with its approved tool calls. (SPEC v0.3 §63 accepts redelivery and asks for
   idempotent *token* consumption, which `TokenRedeemedOnce` confirms; commands carry no
   token.) `ResumesAreCounted` is what does hold.
2. `ledger_torn`. `_write_json` truncates a file and fills it, and `_read_json` answers an
   unreadable file with its default. A process killed in between leaves `positions.json` torn;
   the next transaction reads no positions and `next_id` 1, and saves that.
3. `watchlist_race`. `toolset.py:747-748` says that "已加入" can "never be claimed without
   persisted state proving it". The read-back sees the call's own write; a second call that
   read before it overwrites the confirmed addition.
4. `reply_shared`. `service.py:359-362` says the marker is "fresh for THIS run only". It names
   no run: while two chats run at once, one is answered with the decision of the other.
5. `board_scan`. `dashboard/render.py:838-840` counts scans "only from records that really
   scanned"; a cycle that lost the connection logs the number of symbols it asked for.

The following were found in the same way, with the property or the bound named. They have
no run of their own: most are a decision somebody may have made, and the property that a
passing run checks says what holds instead. A definition marked "refuted" stays in its
module, so that each can be rerun by naming it in a configuration.

**Gateway.** `start_while_active`: SPEC v0.3 §29 wants no second run while `active_run_id`
is set; `_start_run` never reads it, and an acknowledgment that raises leaves it set.
`case_while_paused`: the README says binding is refused while a run waits; the chat commands
refuse, `gateway bind-case` does not look. `failed_batch`: `runner.py:299-302` says a failed poll
re-receives its batch; the in-memory offset has moved past every update normalised so far, the
failing one included. `late_line`: the telemetry spec asks for three checks of the
registration, the thread makes the first. `recover_sessions` does not restore a lost card, which
§65 asks for: a crash between `SavePaused` and `SendCard` leaves a pause that only a command
decides. `service.py:356-358` must not bury a recorded result: a continuation starts anew, so what
its run recorded before the pause is too old once it fails (`NothingBuried` with `Pausing`). In `Feishu`, what a dead process had queued is gone when the
platform does not deliver again (`Redelivery` FALSE).

**Runtime.** `Settlement` `AnomalyRecorded`: `runtime.py:177` promises that an inherited artifact
that changed is recorded as unresolved by the caller; the caller (`:263`) records open tool
calls only. `Composition`: a plugin edited under the same version is resumed as it is now
(`SameContents`), a profile without `[generalist]` is resumed under today's settings
(`HostStands`), a frozen permission outlives the host's (`CeilingHolds`), an entry point that
fails to import is no refusal (`FailuresAreRefusals`); `profiles.py:7-10` forbids secrets
anywhere, the check looks at top-level keys. `ArtifactDelivery`: `ExitTells` (`cli.py:34-35`: what
ends the process after its run completed exits as a refusal does), `CompletedIsAnswered`,
`CopiedIsSettled`.

**Console.** `RunInspection`: a section whose rows were all cut prints "- none"
(`inspection.py:570`, `EmptyMeansNone`), `CallListedOnce`, `SegmentKeepsScope`, `ProjectionSaysSo`
(`analysis_projector.py:68-70`), `SummariesAgree`, `TruncationMarked` (`:161`). `RunProjection`: the
docstring at `readers.py:98` says events are read first; the receipt is, and that order is what
makes `UnresolvedIsTrue` hold. In a later turn
(`Prior` > 0) the snapshot also holds the responses of the turns before: they are shown with
requests of this run and counted in its usage (`projector.py:253-256`, `:476-479`). The
same lines say that nothing is attached when the "counts disagree"; that they agree does not make the
pairs right: a request that failed and was tried again has two rows and one response, and with a
snapshot one response newer than the events the counts agree (`Attributed` with a retry). `ConsoleList` with two runs in `Unstamped`:
they have one sort key (`readers.py:185-187`), change places between two pages, and one is never
listed (`EveryRunListed`). Once more runs have started than a page holds, *Load more* appends runs newer
than the list below its older ones (`NewestOnTop`: the cursor is an offset, `readers.py:197`, the page is
put at the end, `console-view.ts:237-239`), against the "newest-first display" of `readers.py:185`. `ConsoleActions`: `actions.py:150-151` says an error is "surfaced verbatim to the
operator"; it is filed in a table that no route reads. `AnalysisReport`: `HostSectionIsSeen`
(`analysis.py:65`), `WholeIsAccepted`. `LiveConsole`: the inspection panel has no request
generation, so an older answer that arrives last stays (`InspectionCatchesUp`).

**zuaef_quant.** `TradingLedger`: `ExecutedHasPosition` after a death between two files,
`SellMatchesVenue`, `PositionsAreCurrent` (`toolset.py:628`). `AlertBridge`: with more lines than identities kept
(`Cap`) an event is sent again after a rotation; with a file rewritten in place (`SameInode`) or
events of one identity (`SharedIds`) a line is passed unsent; an agent run that delivers and
fails sends the note and the fixed copy; two ticks at once have no lock. `Watchlist`: every
writer of a scope uses one temporary file, so with two calls at once one renames what the other
has just emptied (`ReadersSeeWhole`); two scopes whose names agree once stripped and cut
(`Alike`, `watchlist.py:10-12`) share a list. `CandidatePool`: `EmptyPoolFailsClosed`, `NoTradeIsObserved`. `HistoryCache`:
`VolumesAreShares` (`quant_core.py:125-126`), `OneRefreshPerDay`. `MarketContext`: `LevelShown`, `TotalIsWhole`,
`LabelIsIndex`, `SidesDisjoint`, `NeverRaises` (a NaN reaches `int()` in `_to_int`). `ScanFreshness`:
`FreshIsToday`, `ZeroIsObserved`, `NotScannedIsTrue`, and `WeekendIsStale` with `Weekend = {2}`.
`Replay`: "buys ... never exceed available cash" (`quant_core.py:522`) is kept by the range of
`position_fraction` alone: after the reduction by one lot nothing looks at the cash again, and a
sell may cost more than it brings (`CashNeverNegative` without `FeesFit`).
`StrategyRound`: `PanelIsUniverse`, `OnePerRound`; a refused spec has used up the round.
`CandidateRank`: `BetterNeverLowerAnyCut`, `DividendNeverHurts`, `NoInversion`. `DecisionBoard`:
`MessageBelongs`, `OneFactPerForm`, `HeadlineIsTrue`, and `RefusedIsNotRecorded`: `serve.py:288-296` answers
400, "canonical host rejection", to every exit of the command but 0, and the command appends its
fact before it saves the ledger (`monitor.py:774`, `:781`; `:830`, `:837`; `:856`, `:863`). One that raises or is
killed in between is shown as refused (`render.py:1954`) although its fact is in the log, and sent
again it is recorded twice. `AnswerTells` therefore speaks of commands that did not die. A log longer than the tail NOW reads
(`AlertTail`) no longer shows a confirmed trade (`ConfirmedIsShown` says so); briefs are matched by symbol only, and
`join_trigger_rows` shows the latest brief of any day where `_agent_action` (`:807`) promises one
not older than the event.

**Other plugins and tools.** `CaseDesk`: `DraftNamesOneText`, `BatchWasShown`
(`toolset.py:14-16`, `:322-324`). `ClientRecords`: `HistoryAlwaysKept`, `Servable`. `ClientPolicy`:
`LowBudgetNoMeeting`, `EveryMessageAssessed`. `SupervisorLoop`: `PublishedIsThere` once a hand
publishes beside a poll, since they share the report worktree; `InstructionTaken` when the
supervisor does not wait (`Paced` FALSE); a crash after the record loses the instruction, by
design; nothing bounds a worker's run (`_invoke_codex`).

## 7. Abstractions, and what is not modelled

- Names, texts, prompts, keyboards, prices and wording are left out, or are members of a small
  set where a property tells them apart. A user is a member of the allowlist; a case
  exists; a profile admission either denies (`StartRun`, first disjunct) or not.
- Expiry of a token is a choice at the tap (`ConsumeToken`, first disjunct): a
  clock would only restrict it. In `Watchdog` a checkpoint may fall at any moment.
- A resume by the CLI or the console is one step of `Gateway`, from reading the pause to
  the receipt of the continuation: the gateway sees only what it leaves behind. Two requests of
  the console at once are in `ConsoleActions`.
- The agent loop is a black box: it ends terminal or paused, or it raises.
- Identifiers are numbers in order; a collision of `uuid4` is not modelled.
- SQLite commits, `os.replace` and git's own commands are atomic. Writing a file in place is
  not: it is opened empty and then filled, in every module where the code does so.
- `Polling` and `Feishu` treat `handle` as one step; `Gateway` treats delivery as arbitrary: any
  event, any number of times. An update has one sender and one chat.
- In `Settlement` each write has bytes of its own: a write of the bytes a file already had is
  no change to this code. The work listed covers one pause: a continuation that pauses again
  lists only its own changes, and no document promises more.
- `DecisionBoard`: one session runs the cycles, at least 30 seconds apart (`monitor.py:881`), so no
  two have one time: with two of one tick an older line of the tail could stand for a newer one.
  The ledger is a part of it: the lines of a command are appended, saved and answered in three
  steps, and a command may stop before, between, within or after them; a cycle saves its ledger in
  one step, and the three files of both are in `TradingLedger`. Whether the shares and the venue of
  a sale fit is a choice (`HostRefuses`). A form that cannot reach the server is left out.
- `ClientRecords` begins with a customer whose state file exists; the first save of a new one
  (`store.py:178-189`) has nothing to copy. `ClientPolicy` decides one message: its topics are added one
  by one, and asking for a price and naming a budget are one topic. The table of policies is fixed.
- `ScanFreshness`: a cycle ends on the day it began, `opportunities.json` is written whole, the
  lunch break is left out. `RunInspection` counts lines and not characters.
- Not modelled (`PROJECT.json` lists them with reasons): model providers and the knowledge
  capability (no state between calls), the plugins around libraries and services, the ChatGPT
  handoff, benchmarks, examples and demonstration scripts, components of the UI that only render.
- Partly modelled: `/profile`; previews of arguments and texts; indicators, statistics and the
  binary format of the evaluation; the reports of `ops.py`; the layout of the board; the
  endpoints for health and configuration.

## 8. Plan

The components of section 1 have their modules. What is left, in order:

1. Proof: the projections whose data is a sequence folded once (`MarketContext`, `RunInspection`),
   each with a lemma about its fold like the ones for `FlattenSeq` and `Ascending`.
2. `/profile` in `Gateway`, the reports of `ops.py`, more of the board's joins.

To run a model: `tlc -config <Run>.cfg <Module>.tla`, with the pairs of `PROJECT.json`;
to check the proofs: `tlapm <Module>Proofs.tla`.
