# proto-mcp: a TLA+ verification project

proto-mcp lets an MCP client (Claude Desktop, Claude Code) read and send Proton
mail through a local daemon.  The daemon holds a decrypted mail session, so most
of what can go wrong is about *when*: when it is locked, who approved what, what
a draft was when somebody approved it, how far the local mirror has followed the
server.  This directory holds TLA+ models of those parts, TLC configurations that
check them, and TLAPS proofs.  Paths are relative to the repository, `src/` being
its root.

## 1. Inventory

Processes: `protonmcpd` (the daemon, kept alive by launchd), `protonmcp` (the
CLI, also `serve-stdio`, which hosts the same `serve.Runtime`), `protonmcp-shim`
(stdio to Unix socket) and two Swift helpers (`touchid`, `lockwatch`).

| Part | State it keeps | Operations | What is hard | What makes it correct |
|---|---|---|---|---|
| Lock (`serve/runtime.go`, `idle_lock.go`, `lockwatch.go`, `mcp/unlock.go`) | `locked`, the session, the registered tools, `unlockMu`, the unlock gate, the idle clock, `lockstate.json` | Lock, Unlock, idle tick, helper line, SIGUSR1/2, the call that meets a locked daemon | five kinds of goroutines, a 60 s prompt outside the mutex | an unlocked daemon has one open session and its tools bound to it; a locked one has none; one prompt at a time; nobody waits for ever |
| Tool-call pipeline (`mcp/middleware.go`, `approval`, `policy`, `audit`) | the call, the policy document, the approval cache, audit rows | lock check, audit row, decision, rate limit, recipients, prompt, handler, completion; SIGHUP | concurrent calls, reloads and locks during a prompt, failed writes, panics, crashes | a handler runs only on a rule or a touch that covers it; the audit log says what ran; every call ends |
| Rate limiter (`mcp/rate_limit.go`, `store/rate_limit.go`) | buckets in memory and their rows | Allow, load at start | restarts, changed limits, failed saves, truncated times | no fresh budget from a restart or a reload |
| Mailbox mirror (`sync/sync.go`, `cmd/protonmcp/backfill.go`, `store/messages.go`, `mcptools/mail_read.go`) | rows, labels, cached bodies, the event cursor | RunOnce, backfill, read | cut off anywhere, several runners, a server that changes meanwhile | whatever the mirror holds is what the server held at the cursor or later |
| Drafts (`mcptools/send_snapshot.go`, `mail_send.go`, `drafts.go`) | per-draft mutexes, the approved snapshot; the draft itself on the server | send a draft, update it, create, delete | the draft changes between dialog and send | what is sent is what was approved; no update is lost |
| Daemon process (`cmd/protonmcpd/main.go`, `policy/pidfile.go`) | socket, PID file, lock-state file | start, accept, drain, stop | two daemons at once, files of one removed by the other, a Setup that fails half-way | a running daemon is reachable |
| Login session (`session`, `proton/resume.go`, `proton/client.go`, `keystore`) | tokens in memory and in the Keychain | resume, rotate, persist, revoke | single-use refresh tokens, a crash between rotation and write, two processes with one login | the stored login works, or the user is told to log in |
| Calendar mirror (`sync/calendar.go`, `store/calendar*.go`) | calendars, events, the events-blocked flag | two-phase sync, reconcile, backfill | a failure between the phases | the flag and the mirror agree |
| Attachments (`store/attachments.go`, `mcptools/attachment_*.go`) | a size-bounded cache, files saved to disk | put, evict, purge, save | eviction at the limit, partial files | the cache stays within its limit |
| MCP server (`mcp/server.go`) | handshake per connection, the tool registry | initialize, list, call | registry replaced while connections run | tools only after the handshake |
| Install and health (`cmd/protonmcp/install.go`, `daemon.go`, `doctor.go`, `protonmcpd/integrity.go`) | hash record, launchd plist | install, verify, restart | upgrade without install | no crash loop |
| The rest | – | queries, text handling, peer credentials, byte forwarding, flags | – | not control; listed in `PROJECT.json` as not modelled |

How they interact: a connection goroutine runs one request at a time through
`handleToolsCall` → `runTool`; `runTool` reads the lock flag (a callback into the
Runtime), may call `Runtime.Unlock`, bumps the idle clock, writes the audit row,
asks the policy engine and the rate limiter, blocks in the approval broker, then
runs the handler, which uses the session it was *built with*.  `Runtime.Lock` closes
that session and purges the approval cache; `Runtime.Unlock` replaces the session
and the tools.  SIGHUP replaces the policy and purges the cache.  The background
loop, the `mail_sync` tool and CLI processes all write the same SQLite store.

## 2. Modules

| Module | Models | Uses |
|---|---|---|
| `DaemonLock` | abstract: a lock with sessions and bound tools | – |
| `RuntimeLock` | Lock, Unlock and every goroutine that calls them | implements `DaemonLock` |
| `ToolCall` | `runTool`, broker and cache, policy reload, audit row | composes `DaemonLock` |
| `KeyedMutex` | the on-demand map of per-draft mutexes | – |
| `AtomicDrafts` | abstract: draft tools that act on a draft in one step | – |
| `SendDraft` | verified send, update, and the tools that compose drafts | composes `KeyedMutex`, implements `AtomicDrafts` |
| `EventSync` | RunOnce, backfill, body cache, the server's event log | – |
| `CalendarSync` | the calendar poll, its rows and mark, decryption on demand, the blocked flag | – |
| `DaemonProcess` | `main`, Setup, socket, PID file, lock record, teardown; launchd, `serve-stdio`, the CLI, doctor's lock line | – |
| `SessionTokens` | the login at Proton, its Keychain item, resume, refresh, login, logout, Close | – |
| `AttachmentCache` | cache rows and eviction, staging files, exclusive creation in `~/Downloads`, sweeps | – |
| `RateLimit` | buckets, rows, restarts, reloads | – |
| `MCx` | instance for TLC, history variables, symmetry | `x` |
| `xProofs` | theorems and proofs | `x`, or `MCx` where a theorem is about one of its history variables (`ToolCall`, `RuntimeLock`, `EventSync`); `ToolCallProofs` also holds the theorems about `RateLimit` |

A definition named `Fault_X` stands before the definition it could replace and
says what a plausible bug there would compute; no specification uses it.
`PROJECT.json` names, for every definition, the lines it stands for.

### State and actions against the code

**RuntimeLock.**  A session is a generation number (1 is Setup's).  `session` is
`Runtime.Session`, `bound` the generation captured by the registered tools,
`tool[c]` the one captured by the Tool value call `c` holds, `live` the ones not
Closed.  One critical section is one step: `LockNow` is `Runtime.Lock` under
`r.mu`, with the publication of `lockstate.json` a later step of the same
goroutine; `Unlock` is `UnlockBegin` (take `unlockMu`, read the flag),
`PromptApproved`/`PromptFails` (the acquire callback outside `r.mu`), `Swap` (the
second critical section: both its branches), `UnlockPublish`.  A locked call goes
`Dispatch`, `CheckLock`, `AskGate` (`unlockGate.begin`), Unlock, `GateEnd`,
`Recheck`, `LookupTool`, `Admit`.  The signal goroutine takes one signal at a
time from a channel of capacity `SigCap`.

**ToolCall.**  One action per step of `runTool` up to the deferred
`audit.Complete`.  A request is a record of tool, PID and arguments, which is also
the cache key (the code hashes exactly these three).  A failed audit insert or
update, a declined or timed-out prompt, a snapshot that fails, a handler that
fails or panics, a crash of the daemon are all alternatives of their steps.

**EventSync.**  The server's log is a sequence of events; a column is named by
the event it was current at, so "older" and "newer" can be compared.  A
`RunOnce` is split at every database write: the row, the labels, the body
invalidation and the cursor are separate steps, and `Abort` may come between any
two.  Backfill walks pages by number, newest first, over the listing as it is
*now*, which is where page shifts come from.

**SendDraft, KeyedMutex.**  A draft is the set of edits it carries: the fields
and the files of each call, and web edits.  The lock and unlock functions are
two steps each, as in the code (map mutex, entry mutex); entries are heap
objects that may be allocated again when nobody refers to them.  A composer
(`mail_draft_create`, `mail_send`, `mail_reply`, `mail_forward`) creates its own
draft, uploads its files one call later and, but for `mail_draft_create`, sends.
It takes no lock, and its draft is in every list from the moment it exists, so a
sender or an updater may pick it up half-filled.
`AtomicDrafts` is the same service without locks, fetches and comparisons; `Effect`
maps the program counter of a call to how far its effect on the server has come
(an update takes effect when `UpdateDraft` answers, a send when `SendDraft` does).

**CalendarSync.**  `row[e]`, `text[e]`, `mark[c]` are edit times (0: none).  A pass
is a program counter over the statements of `RunCalendarOnce`: calendars up,
vanished calendars down, then per calendar fetch, read the mark, upsert each
event above it, list, delete, save the mark; `CutOff` may come before any of them.  A tool's
decryption is two steps, the fetch (`ReadEvent`, `BackfillDecrypt`) and the write
(`FillDecrypted`), with a pass free to run in between.

**DaemonProcess.**  `proc[p].pc` walks `main()`: integrity check, stored login,
dialog, resume, files, wiring, publication, socket probe, bind, accept, and the
three steps of the teardown.  `sock`, `pidFile` and `lockRec.pid` name the
process that wrote them, or `Stale` once it has gone.  `job` is launchd's entry:
an exit with a status other than 0 is owed a respawn (`KeepAlive
SuccessfulExit=false`).  `cli` is the command the user runs, one statement at a
time where it acts on two things.

**SessionTokens.**  A session is a number, a token pair its generation: a refresh
raises it at Proton (`srv[u].gen`) and whoever holds an older one holds nothing.
`slot` is the Keychain item.  `Close` is two steps: the pass in memory is zeroed first, then the client waits
for a refresh in flight, whose hook may still store.

**AttachmentCache.**  A cached row is its time; a staging file or a download has
an owner and is whole or not.  A call is a program counter; `SumAttachmentBytes`
(the read) and `EvictAttachmentsToFit` (the transaction) are two steps, and what
the first saw may be stale in the second.  A sweep lists the directory, then
looks at and removes its files one by one.

**RateLimit.**  Time in ticks, tokens in units so that all refills are whole
numbers.  `Allow` holds one mutex throughout and is one step.

## 3. Runs

Every run is one question with all the properties that answer it, safety and
liveness together where the state space allows.

| Run | Shows | Bounds and why they are enough |
|---|---|---|
| `RuntimeLock` (120 000 states) | session and tools stay together, no spare session, no nagging, a resumed call is fresh, the whole implements `DaemonLock`; every call is answered, every accepted lock signal is served | 1 call, the signal goroutine, both lockers; 2 sessions, so one unlock and a lock after it; channel of 2 (the code's capacity); the clock moves once, which separates "in the cooldown" from "after it".  A second unlocker is the signal goroutine; any number of calls is the subject of the theorems |
| `ToolCall` (2.0 M) | audit log against what ran; nothing runs unauthorized | 2 calls on 2 requests that differ in the recipient, 3 policies (prompt with ttl, allowlist, deny), 2 sessions, 2 ticks: before, at and after a ttl of 1 |
| `ToolCallLive` (31 000) | every call ends | 1 call, a read added, 1 crash |
| `EventSync` | never behind the cursor, nothing missing, bodies current | 2 messages, 3 events (an event may carry two diffs), 1 loop, 1 backfill, 1 reader, 1 abort, 1 expiry; writers exclude each other and backfill starts empty (see Observations for the other cases) |
| `EventSyncLive` | the cursor catches up again and again | 1 message, 4 events |
| `SendDraft` (447 000) | what is sent was approved, no update lost, no message without its files, no lock kept; the whole implements `AtomicDrafts` | 1 sender, 2 updaters, 1 composer, 1 web edit, all on the draft the composer makes; 2 heap entries, so that one can be deleted while another is in use |
| `CalendarSync` (210 000) | what is skipped is mirrored, no older text on a newer row, a missing scope is told, the mirror catches up | 2 calendars with an event each (the loop over calendars, and one that vanishes), 2 edit times, 2 other changes at Proton, 1 outage or cut-off, 1 read beside a pass |
| `DaemonProcess` (146 000) | a ready daemon is reachable, doctor's LOCKED is true, no prompt loop, lock reaches every runtime, the daemon comes up, stop stops | 2 processes (daemon and `serve-stdio`, or an old and a new daemon), 2 human acts, 1 crash or failed step.  The invariants were also checked with 3 acts |
| `SessionTokens` | the stored pass opens the keys, the stored pair is current, no session abandoned | 2 sessions (the login and the one that replaces it), 2 refreshes each, 3 acts, 1 fault, daemon and CLI |
| `AttachmentCache` (556 000) | the ceiling, the answered path, no overwriting | 2 calls; 5 attachments: two that share a file name and do not fit together, one small enough to be inlined, two over the cap of which one declares less; ceiling 3, 2 names to try, 1 sweep, 1 fault |
| `RateLimit` | budgets across restarts, reloads, failed calls | 2 keys, limits 2/s and 1/s, 2 restarts, 1 failed call, 3 half-second ticks |
| `SessionOutage` (violation) | see Finding | as `SessionTokens` |

Runs without a deadlock check are those whose instance really stops: calls that
run once (`ToolCall`, `SendDraft`, `AttachmentCache`), a server with a last event
(`EventSync`), and processes that nobody starts again once the acts are used
up (`DaemonProcess`, `SessionTokens`).

Every property of a passing run was also checked to fail under a changed
definition (`mutants` in `PROJECT.json`).

### Finding

`resume.go:143-145` says that "only 5xx and network errors leave the Keychain
entry alone so they don't blow it away on a transient outage".  The entry stays,
but its session does not: `closeAndWrap` (`resume.go:95`) revokes it with
`AuthDelete` on a context of its own, which often succeeds when the call before it
did not.  The kept entry then names a session Proton no longer knows, and the next
start ends in "login required" (`OutageKeepsLogin`).

### Observations

Behaviour the models have and that the properties above name as their
exceptions.  Where a definition is given, adding it to the run's cfg shows a trace.

- `middleware.go:404-406` says a screen lock during a pending unlock prompt "lands
  here", in the re-check.  The daemon is already locked then, the lock is a no-op,
  and the approval that follows unlocks it (`RelockNotOverridden` of
  `MCRuntimeLock`, as a PROPERTY).
- `runtime.go:122-124` says a lock revokes the approvals given before it.  A prompt
  already on screen is not cancelled, and its approval is cached after the purge
  (`broker.go:121`); it serves later calls for its ttl.
- `backfill.go:165` tells the user to re-run backfill, "it's idempotent".  A message
  deleted between the two runs stays in the mirror (`RerunIsIdempotent` of
  `MCEventSync`, with `CleanBackfill = FALSE` and 1 abort).
- `sync.go:1-2` promises a mirror "in lockstep".  Two overlapping RunOnce calls (the
  background loop and `mail_sync` or `protonmcp sync`) can leave an older envelope
  for good (`InLockstep` of `MCEventSync`, with `Exclusive = FALSE` and 2 runners).
- `calendar.go:303` skips what is at or below the mark as "already mirrored".  A
  calendar that leaves the listing loses its rows and keeps its mark, so that after
  its return its old events stay missing (`AlreadyMirrored` of `CalendarSync`).
- `send_snapshot.go:31-32` names web edits as the one thing that may change a draft
  between the check and the send.  The upload of a composer still filling that
  draft is another: it takes no lock.
- `attachment_download.go:289-291` says a staged file "does not outlive its
  SQLite-cache counterpart".  It does after an eviction, which removes rows only
  (`EvictAttachmentsToFit`), and until the next sweep.  The other way round, the
  daemon's sweep at start (`runtime.go:234`) removes old staged files and no rows of
  `attachment_cache`; those go with `protonmcp purge` and a start of `serve-stdio`.
- A Setup that fails in `validatePolicyCoverage` (`runtime.go:479`) leaves its PID
  file, unlike the failures beside it.  Readers of the file check the executable
  of the process it names, so nothing comes of it (`WireFails` of `DaemonProcess`).

## 4. Fairness

Weak fairness on a goroutine's or process's own next step: the scheduler runs
what can run.  What is assumed beyond that, and why:

- `RuntimeLock`: strong fairness of `UnlockBegin`, which waits for a `sync.Mutex`:
  the mutex hands itself to a waiter that has starved for a millisecond.  A prompt
  ends, approved or not: the startup gate kills its helper after 60 s.
- `ToolCall`: a prompt ends, for the broker kills its helper after 30 s
  (`helperTimeout`).  Nothing is assumed of the user: `Declined` is what is fair.
- `EventSync`: the background loop calls RunOnce every two minutes for ever, hence
  `SF` on `Begin`.
- `CalendarSync`: `WF` on a pass's steps, its begin included: it hangs on the same
  loop.  Cut-offs are bounded, so this says that passes are not cut off for ever.
- `DaemonProcess`: `WF` on launchd's spawn, the CLI's next statement, a process's own
  steps and the handling of a signal it has received.  `SF` on `PromptApproved`:
  `ComesUp` is a claim about a user who approves when asked again and again.

Nothing is assumed of the screen, a client or the server: they may never act.
Safety runs check `Spec` without fairness.

## 5. Proofs

All proofs are for every value of the constants, from the named assumptions the
modules declare (TLC evaluates them in the runs).  Every theorem follows the same
plan: a lemma for the initial states, one per action or per group of actions that
do the same to the state, and a last step that combines them with PTL.  What the
inductive invariants add to the properties:

**`RuntimeLockProofs`** (from `ConstantsAssumption`): `TypeCorrect`,
`UnlockedIsAlwaysUsable`, `LockedHoldsNoSession`, `UnlocksSerialized`,
`GateNeverLeaks`, `ResumedCallsAreFresh`, `CooldownIsKept`, `Implements` (every
step is a step of `DaemonLock` or a stutter).  `LockInv` adds `MutexOwner`
(`unlockMu` is held by exactly the unlocker inside its section), `CallerInUnlock`
(a caller and its Unlock agree on where they are, which carries the gate from
`begin` to `end`) and `GenerationsGrow` (an approved session is the newest and
open, so a lock, which closes the *installed* one, cannot close it).  The key step
is `Swap`: an unlocker in `"swap"` finds the daemon locked, because only an
unlocker clears the flag and `unlockMu` admits one.  So the "lost a race" branch
of `Unlock` is unreachable.  `CooldownIsKept` is about the time of the last
decline, a history variable of `MCRuntimeLock` (`NoNagging`).  `CooldownInv` ties
it to the gate: a call that holds the gate entered a cooldown after the last
decline (`Settled`), or is the one that was just declined and has still to say so
at `GateEnd`; when nobody holds the gate, it opens no sooner than a cooldown after
that decline.

**`ToolCallProofs`**: `PipelineTypes`, `AuditIsTrue`, `OnlyAuthorizedRuns`, and
for the limiter `BucketTypes`, `BudgetIsKept`.  The audit property is made
inductive per call (`CallAudit`): what the row says, whether the handler ran and
where the call is go together.  Authorization needs `CacheInv` (a fresh entry of
the cache is an approval that stands, with the same end) and `Judged` (a call past
its decision carries a rule that allows it to be there).  `BudgetIsKept` (from
`RateLimitAssumption`): what a key was granted since its first call is paid for by
its credit (a full bucket, one more per restart that forgot it, what rounding and
failed saves gave back) and by the refill since.  `BudgetInv` states this for the
bucket in memory together with what it still holds (`LiveBudget`) and, since a
restart may bring it back, for the saved row (`SavedBudget`).  It survives
restarts and changed limits because a row loses less than a second to rounding
(`SecondsRoundDown`) and no limit refills faster than the greatest
(`RefillIsBounded`).  Products of two variables are named in lemmas of their own,
so that the solver sees sums only.

**`SendDraftProofs`** (from `SendDraftAssumption`, `KeyedMutexAssumption`):
`SendDraftTypes`, `OneMutexPerDraft`, `OneHandlerPerDraft`, `LockedByARunner`,
`ApprovedIsSent`, `UpdatesAreKept`, `ComposedIsWhole`, `DraftsAreAtomic`.  First
the mutex (`LockInv`): a call refers to an entry exactly between its lookup and
its drop, no two drafts share an entry, and the reference count is the number of
its users, by the cardinality lemmas of the library.  With that, `OthersOnlyAdd`
says that while a handler is between fetch and write, nobody else removes anything
from its draft, and the three properties of the content follow.  `DraftsAreAtomic`
is the refinement: a step of the lock, of a fetch or of a dialog is a stutter of
`AtomicDrafts` or ends the call without effect (`QuietImplements`); every other
step is the one it is named for, with the mutex giving that no update is half done
(`Quiet`) and `ContentInv` what an update keeps and a send sends.

**`AttachmentCacheProofs`** (from `SizesAssumption`, `BoundsAssumption`,
`AttsAssumption`): `CacheTypes`, `PathsHold`, `DownloadsAreKept`,
`CacheStaysWithinCeiling`.  `CallInv` says a call that fills a file in
`~/Downloads` created it; `StagingInv` that a staging file belongs to the
attachment its name says and, unless it is whole, somebody writes it or a reason
is on record.  `CeilingInv`: when the cache is above the ceiling and nothing on
record excuses it, a call has still to sum the rows, or has summed them and knows
of all that are there; so the last of several evictions sees enough.  The lemmas
on sums of sizes (`BytesSplit`, `BytesMonotone`) take a smallest counterexample
where one would use induction.  The proof attempt found the record of a failed
eviction (`lapsed`) cleared too early: an eviction that had not seen every row
cleared it, and three calls could then leave the cache above the ceiling with
nothing on record.

**`SessionTokensProofs`** (from `ConstantsAssumption`): `TokenTypes`,
`StoredPassStaysWhole`, `StoredPairStaysCurrent`, `NoSessionIsAbandoned`.
`TokenInv` adds what a process may be in the middle of (`Sound`), that a login
under way shares its session with nobody (`LoginIsAlone`), and that two processes
with one session are on record (`HoldersAreCurrent`), without which a refresh by
one would make the other's pair worthless unnoticed.

**`CalendarSyncProofs`** (from `ConstantsAssumption`): `CalendarTypes`,
`SkippedStaysMirrored`, `TextStaysCurrent`, `BlockStaysTold`.  `MirrorInv` follows
an event through a pass: what the pass was told is in the past and at most as new
as the server (`InThePast`, `NewsIsNewer`), what it has written is in the mirror
until it saves the mark (`WrittenIsMirrored`), what it has still to write is in
`todo` (`WorkLeft`, `OnItsWay`).  The mark goes up last, which is why a cut-off
costs only a repetition.

**`EventSyncProofs`** (from the assumptions of `EventSync`): `MirrorTypes` for any
writers and readers at once; `NothingIsSkipped`, `NothingIsMissing`,
`BodiesAreCurrent` under `Exclusive` and `CleanBackfill`, as hypotheses of the
theorems: one writer at a time and a backfill of an empty mirror.  `CursorInv`
says which prefix of the run's events each row already reflects (`RunSound`) and
what a backfill has filled in (`Filled`); the stored cursor moves only when all of
its batch is applied.  It rests on lemmas about `LastDone`: an event that leaves a
message alone leaves what the server holds of it, and the log's past does not
change.  `FilledInv` (for `NothingIsMissing`) says what a walk has covered: every
listed message that was there when the walk began and has as many newer ones as a
page already asked for has a row (`Covered`).  Messages created meanwhile only
move the others to later pages (`EmitLists`), and no page in between is empty
(`PagesHaveNoGap`, by counting), so the first empty page ends the walk.  That
lemma was false at first: two messages created by one event had no order between
them and shared a page; the listing now orders them by their place in the event
(`Newer`).  `FreshInv` (for `BodiesAreCurrent`) says that a cached body is as new
as the server's at the cursor, and as new as the batch a run is applying unless
the run has still to invalidate it (`BodyLeft`), the bodies that a read raced with
being on record.

**`DaemonProcessProofs`** (from `ConstantsAssumption`): `ProcessTypes`,
`ReadyStaysReachable`, `DoctorTellsTheTruth`, `NoDialogReturns`, `StopsForGood`.
`ProcInv` rests on `OneDaemon` (launchd's instance is the only daemon, so no two
ever probe, bind or unlink at once), `RecordOfLive` (a lock record naming a live
process is that of its lock, and that process handles signals), `Hopeless` and
`Stopped` (after a final exit, or a stop, nothing is due).

### Only model-checked

Every safety invariant and every action property of the passing runs is a theorem.
(`TypeOK` of `SendDraft` is a theorem only.) What stays with TLC is liveness
(`CallReturns`, `LockSignalServed`, `CallCompletes`, `CatchesUp` of both mirrors,
`LockCommandReaches`, `ComesUp`): fairness and ENABLED are out of the prover's
reach.

## 6. Not modelled

- Wording, formatting, redaction, cryptography, SQL, iCal and MIME text, path and
  argument checks: data the properties do not tell apart.
- A wall clock that is set back (`RateLimit`, `ToolCall`, `AttachmentCache`).
- Two calendar passes at once; two edits of an event within one `LastEditTime`.
- A daemon started by hand beside launchd's; a PID taken over by another program.
- In the mailbox mirror: label rows, body purges, `--limit`, and `mail_state.go`,
  which also writes rows.
- `mail_draft_delete`: a single server call that takes no lock; what the send of a
  trashed draft does is decided at the server.  A policy override that gives
  `mail_send_draft` a ttl: its cache key does not cover the draft's content.
- The handshake of an MCP connection (a flag per connection), the JSONL mirror of
  the audit log (one locked append per record), the stdio shim (copies bytes),
  queries, and the remaining CLI commands.  `PROJECT.json` says for each why.

## 7. Plan

Done, in this order: `DaemonLock`, `RuntimeLock`, `ToolCall`, `EventSync`,
`KeyedMutex`, `SendDraft`, `RateLimit`, `DaemonProcess`, `SessionTokens`,
`CalendarSync`, `AttachmentCache`, the composers in `SendDraft`, and proofs for all
of them.

What would come next, by worth:

1. `mail_state.go` as a third writer of `EventSync`: a flag change that writes back a
   row read before the sync moved it (`mail_state.go:364`).
2. `SendDraft` composed with the approval cache of `ToolCall`, for a policy that gives
   `mail_send_draft` a ttl.
3. `DaemonProcess` composed with `RuntimeLock`, so that the flag and its publication
   are two steps also where several processes write one lock record.
4. An abstract login that `SessionTokens` implements.
