# Semora Console: a verification development

TLA+ models of Semora Console (`src/`), the TLC runs that check them on small
instances, and theorems that TLAPS checks for every instance. The console is a web
page and a Python server that run an agent through the external `semora` engine:
tool calls under policies, approvals that park a run, workers that crash and recover,
branches of a finished run, and one irreversible effect, a payment.

Paths below are relative to the repository, `console/` for `src/console/`.

## 1. The system

| component | state it keeps | operations | makes it correct |
|---|---|---|---|
| leased business effects (`console/session.py`) | the conversation's lease and fencing token; a record per business key: ready, running, done | `run`, `execute`, `renew` | a key is started once until a person reopens it; what was recorded stays; the lease comes free |
| charge tool (`console/tools.py`) | none of its own; the record's amount | `_charge`, `_step`, `_same_amount` | what the agent is told of a charge is what the provider took |
| fault seams (`console/store.py`) | armed seams of a conversation | gate, effect, commit | a simulated death leaves what a real one leaves |
| server sessions (`console/server.py`) | `_sessions`, a per-process cache of dicts; a durable record of each | `_session`, `_remember_session` | the record never says less, or more, than the engine |
| requests | the running task in the session; abort flag | run, resume, recover, abort, steer, fork | an abort cancels; a steer is drained |
| settlement (`console/server.py`) | `undecided_step` and `undecided_effect` in the session; two records of one charge | `run_attempt`'s excepts, `recover`, `settle` | a charge in doubt is paid once and told as it was; the doubt ends |
| frame projection (`console/server.py`) | the sets of `_stream` | `on_event`, `_project_event`, `publish` | each call, verdict and answer is shown once, and marked as what it is |
| streams | a queue, the end marker, the frames kept in the transcript | `_stream`, `put`, `run_attempt` | a stream ends, and says how |
| engine adapter (`console/runtime.py`) | a turn counter | `dispatch`, `recover`, `before_model` | an aborted run stops; the eighth turn is the last |
| hooks of a round (`console/runtime.py`) | results and answers of the attempt | `on_inputs`, `pre_tool_use`, `on_resume`, `post_tool_use`, `project_missing` | every answer is shown, and once |
| checkpoints (`console/fork_demo.py`) | gates and rebuild points of the calls, a scope and a sequence | `stamp`, `read_event_checkpoint` | a restore point has its checkpoint, with the history of its own call |
| forks (`console/fork_demo.py`, `console/server.py`) | a version per fork: history, session, copied records | `/api/fork`, `resume_history`, `run_from_event` | a version replays what its source did, pays nothing twice, and is gated by its own units |
| policies (`console/units.py`) | none: composed per request | `compose_controls`, `revalidate`, the rewriting units | a new denial beats an old approval; the budget holds over attempts; what a unit takes out does not enter |
| request budget (`console/server.py`) | a window of times per caller | `rate_limit` | no caller exceeds the window; the table is bounded |
| page run state (`console/static/run-state.mjs`) | phase, branch, pending call, busy | 13 transitions | the phase follows the run |
| page (`console/static/app.js`) | the run, the frames, `undecided`, the branch in localStorage | clicks, `handleFrame`, `consume`, `restoreRun` | it offers what the server would take; a reload lands back on the same run |

The page posts a request and reads an NDJSON stream of frames. The handler looks the
session up, starts `run_attempt` as a task of its own and forwards what that task
puts on a queue. The attempt drives the engine, which calls policies and tools; the
charge goes through `session_step`, which takes the conversation's lease for that one
effect. Every frame is kept in the transcript before it is sent. Several workers
share the ledger and nothing else.

What makes it hard:

* *Interleaving at every await*: two requests of one branch, on one worker or on two,
  share a dict (or two dicts that should be one) and a record that each writes whole.
* *Cancellation*: an abort or a client that leaves cancels the attempt at whichever
  await it is at, inside or outside its `try`, in its `except`, in its `finally`.
* *Leases and crashes*: a lease lapses while its holder still runs; a worker dies with
  money gone and nothing recorded; a renewer may outlive its effect.
* *Ordering on the page*: frames, ends of streams and answers to clicks arrive on
  separate connections and are applied to whatever run the page then shows.
* *Rebuilding*: after a restart from the record, after a reload from the kept frames.

`PROJECT.json` lists each hazard at its line with the properties aimed at it.

## 2. The modules

### ChargeOnce, SessionStep: an irreversible effect

`ChargeOnce` is the abstract promise: a business key is claimed by one attempt at a
time, only the attempt that claimed it may ask the provider, once, and a claimed key
becomes claimable again only when a person reopens it. `SessionStep` and `Settlement` are both
proved to implement it, the second as long as requests do not overlap.

`SessionStep` is the machine. An attempt is one execution of `charge_card` (a first
run, a recovery, a resumption or a fork, on any worker); `pc` names the await it is
suspended at:

    idle -> acquire -> read -> start -> body -> finish -> release -> done
            (run)     (execute)        (_charge)         (run's finally)

`Expire`, `RenewLost`, `RenewRetake`, `Cancel`, `Die` come in between at every await;
`CancelAcquire`, `CancelInside` and `CancelRelease` deliver the cancellation where the
attempt then is. `SettleAsk`...`SettleRelease` are `POST /api/settle` as far as the
business record goes.

The ledger (`semora_store`) is not part of the repository. What is assumed of it is the
weakest that explains its use: `acquire` gives a fresh token and refuses while another
owner holds the lease; a write takes effect only under the last token given, lapsed or
not. `start` is *not* assumed to look at the record it sets to running. In one place
`Settlement` takes the kinder reading: `forget` leaves a record that is done alone
(`Settled`). With one that erases it the run `settlement` still holds; the refinement of
`ChargeOnce` would not, since a recorded charge could then be claimed again.

### Settlement: a charge in doubt, over both of its records

A charge has a tool record in the branch (`tool[c]`, with the version the engine bumps at
every start) and a business record in the conversation (`effect[c]`). `settle` finds them by
the two coordinates in the session (`Flags`), which `run_attempt` notes in its excepts:
`undecided_effect` at a simulated crash (`Crash`), `undecided_step` at an `Indeterminate`
(`ToolRunning`, `ChargeRunning`). As in `Console`, a worker's cached copy (`cache`) and the
record (`saved`) are apart, and a worker that has the session cached does not look at the
record. `Post`, `ReadFlags`, `Unresolved`, `Acquire`, `WriteEffect`, `Resolve` or
`ResolveStale`, `SaveFlags` are `settle` await by await; `Die` and `Cancel` come between any
two. What a person answers is what the provider would say when the answer is posted. The
lease is held for one step of an attempt and between `Acquire` and `WriteEffect`: everything
below that is `SessionStep`'s. `overlaps` counts requests made before the last one was
answered; most properties are about `overlaps = 0`, what a person at one page does. The
`decision_id` of an answer (`server.py:1172`) is left out: two answers to two versions of
one call have equal ids, and what the engine does with a repeated one is its own.

### Budget, RateLimit: requests per caller

`Budget` is the promise: every admission is remembered for ever, and a caller is refused
exactly when the last `Limit` of them lie in the window. `RateLimit` is `rate_limit` with
`_hits`: a deque per caller that is pruned when the caller comes, and a sweep of quiet
callers when more than `Known` are in the table. It refines `Budget`, so forgetting changes
no answer. A process that restarts forgets its counters; that, and a limit of 0, for which
`hits[0]` raises (`server.py`), are not modelled.

### Console: a branch on several workers

Session dicts live on a heap (`object`), named by the request that created them;
`cache[w]` is `_sessions` of a worker; `saved` the durable record; `ref[r]` the dict a
request holds, whatever the cache holds later. `pc[r]` is the await the request or its
attempt is at: `reading`, `filling` (`_session`), `remember`, then `run_attempt`:
`meta`, `start`, `enter`, `engine`, `marking`, `keeping`, `outcome`, `closing`, with
`except` and `winding` for a cancellation. The engine is external: it admits a drive
that fits the branch's state, drains the input queue, and parks, is interrupted or
finishes; a lapse takes the lease from it.

Three constants say what clients do. `Overlap` is when a continuation may be posted:
`"never"` before the previous stream has ended, `"tail"` once its closing frame is
read (what the page does: it enables the button on the frame, not on the end), or
`"always"`. `Leave`: clients may go away in mid-stream. `MaxRestarts` bounds restarts.

### RunState, Page: the page and its streams

`RunState` has one operator per transition of `run-state.mjs`, with a predicate
(`canAttach`, `canPark`, ...) for each that throws. `Page` runs them: a click posts a
stream (`runActive`, `decide`, `recover`, `forkSource`) or a plain request (`abort`,
`sendSteer`, `settle`); frames are read in order within a stream and in any order
across streams (`ReadFrame`, `ReadEnd`), through `handleFrame`; `Reload` throws the
page away and folds the kept frames through the same handler, `replayStream` before
each later `meta`. An end is judged by the phase of the run the page then shows, as
`consume` does. The server is summarised: a stream is a `meta`, at most one closing
frame and an end, or it is refused or breaks; `fenced`, `contended` and `error` are one
frame `failed`, since the page treats them alike. `Patient` says whether a stream is
only asked for when nothing is in flight; `Clicks` which plain requests are used.

### Policies, Round: the gates of a batch and its restore points

`Policies` holds the gates as operators over `calls_made`: `approval`, `dlp_block`,
`rate_cap` with its `Rank`, their composition `Permissions` and `revalidate`. A call is
a record of what they read: a request (tool and arguments), the effect its tool
declares, and whether its outbound text leaks. The rank of a call is looked up among the
requests the model made; one that equals none of them is ranked behind them all
(`units.py:107`), and only an edit makes such a call.

`Round` follows one batch of calls of one branch through its attempts: `Run`, `Resume`
(one answer, perhaps with other units, and an approval perhaps with other arguments,
`Edits`: gates and body then see the edited call, `called`), `Recover` (from the last gate the transcript
holds). An attempt is one stream. Its hooks are actions (`PreToolUse`, `OnResume`,
`Execute`, `PostToolUse`, `Mark`, `ProjectMissing`), each of which queues in `todo` the
frames it emits; `put` is three steps, because it awaits three writes: `Stamp` appends
the checkpoint, `Register` finalizes the gates and registers what is forkable (nothing
is awaited between the two, so they are one step), `Keep` keeps the frame. `Open` is the
meta frame, whose stamp makes a new projector read the gates of the branch. `Cancel`,
`CancelOpening` and `Die` may come between any two steps; `Die` takes the session, the
projector and any armed seam, and the next request reads the record back
(`rehydrate`). The crash seams of the scenarios are `seam`.

Of the engine `Round` assumes what `src/` relies on: tools run one after another
(`console/tools.py:208`); a batch waits for every answer (`tests/test_native_runtime.py:365`);
a journaled call and a human denial get no hook (`console/runtime.py:62-66`); a recorded
result may go straight to its journal; `calls_made` is the whole batch
(`console/units.py:95-97`), unedited also when a call is resumed. A denied call stays denied in the attempts that follow.
Left out: `input_mask`, `log_gate`, rounds after the first, the undecided effect (that is
`SessionStep` and `Settlement`), and frames with neither coordinate nor answer, the meta
frame excepted. Units that rewrite results, and the frames `publish` announces and defers,
are in the next three modules.

### Rewrites, Frames, Forks: the versions of a conversation and what their streams show

`Rewrites` holds the four units that rewrite a result and their composition (`Journal`), a
fold over the selected units in order. A result is what its text has become, whether it
still holds personal data, and who rewrote it last.

`Frames` is a stream as a state with three operators: `on_event`, `publish` (with the sets
that keep a call, a verdict or a result from being shown twice) and what is flushed at the
outcome.

`Forks` composes both with `Policies`. A version is a branch with its native history, its
session, its engine records, its hooks (`ObservedControls`) and its stream. `Run` begins the
first; `Fork` takes any restore point a finished version registered, with new units, asked
to regate or to rejournal what it replays, and refuses what `/api/fork` refuses; the history
it starts with is `resume_history` of the checkpoint; `Resume` answers a parked call, an
approval perhaps with other arguments (`Edits`), which the gates, the body and the payment
see and the history does not. Hooks
are one step each. Which hook an engine calls for a copied record, and that a batch waits
for every answer, are external: they are read off `run_from_event`, `Journal`'s uses and
`tests/`. Deaths inside a hook are left to `Round`, and `rate_cap` to `Round` too, because
`calls_made` of a fork is the engine's.

The fallback of `publish` that announces a call without one, or holds an answer back for it,
never fires under `ObservedControls`, because its hooks announce first; a comment
(`server.py:611`) gives the replays, for which the loop emits no events, as its reason.

Each module carries, beside the definition they change, the mutated forms that the
`mutants` of `PROJECT.json` put in its place: each is a plausible bug, and the
property named with it fails under it.

## 3. The runs

| run | asks | bounds | result |
|---|---|---|---|
| `session` | one charge per key, true reports, the abstract promise; the lease comes free | 2 attempts, 1 settlement, 1 key, 2 amounts | holds |
| `settlement` | a charge in doubt: paid once, told truly, its key kept, decided in the end | 1 worker, 2 settlements, 2 charges, 2 overlaps, 2 deaths or cancellations | holds |
| `budget` | Retry-After is enough, the table is bounded, no answer differs from `Budget`'s | 2 callers, a table of 1, limit 2, window 3, 8 ticks | holds |
| `console_workers` | terminal only when finished; every stream closes | 2 workers, 2 drives, overlap, leaving, 1 restart | holds |
| `console_abort` | an abort cancels; terminal is final; what nobody cancelled is recorded | 1 worker, 3 drives one after another, abort, steer, leaving | holds |
| `page_patient` | what the page offers the server would take; a reload rebuilds the run | 4 streams, 1 reload, 1 broken connection, patient | holds |
| `page_streams` | streaming comes to an end; the end of a closed stream fails a run only if it was overtaken | 2 streams, 1 click of any kind, 1 reload, 1 break, impatient | holds |
| `round_restores` | every restore point shown can be forked from and restores its own call; each answer is shown; no body runs against a gate; the rate cap counts right | two batches of 3 calls, 3 selections of units, 3 edits, 5 attempts, 1 death or cancellation, crash seams | holds |
| `forks` | histories stay whole; bodies and payments happen once; gates and masks of a version decide what enters it; its stream shows calls, acts and replays once and truly | batches of 2 and 3 calls, 3 selections, edits, 3 versions, 4 attempts, one at a time | holds |
| `settlement_lost`, `settlement_overlap`, `console_overlap` | see the findings | | violated |

Why the bounds are enough to be interesting. Two attempts are a worker that died with money
gone and the recovery that finds it undecided, or two that race; two amounts are what
`_same_amount` tells apart (keys do not interact but through the lease, and the theorems
hold for any number of them). Two charges let the key of one outlive it into the doubt of
the other; two settlements and two overlaps are two answers and a recovery at once; two
cuts are a charge lost and a settlement that dies half way. One caller more than the table
keeps makes every admission a sweep; a window of a second and a half tells rounding up
from rounding down. Two drives on two workers give every pair of stale caches; a third drive
is needed for a park, a crash and a finish in one history. Four streams are a run, an
answer, a recovery and a fork. Three calls are a read before two effects, one of which
leaks, and three effects under a budget of two; an edit takes the address out of a mail,
puts one in, or makes a request nobody made; five attempts are a run, an answer to each
of three calls and a recovery, or recoveries in between. Three versions are a run, a fork
and a fork of that fork or of the run; the fourth attempt answers one that parked.
In `forks` a charge comes before a mail that leaks, and such a mail between a read of personal
data and a lookup, so that a fork starts before, between or behind effects.
`MaxActive` is 1 in `forks`, because versions share nothing but the provider, and what it
took is compared at the end.

Restarts, reloads, breaks, overlaps, cuts, versions, streams and the clock are bounded by
`MaxRestarts`, `MaxReloads`, `MaxBreaks`, `MaxOverlaps`, `MaxCuts`, `MaxBranches`,
`MaxStreams`, `MaxTime`; nothing else in the models counts upwards but tokens, epochs,
versions of a tool record and payments, which those bound. Deadlock is not checked: when
every request has been made and served, the instance stops.

The restrictions of the passing runs are part of what they say. Without them the same
properties fail, and those are the findings and the behaviours listed after them.

### Findings

Each is a run that expects a violation; the trace is TLC's.

* `settlement_lost` (`console/server.py:1132`): `settle` wants both coordinates, and
  `undecided_effect` is noted only where a `SimulatedWorkerCrash` is caught. A charge lost
  to a real death, to a client that leaves or to an abort is never decided.
* `settlement_overlap` (`:1144`): an answer is bound to the version read when it is served,
  not to the one the person was shown. Posted twice around a recovery, the second answer
  forgets the retry the first one allowed, and the customer is charged twice.
* `console_overlap` (`:822`): a stream that ends pops the session's task whosever it
  is; an abort then answers ok and cancels nobody.

More disagreements are reachable in the models, and the project keeps no run for them:

* The page enables its buttons on the closing frame and judges the end that follows by the
  run it then shows (`console/static/app.js:1228`). An answer clicked between the two is
  failed by the end of the stream that parked the call, although the design makes only an
  end *without* a closing frame an error (`ui-design.md:231`). `Overtaken` in
  `OnlyOvertakenEndsFail` is this exception: without it the property fails.
* An approval may edit the arguments, and the edited call equals no request of the batch, so
  `rate_cap` ranks it behind all of them (`console/units.py:107`). Of two charge/send
  requests, which `README.md:51` says are allowed, the edited one is denied. This rests on
  `calls_made` keeping the requests as the model made them. `Unedited` in `BudgetHolds` is
  this exception: without it the denials break the property.
* **Records that disagree**, in `Settlement` with two charges and two cuts, no overlap. The
  first charge is lost to the crash seam, so `undecided_effect` is its key; recovery notes
  the step; the person settles; the worker dies after `Resolve` and before `SaveFlags`, so
  the record of the session still names the first key. The next attempt loses the second
  charge for real; recovery notes its step beside the stale key. The person's answer about
  the second charge is then written to the business record of the first, and only the tool
  record of the second is settled, although `settle` "reconciles both with the same
  evidence" (`server.py:1122`).
* `NotedIsKept` fails with a second worker: its cached session, read before the crash,
  is written back whole and takes the key out of the record.
* On an impatient page the suspended frame of an old stream, read after a new run was posted and
  before its meta frame, parks that run without a branch (`app.js:1171`).
* `GatesSettle` without `~unread` fails in `Round` with a worker that died and a request
  cancelled in its first read (`console/fork_demo.py:104`): the projector marks the gates
  read before it awaits the transcript, and what later attempts finish does not make the
  earlier gates forkable.
* A recovery starts from the last gate of the batch, though the docstring of `recover`
  (`server.py:1066`) promises the round before its first tool.
* A replay a fork's gate suspends and a person then approves is shown without its mark:
  the converse of `MarksAreTrue` does not hold in a resumption. One that the person denies
  is shown as executed, because `project_missing` goes by the record (`runtime.py:87-90`);
  no property is about it.
* When two units rewrite one result, only the last is told; `ActsAreTold` asks for one.
* A worker's cached session is never refreshed, and resuming there writes a finished run's
  record back to open (`server.py:1009`); a client that reloads between the engine's outcome
  and the record of it leaves a finished run that refuses to be branched (`:744`); a steer
  submitted between an abort's listing of the queue and its cancellation outlives the abort
  (`:1092`); an abort that lands before the attempt's `try` leaves its stream with no end
  (`:738`); the restore points of a stream whose worker dies before it ends are lost to the
  record, and the page still offers them (`:811`).
* A frame read after the page has finished an aborted run turns it into an error
  (`app.js:1165`); after a settlement whose recovery fails a reload offers the settlement
  again (`app.js:1192`); the aborted outcome of a parked run exists in the page only, and a
  reload parks the run again (`app.js:1353`); equal calls of a batch share one rank, so
  three identical sends pass `rate_cap` (`console/units.py:105`), which is why `BudgetHolds`
  is about batches without equal requests.

### Fairness

Safety runs use `Spec`, with none. `SessionStep!FairSpec`: the event loop resumes a task
that can go on (weak fairness of each attempt's `Step` and of a settlement past its
question), and a lease nobody renews does lapse. Beginning, cancelling, dying and
retaking are never forced. `Settlement!FairSpec`: the attempt and the handlers go on; and
the person does, which is an assumption about people and not about the code: a run that
stands still is recovered and a question that keeps being asked is answered (strong
fairness, since deaths and other requests may withdraw the occasion). `Decided` needs it;
`DoubtEnds` is violated under it. `Console!FairSpec`: every task that can go on does, the
engine's part included, because a model call times out after 60 seconds and
`before_model` stops the eighth turn; posting, leaving, lapsing and restarting are not
forced. `Page!FairSpec`: the page reads what has arrived and the server serves what it
took, for the same reasons; no click is.

`StreamingEnds` makes one exception, a page reloaded while a stream was read: the kept
frames end in mid-stream, the restored run is streaming, and no stream is left to end
it. Only an abort helps. No document says otherwise, so it is listed here and not as a
finding.

## 4. The proofs

Every safety property of a passing run is a theorem here, for every value of the
constants that its hypothesis allows; liveness is not. `FoldProofs` has no theorem about
the console: it holds what several modules need of naturals, of places in a sequence and
of `FoldSeq` and `FoldLeft`. What a fold returns for every input would be an induction over
data; what the proofs need is less. The equation the community modules define a fold by
has a solution, so a fold can be *unrolled* into the sequence of values it runs through, and a
statement about all of those is an argument about the least place at which it fails.

`SessionStepProofs`, for every finite or infinite set of attempts, settlements, keys and
amounts:

* `TypeCorrect`.
* `StartsAreUnique`. `OneStartPerEpoch` is not inductive: nothing in it says why two
  attempts that both read "ready" cannot both start. `Fenced` adds that tokens are
  unique and bounded by the last one given, that an attempt inside has a token, and
  `ReadIsFresh`: if the one that is about to start still holds the last token, what
  it read is still so, because every write since would have needed a newer token.
* `ChargesAreUnique`, under `OneSettler` (at most one settlement). `Honest` adds that who is in the body or was
  accepted belongs to the current epoch unless a settlement that saw it says so, and
  that the provider's answer a settlement carries is still true when it is written.
  With two settlements the second one's need not be: the hypothesis is necessary, and
  `settlement_overlap` is the same failure seen from `settle`.
* `ReportsAreTrue`, `RecordsAreFinal`, under the same hypothesis, from `Truthful`: a
  recorded amount was accepted by the provider.
* `StepKeepsPromise`, under the same hypothesis: `SessionStep` implements `ChargeOnce`
  under the mapping `Once` (initial states to initial states, every step to a step or a
  stutter).

`StartsAreUnique` and `RecordsAreFinal` state properties no run checks.

`SettlementProofs`, for any numbers of workers, settlements, charges, overlaps and cuts:

* `TypeCorrect`, with `Hosted` (a worker that runs the attempt has the session cached) and
  `Bound` (a settlement past its first await has both coordinates).
* `ChargesAreUnique`, `TellsAreTrue`: as long as no requests overlap. Neither is inductive,
  because an answer is written to whatever record the session's copy of the key names. The
  invariant ties the places together: one call at most is in doubt and those before it have
  results (`OneDoubt`); a charge whose record is absent was never accepted (`Unpaid`); one
  key at most is remembered, in however many copies, and a remembered key whose call has a
  result has its charge recorded (`OneKey`), so that a stale key may at worst be confirmed again,
  and never forgotten into a second payment; the call in doubt is the one the page shows
  (`Shown`), and the person's "not charged" stays true until it is used (`Evidence`). For
  the truth of what is told, every record of a charge has an accepted request (`Accepted`,
  `Backed`, `Confirmed`).
* `NotesAreKept`, under `OneWorker`. The key can leave the record at two places, the write
  at the end of an attempt and that of a settlement. `Copies` says of the first that it
  carries what the worker has cached and that this names the same key; of the second that
  between `Resolve` and `SaveFlags` the call of the key is not in doubt, which takes
  `OneDoubt`: the settlement may have resolved another call than the one the stale key
  names. The image runs one worker (`Dockerfile:25-28`), and the hypothesis is needed: with a
  second one TLC finds the step in which its older copy is written over the key.
* `SettlementKeepsPromise`, under `OneRequest` (`MaxOverlaps = 0`), on any number of workers:
  `Settlement` implements `ChargeOnce`, as `SessionStep` does, under the mapping `Once`. The
  record is the state of a key, the attempt that pays has the right to the next request, and
  requests are numbered as they are accepted, so that a second payment would show. The steps
  to argue about are `FinishCharge` and `WriteEffect`, which must find the key claimed or recorded:
  a stale key is recorded already (`OtherKey`), and one that is not was never accepted. No run
  states it; with overlaps it is false, by the trace of `settlement_overlap`.

`RateLimitProofs`, for any callers, limit, window and table size: `TypeCorrect`;
`WindowsHold` (no window has more than `Limit`; no run states it); `WaitingIsEnough`; `TableBounded`; and
`AnswersAsPromised`, the refinement of `Budget`. The invariant says that a deque is the end
of the caller's log, and that what was dropped from it lies out of the window.

`ConsoleProofs`, for any numbers of workers, requests and restarts:

* `TypeCorrect`, with `Served`: a request past its lookup holds a session object and
  its worker's cache is not empty, so `Trip` and `Submit` read a dict that exists.
* `TerminalIsTrue`. `TerminalMeansFinished` is not inductive: a flag travels from the
  engine's outcome through an object, a snapshot on its way to the record, the record,
  another worker's read of it and an object filled from that. `Settled` says it of
  every place on the way, and that an attempt past its outcome has a finished branch.
* `FinishedIsKept`, `RecordIsFinal`, `AbortsReach`, under `OneAtATime`: one worker that does
  not restart, and no request posted before the stream of the last has ended. Then there is
  one session object (`OneSession`) and one attempt (`OneDrive`); the object names that
  attempt's task as long as its stream is open (`Reachable`), which is what an abort cancels; the
  record, the object and a write on its way agree on the flag in that order (`Flagged`); and
  where nobody cancelled, an outcome is in the record or on its way to it (`Kept`).
  The hypothesis is needed: `console_overlap` violates `AbortCancels`, and TLC finds the other
  two violated with an overlap, with a second worker and with a restart alike, because a stale
  dict is written back whole.

`RoundProofs`, for every batch of calls, every selection of units and every bound:

* `GatesAreKept`. `GatesHold` is about bodies that ran; `Let` says of the calls that may
  run that the units in force do not deny them and that, if those want it, a person has
  approved, and that no call is let through before its command is with the engine: so
  neither other units nor another answer can slip in between the gate and the body. The
  gates themselves stay opaque; only `revalidate` is opened.
* `RestoresAreTrue`. `ForkPointsExist` speaks of what is registered; `Stored` adds the
  frame in hand (past its first write its checkpoint is there) and the gates the
  projector holds (each was written, by this worker or an earlier one); `Framed` that
  every frame to put fits its call; `Fresh` why: a call that has yet to have its turn is
  not among the results. Cancellation and death only drop frames.
* `TypeCorrect`, with `Done`: a body that ran has its record.
* `BudgetIsKept`. `rate_cap` decides by the rank of a call among the irreversible ones of the
  batch; three unedited calls that were all let have three ranks, and one of them is past the
  cap, and a call that the cap denies alone has two before it (`RankCounts`). Units may change
  between attempts, so this rests on `GatesInv` for whichever were in force at each body and
  each denial. Batches with equal requests and edited calls are left out of the property,
  because there the code does not keep to the budget (both are listed after the findings).
* `OffersAreTaken`, `GatesAreSettled`. `RestoreInv` follows a restore point from the frame
  that is put, through `forkable`, to the record: streams and frames are numbered in the order
  they were put (`Numbered`, `Clocked`), what a projector has rebuilt is what was kept before
  it (`Rebuilt`), what a closed stream showed is saved (`Offers`), a result finds the gates
  of its call that came before it (`Settled`). `GatesSettle` excepts a projector that was cut off
  in reading them (`unread`), as the run does.
* `AnswersAreShown`. `EveryAnswerIsShown` speaks of a round that is over; `Answered` says of
  every earlier state where an answer is: shown, in the queue of frames, or among the
  results that the next attempt starts from.

`ForksProofs`, for every batch, selection of units and bound, over any forks of forks and
with any number of them active at once:

* `LinesRunOnce`. `LineRunsOnce` relates two bodies; `Records` says why a second never runs:
  the records of a version are those of the bodies along its line, copied at the fork or its
  own, and `Lines` that a version's ancestors are finished and run nothing any more.
* `RequestsArePaidOnce`. `Payments` adds that every key is of the one intent all versions
  share.
* `VersionsKeepTheirGates`. `Gated` says of a call between its gate and its journal that
  the units in force or a person let it, or that it is a rejournaled copy; `Surfaced` keeps
  that for what has entered.

The three use nothing of restore points but that they belong to versions, so they hold
whatever history a fork starts with. The others are about what is made of the results.

* `MasksAreKept`, `OriginalsAreSafe`. `Originals`: the record a version has or copies is what
  the body gave, and what surfaced is what the units of that stream made of it. The rest is
  about `Journal`, whose fold is unrolled: a unit that masks leaves nothing for the ones
  behind it to bring back, and without a unit that rewrites the original comes out.
* `OneAnswerIsKept`, `ActsAreKept`, `MarksAreKept`, from `StreamsAgree`. The invariant
  `Streams` ties the rows shown of each call to where the call stands (`Told`), to what its
  hooks remember (`Kept`) and to what they have not done yet (`Fresh`), stage by stage;
  lemmas say which rows an emission adds for its call and that it adds none for another.
* `HistoriesAreWhole`. A history is whole when each call stands in it once, each return behind
  its call, and its open calls form the last response. `Histories` says what form histories have:
  that of a version is complete, or ends with one response whose calls are open, in the
  order of the batch; that of a restore point is cut from such a history at a gate or a
  result of the last response. `resume_history` then gives back the former from the
  latter, and a stamp cuts the latter from the former (`CheckpointRestores`).

`PageProofs`, for any streams, clicks, reloads and broken connections:

* `TypeCorrect`, with no hypothesis: no run, frame or remembered branch names a conversation
  that was not begun.
* `EndsAreClean`, with no hypothesis: whatever is clicked, in whatever order.
  `OnlyOvertakenEndsFail` is about a step; `Queued` says why it holds: an end stands behind a
  closing frame in its queue, and a stream whose closing frame is read leaves a run that does
  not stream, or another stream is asked for since (`Excused`). Every step that stops asking
  for that other stream fails the run, or finds it at rest, which takes that a page that is not
  idle has a run (`Sound`), through every replay.
* `OffersAreGood`, for a patient page on which nobody aborts or settles (`Gentle`; steers are
  allowed). `Tidy`: one stream at most is read, and a settlement that is under way is alone.
  `Whole` follows the one stream through its stages on the server and on the page
  at once (`Waiting`, `Begun`, `Closed`, `Broken`), and says what a page at rest shows: an
  empty draft, or a branch of which the kept frames tell what is so (`Shown`). The answer to an
  abort finishes a run in the page of which no outcome was kept, and after a settlement whose
  recovery failed a reload offers it again: with either, TLC finds `OffersHold` violated.
* `RestoreIsFaithful`, for a patient page with no click beside the streams, which is the
  instance `page_patient` checks. A steer that comes too late already turns a run that has
  finished into an error, which no kept frame tells of and no reload rebuilds.

The assumptions are the named `ASSUME`s of the modules: kinds of processes are
disjoint, the null values are not among them, `Key` and `Amount` are not empty, a limit and
a second are not 0, the switches have their values.

The proofs about folds also use that a batch is a sequence of calls (`BatchesAreCalls`) and a
selection a sequence of units (`SelectionsAreLists`). Hypotheses that are not assumptions of
a module stand in the theorem. `OneSettler`, `OneWorker`, `OneRequest`, `OneAtATime` and
`Patient` say how the console is deployed, or driven by one person who waits; `Gentle` and
`Clicks = {}` leave out clicks that a person may make. The page does not enforce `Patient`: it
enables its buttons on the closing frame, and what a click before the end may do to it is
what `EndsAreClean` bounds. Each hypothesis is met by the instance of the run
that checks the property, where one does, and for each a counterexample without it is named
above.

Only model-checked: liveness (`LeaseComesFree`, `StreamsClose`, `StreamingEnds`, `Decided`),
which is out of the prover's reach. The three findings are TLC's too: a counterexample on a small
instance needs no proof.

## 5. Not modelled, and the plan

Done: `ChargeOnce`, `SessionStep`, `Settlement`, `Budget`, `RateLimit`, `Console`,
`RunState`, `Page`, `Policies`, `Round`, `Rewrites`, `Frames`, `Forks`, and a theorem for
each safety property that a passing run checks.

Left, in order:

1. `Settlement` on two workers: what it keeps of charges is proved for any number of them,
   and `NotedIsKept` is false there. Left is `Decided`: whether a charge whose key one worker
   wrote over is still decided in the end.
2. `input_mask`, `log_gate` and the rounds after the first: a batch whose inputs a unit
   rewrites before the gate sees them, and a turn that ends at a gate.
3. Deaths and cancellations of a fork's stream, by giving `Forks` the steps of `Round`.
4. Weaker hypotheses: what `Gentle` and `OneAtATime` leave out is wrong in part only. Which
   offers stay good after an abort, and which flags after a restart, can be stated and proved.
5. `Ndjson`: the reader's frames do not depend on how the bytes are cut. Version rows of the
   page: `deriveRunVersions`, `deriveVersionPhase`. Both are pure functions of their input
   and have unit tests; they come after what has state.

Left out for good: scenario and dormancy tables, the provider client, translation, markup
and rendering, the acceptance script. They keep no state and decide nothing the properties
are about. `semora` and its store are external; what is assumed of them stands with each
module above.
