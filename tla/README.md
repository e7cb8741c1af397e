# Verification of polymarket-recorder

TLA+ models of the recorder in `src/`, checked with TLC on small instances and
proved with TLAPS for every instance: all invariants and action properties that
a passing run checks are theorems too; liveness is model-checked only. Every
definition is translated from the Python source; `PROJECT.json` maps each one to
its lines.

## 1. The system

| component | state | operations | talks to |
|---|---|---|---|
| `main.py` Recorder | the shards, `_current`, `_stop`, its tasks | start-up, universe loop, stop, shutdown | calls `add`/`remove` of shards, `select()`, `stop()` of all |
| `universe.py` UniverseManager | none | `select`, `_refine`, `diff_universe` | Gamma and CLOB clients |
| `gamma.py`, `clob.py` | none | `top_markets`, `book` | REST, through the rate limiter |
| `ratelimit.py` AsyncRateLimiter | `_last`, a fair lock | `acquire` | shared by all REST calls of the process |
| `capture.py` CaptureShard | assets, pending deltas, `_ws`, `_last_msg` | `run`, `add`, `remove`, `stop`; ping, receive and watchdog loops | the WebSocket, `book`, `record` |
| `archiver.py` RawArchiver | queue, open spool file | `record`, `run`, rotation, `stop` | `spool_dir`, `pending_dir` |
| `flusher.py` S3Flusher | none but `_stop`; the files and the bucket | `run`, `_flush_once` in a worker thread | `pending_dir`, S3 |
| `backfill.py` | one job: its market, offset, trades | `fetch_trades`, `_write_frames`, one `_flush_once` | Data API, `pending_dir`, S3 |
| `config.py` | none | `load` | - |
| `tools/plot_market.py` | none | reads S3 into a chart | S3 |
| `deploy/` | - | systemd unit (`Restart=always`), AWS scripts | - |

A frame goes from a shard's receive loop through `record()` into the bounded
queue, from there into the open spool file, at a rotation into `pending_dir`,
and from there, compressed, to S3; then its file is deleted. Everything but the
flusher's worker thread and the backfill process runs in one asyncio loop, so
code between two awaits that suspend is atomic.

What is hard here: two flushers on one directory, kills and lost answers
between the steps of a pass, the order in which a shutdown stops the writer and
the flusher, a shard whose connection is replaced while an update of its assets
is on the way, tasks that outlive the connection they belong to, shards and a
refinement that wait for each other in one rate limiter, a list that grows under
a job that pages through it, a reader that finds frames by three different
times. `PROJECT.json` lists these hazards at their lines, each with the
properties that cover it or the reason why none does.

What makes each component correct:

- Flusher: a file is deleted only when all of it is in S3; it gets there.
- Archiver: frames keep their order, in and across files; an open file is
  rotated without traffic; only a failure or the end of the process loses one.
- Shard: the server sends what the shard is to record; each asset was seeded;
  a dead connection is replaced, and a live one is left alone.
- Limiter: the budget of REST calls, and a fair line.
- Orchestrator: each selected asset on exactly one shard, no gap for one that
  stays selected.
- Universe: tighter books first, untradeable markets last.
- Backfill: no trade missed without a warning, no written trade lost but in a
  file that two had open at once.
- Chart: no frame of the window that S3 holds is left out, and the last row of a
  chart up to now is the newest that S3 holds.

## 2. Modules

| module | of | instances and proofs |
|---|---|---|
| `Flusher` | `flusher.py` | `MCFlusher`; `FlusherProofs` |
| `Archiver` | `archiver.py` | through `Pipeline` and `Chart` |
| `FrameLog` | abstract: what the file side promises about frames | through `Pipeline` |
| `Pipeline` | `Archiver` + `Flusher` + `main.py`'s shutdown, kills, restarts | `MCPipeline`; `PipelineProofs` |
| `Chart` | `Pipeline` with a clock, and `tools/plot_market.py` as its reader | `MCChart`; `ChartProofs` |
| `CaptureShard` | `capture.py` | `MCCaptureShard`; `CaptureShardProofs` |
| `RateLimiter` | `ratelimit.py` | through `Seeding`; `SeedingProofs` |
| `Seeding` | `RateLimiter` + its callers in `capture.py` and `universe.py` | `MCSeeding`; `SeedingProofs` |
| `Recorder` | `main.py`'s start-up and universe loop | `MCRecorder`; `RecorderProofs` |
| `Universe` | `universe.py`, with `gamma.py` and `clob.py` | `MCUniverse`; `UniverseProofs` |
| `Backfill` | `backfill.py`, with `Flusher` | `MCBackfill`; `BackfillProofs` |

Definitions marked "Variant:" are wrong versions of the definition that follows
them. No specification uses them; each one is what a plausible bug would make
of that definition, and breaks the property that `PROJECT.json` lists with it.

### Flusher

`pending`, `gz` and `s3` are what is at each path and key; `made` remembers what
was put in `pending_dir`. The worker thread's local state is `pass[p]`, the
coroutine's is `task[p]`; the two are apart because a cancelled coroutine leaves
its thread running. Each file-system or S3 call of `_flush_once` is a step, and
`Raise` may leave the pass at any of them that can fail, also with the object in
S3 and the answer lost. A `.gz` under construction is `<<>>`, which is what a
second opener or a kill makes of it. `linked` says whether the descriptor that a
copy writes still has its name, so that a removed `.gz` is not written back.

`Recorders` run the loop, `Jobs` call `_flush_once` once, as the backfill does;
`Configured` are those whose bucket is set, the others return at once.

### Archiver, FrameLog, Pipeline

A frame is the number of its `record()` call, a file is named after its first
frame. The writer's code from one `queue.get()` to the next has no await, so it
is one action: append, rotate if due, test `_stop`, and promote in the finally
clause. `DiskFault` is any exception that ends the task, from the first
`_open_new()` (`OpenFault`) or later (`WriteFault`): nothing restarts it.

`Pipeline` lets both work in one process. The archiver's task is created before
the shards', so its first step comes before any `record()` (`Capture`). `Shutdown` is the signal with the
`stop()` calls, `CancelTasks` the cancellation half a second later (`Settled`:
the loop has nothing that is ready to run), `Exit` waits for the worker thread,
as the interpreter does, and `Kill` may come at any time. What a killed process
had in its open file is lost: the next process never looks in `spool_dir`.

`FrameLog` promises: frames leave memory oldest first, as an immutable batch or
lost; a batch leaves the local disk only after S3 has it, and S3 never loses
one. `ImplementsFrameLog` says that `Pipeline` implements that, kills, faults
and shutdowns included, with `memory` = the open file and the queue behind it,
`log` = `made`, `archived` = the batches whose frames are all in S3.

### Chart

A reader changes nothing, so `tools/plot_market.py` is a chain of operators over
the bucket, and the properties speak of every window that could be charted in a
state: which tokens and labels (`gamma_markets`, `YesToken`, `watch`), which
keys (`ListKeys`), which lines and items of them (`LinesRead`, `EventsRead`),
their order (`ExtractSeries`), and the rows with their carried values (`Rows`).
What is read is a set of positions, a key with the number of a line and of an
item in it. `events.sort()` compares tuples and is stable, so the place of an
event is the number of events whose `SortKey` is before its own, the key being
the tuple followed by the position. `Rank` is some order of the labels: the
order of strings. A market without a Yes token, or an event without a label,
is left out as in the code. `LastRowIsNewest` speaks of the markets that a chart
can show apart from the others (`ToldApart`): two whose questions end alike
share one line of the chart (see the departures below).

The bucket is filled by `Pipeline` with a clock. `stamp` is the `recv_ts` of a
frame, `opened` and `named` the time at which a file was opened, which is its
name, and `day` the date of an upload, which is in the key. A file is opened
when the writer starts and when one is rotated (`Reopens`), and may be empty until
shortly before its end, which is what the slack of the reader is for; these three times
are what the reader goes by, and they are taken at different moments. Steps of
the recorder take no time. `Tick` waits for a rotation that is due, because
`run()` wakes up once a second (`wait_for(..., 1.0)`) to look; it waits for
nothing else, so frames may lie in the queue and files in `pending_dir` for any
time. `RotateSlack >= RotateInterval` is an assumption: the tool's
`ROTATE_SLACK_S` is a constant of the source, 600, `rotate_interval_s` is
configurable, by default 300, and nothing relates the two (see the departures
below). `MaxPrice` is the price 1.0 in ticks.

### CaptureShard

`ws` is what has become of the connection that `self._ws` names, `subs` what the
server has of it, `run` where `run()` is. `update` holds the local variables of
the one `add()` or `remove()` that may be on its way, with `current` for whether
its captured `ws` is still the shard's. Each REST request of a seeding is a step
of its own. `orphans` counts the watchdogs that outlived their connection:
`asyncio.gather` does not cancel the other loops when one raises; they read the
`_last_msg` of whatever connection is current (`WorkingConnectionKept`). The
lock of the shard never makes anyone wait, because only the universe loop calls.
`EarlyUpdates` lets `add()` and `remove()` come before the first connection, in
which case the code departs from what it promises (`shard_crossed`); `shard`
shows what holds without. `spoilt` marks a connection on which an update gave up
because `book()` raised: until the next connection nothing is promised of it.
`asked` is what a seeding can promise, a request for each book; the answer may
be an HTTP error.

### RateLimiter, Seeding

`acquire()` holds an asyncio lock, which is first-in first-out, while it sleeps.
A caller is in `line`, is `holder`, or is elsewhere; it may be cancelled in both
places. `asyncio.sleep` may oversleep: `Wake` has no upper bound.

`Seeding` says who calls: shards that seed a connection asset by asset, one
request after the other, and the candidates of a refinement, which ask all at
once. Until a seeding ends, nobody reads the connection or sends a PING on it.
How long that takes is a bound on time, and holds only of surroundings that are
bounded themselves: `MaxAnswer` is how long a request may take (httpx has a
timeout), `MaxLag` how much a sleep may be late, and `Time` does not pass while
somebody is ready to run. `SilentAtMost` depends on all three; `Budget` and
`PassedOnce` on none.

### Recorder, Universe

`Recorder` draws a hash for each process (Python's string hash is randomised),
fixes the number of shards at the start, and applies later selections as calls
of `add` and `remove`, each an action because each may suspend.

`Universe` has `select()` as an operator on a listing. A market is as Gamma sends
it: token ids in one of two fields, as a list, as a string that encodes one, or
as something else; an end date that is a time, missing, garbled or without a
time zone; and the answer that a request for its book would get, with levels in
any order and malformed ones among them, an HTTP error, or no JSON. One market
can make the whole of `select()` raise (`SelectRaises`); the refresh then leaves
everything as it was. A score is kept as the fraction that is its fourth power,
in ticks of the spread's floor, so that only integers occur; `Unbooked` stands
for the 1e40 by which the fallback score is scaled down. `UnbookedIsFar` says
that no book and no volume outweighs it: prices end at 1.0 (`MaxPrice`, 10^4
ticks), so it takes a volume of 10^12. Python's sorts and filters of a list are
one operator, `Arrange`: the place of an element is the number of those that
precede it, by the order of the sort or, where that leaves it open, by their
places before. Markets without any volume score 0 whatever their books, and stay
as Gamma sent them.

### Backfill

The API answers with the trades behind the newest `offset` ones; `NewTrade`
shifts them between two pages. `total` is their number for the market that is
being fetched; of the others it is open until their turn comes. The file is
written in `pending_dir` buffer by buffer. A write that fails, or a trade that is
no object, ends the job and leaves what there is of the file under its final name
(`WriteRaises`). `Flusher` uploads the files: the job's after its last market, a
live recorder's at any time, and both may have a bucket. `clashed` remembers the
files that a pass opened while the job wrote them, or while the other pass was
at them; nothing in the code prevents that, and such a file may be lost.

## 3. Runs

Runs that pass:

| run | bounds | what it shows |
|---|---|---|
| `flusher_one` | 2 files, 2 days, 1 kill, a live flusher and an unconfigured one | deletion only after a complete upload; no truncated object; no orphan `.gz`; every file is stored in the end |
| `pipeline` | 2 frames, queue of 1, rotation at 2, 2 days, 1 signal, 1 kill, 1 fault | `FrameLog` is implemented; the archive keeps the order of the frames; only a failure or the end of the process loses a frame from memory; each queued frame is promoted without further traffic, each promoted file reaches S3 |
| `chart` | 3 frames, queue of 2, rotation at 2 frames or 2 units, slack 2, days of 3, time to 4 | a chart up to now misses no frame in S3 and ends with the newest quotes |
| `shard` | 2 assets, 4 calls, 3 faults | subscriptions are what is wanted, captured assets were seeded, a dead connection is replaced, a live one is not closed |
| `seeding` | 2 shards of 2 assets, 1 candidate, interval 1, answers within 1, clock to 10 | the budget; no caller is served twice while another waits; a seeding ends in bounded time |
| `recorder` | 3 assets, at most 2 per shard, every hash | no drift, no asset on two shards, no gap in a refresh, each selection applied |
| `universe` | 14 markets, up to 3 listed, 2 chosen | the ranking |
| `backfill` | 2 markets, 4 trades, pages of 2, cap 3, a recorder that uploads too | pages never skip a trade; each file that the job closed is kept, unless it clashed; the job ends |

Two files let one file's failure stand in the way of another; one kill and one
fault put a failure at every step, and a second one meets a state that the first
has already led to. Four calls and three faults let an update begin on one
connection and its undoing on the next, and leave two orphan watchdogs beside a
third connection. In `pipeline`, one frame in the queue and one in the file are
what a shutdown must tell apart; `chart` has three frames, so that a file is
rotated by size, the next one by age, and both uploads may repeat on either
side of midnight (it keeps uploaded files, so that keys come twice); the slack is
as long as the rotation, and a shorter one makes the run fail. Two days
put midnight between any two steps. In `seeding` the clock runs until the bound
of `SilentAtMost`, 8 units, could be passed; three callers let one sleep, one
wait and one come late. Three listed markets with two chosen is the smallest case
in which one of them is left out for another. `MaxOffset` 3
with pages of 2 is a cap that is not a multiple of the page.

Runs that end in a counterexample, each for a sentence that the code does not
keep (see `findings`):

| run | sentence | what happens |
|---|---|---|
| `flusher_shared` | "deletes the local copy on success" | the second flusher truncates the `.gz` the first uploads |
| `pipeline_queue_lost` | "flushes everything before exit" | frames in the queue are lost |
| `shard_crossed` | "update the shard's asset set and send subscription-update messages" | deltas from before the first connection are replayed crosswise |
| `chart_window` | "auto-discovers exactly the S3 files overlapping your window" | a window that ended before midnight misses a file that was uploaded after it |

Other departures met while modelling, which no run shows now:

- `main.py:12`, "flushes everything before exit": the flusher's final drain may
  list `pending_dir` before the writer promotes its last file, or is skipped when
  the flusher is cancelled inside a pass. The next start uploads the file.
- `capture.py:163`, "Connection died mid-update": the clause also catches what
  `book()` raises. The connection lives on, the other new assets are not seeded,
  the removed ones stay subscribed.
- `README.md:36`, "takes a REST `/book` snapshot per asset": an HTTP error leaves
  one out, without a retry or a record.
- `capture.py:81`, "reset on clean exit": a connection that the server closes
  leaves through the except clause, so the backoff is never reset by one.
- `config.py:44`, "Max asset_ids per WebSocket connection": assets are spread by
  hash, so a shard may exceed it at once.
- `universe.py:106`, "rank under any booked market": a booked one without volume
  scores zero and ranks lower still.
- `config.py:50`, "no messages for this long -> reconnect": a watchdog that its
  connection left behind announces a `stale_reconnect`, with `_last_msg` of a
  later connection, and no reconnect follows.
- `config.py:49`, "docs: PING every 10s or server drops you": the first PING
  waits for the seeding, which takes a shard of 50 assets at least
  50 `rest_min_interval_s`, and more behind other shards (`SilentAtMost`).
- `archiver.py:53` stamps a frame when it is read: what the server sends during
  a seeding is stamped when that ends.
- `universe.py:35`: an end date without a time zone makes the subtraction raise
  `TypeError`, and `select()` with it, at each refresh that lists the market.
- `plot_market.py` allows 600 s (`ROTATE_SLACK_S`) between a file's name and its
  frames; `rotate_interval_s` may be set higher, and frames that waited in the queue
  land in a file that is named after the end of a past window.
- `plot_market.py` sorts its tuples whole, so of two items of one `recv_ts` the
  larger value is carried on, not the later item; two markets whose questions
  end alike share a label, and their lines become one (`src/README.md`: one Yes
  line each); a WebSocket event that is not in a list, other than
  `price_change`, is ignored.
- `backfill.py:103` opens its file in `pending_dir` under its final name: a
  configured recorder on the same directory may upload and delete it half-written,
  and an error of the write leaves it there as if it were complete, to be uploaded
  by whoever passes next.
- `archiver.py:88`: what is in `spool_dir` when the process is killed, or when the
  writer's finally clause fails, is never looked at again.

`CHECK_DEADLOCK FALSE` stands only in the backfill run: that job ends.

## 4. Fairness

Weak fairness of the steps of a task or thread: the event loop and the OS run
what is ready. Weak fairness of timers (`Age`, `FallQuiet`): clocks
advance. `Start`, `Exit` and `CancelTasks` are weakly fair because systemd
restarts the service and the shutdown waits for nothing else. Strong fairness of
each kind of call of a pass (listing, opening, copying, uploading, removing): a
disk or S3 error may occur any number of times, but no kind of call fails at
every attempt, which is what a retry every `flush_interval_s` is for. Faults, kills, signals and errors are never fair. In
`Backfill`, a request is answered in one way or another: the HTTP client has a
timeout. In `Recorder`, `LoopStep` is fair as a whole, so that a selection may
fail for ever: `SelectionApplied` speaks only of one that succeeded. `Chart` and
`Seeding` have a clock instead of fairness, and safety properties only.

## 5. Proofs

`FlusherProofs` proves `FTypeOK`, `DeletedOnlyWhenStored`, `ObjectsComplete` and
`NoOrphanGz` of `FSpec`, for every set of files, number of days and crashes,
under `OneFlusher`: at most one flusher has its bucket configured. Without it
they are false (`flusher_shared`). The invariant `FInv` adds to them what the
passing flusher knows at each step: in "copying" its data are the file's and the
`.gz` is its own, in "upload" and "rmgz" the `.gz` is complete, from "rmgz" on
the file is stored, and the files of its listing that are still to come are in
`pending_dir`. `DeletedOnlyWhenStored` alone is not inductive: whether
`RemoveSrc` may delete depends on what `Upload` has read two steps before. Each
step has a lemma that does not mention `FSpec`, so that `PipelineProofs` uses
them through `INSTANCE`, where the flusher's files come and go by other hands.

`PipelineProofs` proves `PTypeOK`, `LogOrder`, the action property
`LostOnlyInFailure` and the refinement `ImplementsFrameLog` of
`PSpec`. `PInv` is the flusher's invariant,
the order of the log, and what the two need of each other: every frame that is
anywhere has arrived (`Known`), an idle worker thread has no local state, and a
killed process has no writer. For the order, what a step does to
memory is one of two things, whatever its name: a frame arrives at the end
(`Arrives`), or a prefix leaves, to a file or to nowhere (`Drops`). The same
two cases give the refinement: `Arrives` is `FrameLog`'s `Arrive`, `Drops` is
`Leave`, an upload that completes is `Store`, the removal of a source is
`Release`, which the flusher's invariant permits, and all else stutters.
`FrameLog` lets memory lose frames at any time; `LostOnlyInFailure` says when the
pipeline may: a prefix leaves whole, to a file that then holds it (`DropsWhole`),
unless a write fails, and rotation, signal and cancellation are of that kind.

`CaptureShardProofs` proves `STypeOK`, `CapturedWasSeeded` and
`WorkingConnectionKept` of `SSpec`, and `SubscribedIsWanted` when `EarlyUpdates`
is false: otherwise it does not hold (`shard_crossed`). `SInv` says what an
update in each of its places may contain, that the server's subscriptions are
`assets` corrected by what the update has still to send, that each subscribed asset was asked for or is on one
of the two lists of those to ask for, and, for the watchdogs, that `quiet` is
false as long as a captured connection works.

`SeedingProofs` proves `RTypeOK` and `Budget` of `RSpec`. The invariant relates
the last grant to `_last` and the sleeper's `until` to both; it also has that
consecutive grants are an interval apart, from which `Budget` follows for any
two grants by induction on their distance. `SSpec` implements `RSpec`
(`CallersUseLimiter`), so that `Budget` holds of all callers together.
`PassedOnce` holds for any finite set of callers. Its invariant is an order
(`InOrder`): those that were served while a caller waits, the sleeper, and those
before it in the line are all different callers, because whoever was served, or
gave up, and comes back queues behind. It follows that they are fewer than all
callers (`Passes`), which is what the bound on time rests on.

`SilentAtMost` follows from an account of time (`TInv`), for any number of
shards, assets and candidates and any `MaxLag` and `MaxAnswer`. While somebody
waits, the last grant is at most a slot, `MinInterval + MaxLag`, ago (`Prompt`).
Each request that a shard has behind it has cost it at most a round, a slot per
caller and an answer (`DoneBy`), and within a round it is, when it is ready, no
later than the rounds before; while it waits, no later than these and a slot for
each grant that has passed it, of which there are fewer than callers; while its request is on the way, no later than the rounds before and
all slots (`Paced`). The bound alone is not inductive: it says nothing of how
much of it a shard has used when its request begins.

`UniverseProofs` proves `UTypeOK`, `TighterFirst` and `UntradeableLast` of
`USpec`, for any markets, books, limits and horizon. The lemma that all three
rest on is `Arranged`: for a strict weak order, the places that `Arrange` counts
are 1 to n, each taken once, no element is lost, and of two the one that is to
come first does. It is applied to the levels of a book, where it gives that the
first level is the best of those that can be read (`BestQuote`), to the
candidates, and to their scores. That what `_refine` cuts off is not above what
it keeps (`RefineKeepsBest`) needs that fractions compare transitively
(`AboveOrder`), and then that of equal volumes and depths the smaller spread has
the larger score.

`ChartProofs` proves `RecentWindowComplete` and `LastRowIsNewest` of
`CSpec`, and `LogOrder` again. The recorder with its clock implements `PSpec` (`ClockRefines`), so that
`PInv` holds of it; `CInv` adds what relates the three times by which a reader
goes. A frame has one stamp, of the past (`Stamped`); the recorder's day is the
date of its clock (`Dated`); the open file is not older than `RotateInterval`
(`Young`), hence no frame in a file is much younger than its name (`Named`); no
key is of a day before the date of a frame in its object, or of one that is still
to come (`Filed`). `RecentWindowComplete` alone is not inductive: it speaks of
objects, and whether an upload will put a frame under a day and a name by which
it is found was decided when the file was opened. Of the sorted events it is then
proved that each has a key of its own, that keys are totally ordered
(`BeforeOrder`), and that the places counted from them are 1 to n (`PlaceOnto`),
so that the last row of a label is its newest event.

`RecorderProofs` proves `MTypeOK`, `RecordedIsCurrent`, `OneShardEach` and
`KeptWithoutGap` for every set of tokens, hash and cap. The invariant says where
the assets of a refresh are while it is under way: in "adding", `Recorded` is
the current set with those of the target that are no longer to be added; in
"removing", it is the target with what is still to be removed; and each asset is
on the shard that its hash names, which is why a removal finds it.

`BackfillProofs` proves `BTypeOK`, `FetchedWithoutHole` and `WrittenIsKept` for
any page size, cap and numbers of trades, and any number of flushers on the
job's `pending_dir`, each with a bucket or without. While the job pages, what it
has is an unbroken stretch, and the next page begins inside it or right below
it, since a new trade moves the page up and leaves the stretch where it is
(`Stretch`). For the files, `FInv` of one uploading flusher is of no use where there
are several; `Kept` says of a single file, as long as it has not clashed, that one
pass at most has it open, and none while the job writes it (`OneHand`), hence that
this pass has gone through its steps on a whole file and its own `.gz` (`Sound`).
That files are made in the order of the markets (`MadeInOrder`) is why a new one
overwrites nothing.

Assumptions of all proofs are the named ASSUMEs of the modules, on types of
constants, and `OneFlusher` and `~ EarlyUpdates` where said.

Two of these deserve a word. `ChartAssumption` takes the slack of the reader to
be no shorter than the rotation of the recorder, and prices and markets of the
types that the tool parses. `UnbookedIsFar` is arithmetic about the constants of
`_refine`; without it a market that nobody can trade may rank above a booked one.

Only model-checked: liveness (`EventuallyStored`, `FramesShipped`,
`PromotedIsStored`, `Reconnects`, `SelectionApplied`, `JobEnds`), because
fairness and `ENABLED` are beyond the prover. The four runs that end in a
counterexample show what does not hold, so nothing is proved of their
properties.

## 6. Not modelled

- `config.py`: no state, its values are the CONSTANTS. A section that is present
  but empty in the YAML file is `None` there, and `load` raises `TypeError`.
- `deploy/`: scripts and a unit file; `Restart=always` is `Start` in `Pipeline`
  and `Restart` in `Flusher` and `Recorder`.
- Payloads and their parsing, except what the chart reads of them; log lines;
  numbers in Gamma's answers that are no numbers; the chart's argument parsing
  and drawing; the statistics that `main.py` logs.
- Durations, except in `Chart` and `Seeding`: the growth and reset of the
  reconnect backoff is in the hazard list without a property.

## 7. Plan

In this order:

1. `Recorder` composed with two `CaptureShard`s: the universe loop that waits in
   one shard's update while another reconnects, and a stop in the middle.
2. The job being killed while it writes, and a second job after it.
3. The safety halves of the liveness properties: what a file in `pending_dir`, a
   queued frame and a dead connection wait for, as invariants that name the step
   which is enabled.
