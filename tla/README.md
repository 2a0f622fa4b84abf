# A verification development for Hotline

Hotline is a desk of agents ("teammates") kept in one *room*.  The room owns a
log of streams, a session per teammate, work threads and jobs, the requests
teammates send one another, a vault of secrets, and the sockets that show all of
it to the desk's window, to phones and to linked desks.  It is about 270,000
lines of Rust (`crates/`) with a TypeScript interface (`ui/`).

This directory holds TLA+ modules translated from the Rust source, the TLC
configurations that check them on small instances, and theorems about them that
TLAPS proves for every value of the constants.  Source paths below are relative
to `src/crates/`; `core` stands for `hotline-core/src`.

* [1. The system](#1-the-system)
* [2. What is modelled, and how it corresponds to the code](#2-what-is-modelled)
* [3. The runs](#3-the-runs)
* [4. What the models reach that a comment denies](#4-what-the-models-reach-that-a-comment-denies)
* [5. What is proved](#5-what-is-proved)
* [6. What is not modelled, and the plan](#6-what-is-not-modelled-and-the-plan)

Run a configuration with `tlc -config MCDmTurns.cfg MCDmTurns`, and the proofs
with `tlapm SessionProofs.tla` (likewise for the other `*Proofs` modules).

## 1. The system

### Components

| Component | State it keeps | Operations | What makes it correct |
|---|---|---|---|
| Log (`hotline-store/src/log.rs`) | append-only JSON-lines files per stream (room, tape of a teammate, pair, side, job…), a cached fold, live broadcast | append, load, snapshot and subscribe, compact | a load answers what was appended; a subscriber neither misses nor repeats; the cache is the file |
| Capability (`hotline-tools/src/capability.rs`) | one epoch per teammate, leases captured from it | capture, scope, revoke, invalidate, stop, replace, activate, check | a revoked handle never works again; a check is sound whatever runs beside it |
| Session start (`core/session/start.rs`, `wire/commands/persona.rs`) | session map, start gate, policy lock, the epoch | start, stop, swap, rebuild, policy update, delete, prepare_restart | no session runs under a superseded policy; one agent per conversation; no deadlock |
| Turns (`core/session/turns.rs`, `dm.rs`, `prompt.rs`) | a queue and a claim per conversation, read receipts | dispatch, drive, steer, hand back, Stop, revoke | one driver at a time; no line stranded, lost, repeated or reordered |
| Stopping (`core/session/stopping.rs`) | `pending.json` | drain, keep, cut, wait, resume | what the person said survives a restart |
| Exchanges (`core/session/exchanges*`) | a durable record of each pair: requests, their states, the brake; a worker per pair | request, admit, hand over, answer, deliver, commit, stop, interrupt, resume, reconcile | work done once, a result heard once, the sender told of every end, the brake holds |
| Linked desks (`links.rs`, `exchanges/across.rs`, `remote/link.rs`, `hotline-room/src/linked.rs`) | link records, a channel, requests whose other half is elsewhere | link, dial, call, deliver, result, note, unlink | a request is taken once though its delivery is repeated; both desks agree how it ended |
| Work threads, calls (`sides.rs`, `sides/*`, `lifecycle.rs`, `calls.rs`) | live, parked or archived threads, their agents and queues | start, say, park, archive, continue | one agent a thread, none left behind; no line lost between agents |
| Schedule and jobs (`schedule.rs`, `job_thread.rs`, `jobs.rs`) | job rows in the room stream, a thread and a `Life` per job | clock, fire, finish, retry, cancel, end | a due slot is counted once; a last firing ends the job; a shut thread is not reopened |
| Computers (`computer.rs`, `computer/gate.rs`, `session/computer.rs`) | the lease of a teammate's computer, its container | take, release, gate; ensure, stop, remove, adopt, sweep | one thread drives a computer; what the desk knows of the container is so |
| Wire (`core/wire`) | sockets, lanes, subscriptions, a bounded outbox, roster views | command, subscribe, send, merge, shed, cut | order per lane, bounded memory, a view that converges, work that ends with its seat |
| Remote (`core/remote`) | admissions, relay hosts and waiting visits, sealed channels | accept, promote, evict, register, claim, join | seats bounded, an evicted peer never seated, one desk stands in |
| Chapters (`chapters.rs`) | markers on the tape, a checkpoint | rotate, resume, title | markers nest; the checkpoint names the open chapter's session |
| Consent, asking, peers | permission cards, standing grants | raise, answer, withdraw, grant, revoke | an answer reaches the asker at most once and under a live grant |
| Vault (`core/vault.rs`) | secret files and their rows in the room stream | create, replace, revoke, delete | no row without its secret, no usable secret behind a deleted row |
| Cookie lends (`cookie_lends.rs`) | shares and where their copies are | share, refresh, end | a copy is taken back wherever it went |
| Drivers (`core/driver`) | a running agent, in process or over ACP | prompt, steer, cancel | a prompt ends once |
| Voice (`core/voice`, `hotline-room/src/voice`) | the ledger of a call | say, hear, cut | the tape has what was heard |
| Search, previews, browser, MCP, providers, contract, CLI, app, UI, sites | derived data, I/O and presentation | | |

The first twelve rows are modelled; section 6 says what of them is left out.

### How they interact

A command arrives on a socket of the **wire** and runs in its teammate's lane.
A line for a teammate takes the teammate's *start gate*, brings a **session** up
if there is none (capturing a **capability** lease first, reading the teammate's
record after), is appended to the **log** and dispatched into the conversation's
**turns**.  Whoever finds the queue unclaimed spawns the one loop over it, which
prompts the **driver** and takes from the queue again.  Tools the agent calls
check the lease each time; calls to its **computer** pass a gate that checks the
lease too and lets one agent of the teammate drive at a time.  A policy update
closes the epoch, appends the new record and reattaches.  A teammate's request
to another is recorded in the pair's stream before it is answered; a task admits
it to the target's turns (an ask) or to a **work thread** of its own (a handoff),
the **exchange** worker delivers the answer to the sender's tape, and the
sender's next turn commits that it was heard.  A teammate on a **linked desk** is
asked over a channel, and each desk keeps its own half of the record.  The
**schedule**'s clock fires jobs into threads of their own with the same turn
loop.  Sockets from outside pass the **remote** listener's pool and, for a desk
that stands in for another, the relay's hub.  A stop of the desk drains every
queue into `pending.json`; the next start settles the streams, reconciles the
exchanges and resumes what was kept.

### What is hard

Nearly everything is a task of its own, guarded by short synchronous mutexes and
a few locks held across awaits.  The behaviours that no unit test reaches well:
state read before an await and used after it (a lease captured before the gate,
a sweep's list of idle computers, a visitor's ticket), two steps that look like
one (a stop's swap and its advance of the epoch; a subscription's fold and feed;
a drain and the write of what it drained; a release of a queue's claim done
twice), a delivery that fails or is cut between its claim and its settling, a
result committed by a turn that is then skipped, a call over a link that timed
out though it arrived, a feed that lost events while a snapshot was on its way,
and the end of the process at each of these points.  `PROJECT.json` lists forty
hazards at their lines with the properties that watch them.

## 2. What is modelled

One or a few modules per component; a component whose parts interact is composed
from them (`Computers` from `ComputerGate` and `Container`; `Jobs` from
`JobThread` and `JobRecord`; `LinkedDesks` from `LinkChannel`; `ServedDesk` from
`Admission` and `RelayHub`; `SeatedSocket` from `RosterView` and `Outbox`).  Each
`MC*` module adds the values of the constants for TLC, scenes and symmetry sets,
and nothing else.  The line ranges behind every definition are in
`PROJECT.json` under `map`.  An action is what one task does from one await (or
one mutex) to the next; the operators named "Mutant" in a comment are plausible
mistakes in the definition below them, which some property must refute.

Properties a run checks are often conjunctions of named parts: `X = A, B` below
says that property `X` is `A` and `B` together.  A module's type invariant is a
part of one of them, or stands alone.

### Authority and Capability (`hotline-tools/src/capability.rs`)

`Authority` is the abstract promise: a handle is made live or dead, goes from
live to spent, and never back.  `Capability` is the code: the epoch
(`CapabilityState`: two counters and a flag behind a mutex), leases captured
from it (ordinary or lasting), `scoped` leases with the chain they depend on,
one `AtomicBool` per lease, and `is_current` as the sequence of loads it is
(`BeginCheck`, `LoadRevoked`, `ReadEpoch`).  Every operation is an action.

* `CheckSound`: a check that answers "current" was asked of a lease that held
  authority when the check began.  The code reads the flags and the epoch
  separately; this is what still holds.
* `LeaseLife` = `NeverRevived`, `LastingOutlivesReplacement` (action properties):
  no operation, `activate` included, makes a stale lease current, and a chapter's
  swap ends the session's handles and not those of requests between teammates.
* `LeasesAreTied`: a lease is never ahead of its epoch, and every lease a scoped one
  depends on was made, and was captured at the same moment as it.
* `Implements`: `Authority` under a refinement mapping.

### SessionStart (`core/session/start.rs`, `core/session.rs`, `core/wire/commands/persona.rs`)

Callers are tasks that start, swap a chapter, rebuild, stop, update or delete
one teammate.  The state is the teammate's durable record (`policy`, a version
or `Gone`), the epoch objects (`epochs`, a second one once the teammate was
forgotten), the session map's entry, what `resting` shows, the start gates, the
policy lock and whether a desk update is being installed.  `Ask` to `LeaveGate`
is `Room::start`; `SwapOut`, `Settle`, `EndEpoch` are `stop_session` with the gap
between its two advances; `AskChange` to `Forget` are the wire's update and
delete; `DropWaiting` and `DropInside` are a remote seat's call dropped at any of
its awaits when its socket is cut (`wire/socket.rs:502-510`), with the guards it
held; `PrepareRestart` and `InstallFails` the desk's own update.

* `NoStalePolicy`: a session whose handles work was built from the record that is
  durable now, wherever a start stood when the update began.
* `NoAgentOrphaned`: a session in the map is never replaced by another.
* `BandIsTrue` = `TypeOK`, `StartingHasAStart`: "starting" is shown only while a
  start is under way.
* `NothingHangs` = `QuarantineEnds`, `CallsEnd` (liveness): a quarantined teammate
  is reopened, unless it is gone or a policy change stopped short of it (`Short`: its
  record was not written, its reattach was refused, its socket was cut); every call
  that is not dropped returns, whoever was dropped beside it.

### DmTurns (`core/session/turns.rs`, `dm.rs`, `prompt.rs`, `runner.rs`, `driver_info.rs`, `asides.rs`, `stopping.rs`)

The main conversation.  A person's line is its place on the tape; anything else
the agent is told is `Other`.  `session` is the queue with its claim
(`Turns::waiting`, `running`), the receipts owed and the shown state; `runner`
the tasks in `run_queue`; `caller` the prompts and deliveries between the start
gate and their dispatch; `driver` the agent's turn and its inbox; `stop` and
`resume` the two ends of a restart with `pending.json` in `file`.
Correspondence: `Ask`/`Enter`/`Say`/`HandOver` = `prompt`; `Deliver`, `ClaimIdle`,
`DeliverClaimed`, `Nudge` = deliveries; `LoopTop` to `Rest` = `run_queue`;
`SteerInto`, `Consume`, `TurnEnds` = steering and what is handed back; `Cancel`,
`Revoke` = Stop and the session's end; `Close`, `Drain`, `Keep`, `Finish`, `Cut`,
`Wait` = `stop_for_restart`; `ResumeRead` to `ResumeWrite` = `resume_pending`;
`Restart` = the next start of the desk, after a stop or a kill.

* `QueueIsDriven` = `TypeOK`, `OneDriver`, `NoLineStranded`, `ShownIsTrue`: one
  holder of the claim, and `running` says so; no line waits behind a turn that is
  over; ready and thinking are shown truthfully.
* `HeardInOrder`: until the desk starts again, typed lines reach the agent once and in order, however they
  were steered, handed back and queued again (a line on a call never steers).
* `NoLineLost`: a line said and never told to the agent, whatever its receipt says, is
  on its way, queued, in an inbox, in the stop's hand or in `pending.json`, or was let
  go of by one of the steps that `fate` names.
* `LinesAreTaken`, `StopEnds` (liveness).

Named exceptions.  `refused`: a claimed delivery whose line could not be written
gives its claim back without looking at the queue (`prompt.rs:226-228`), so a
nudge or a wake that was dispatched behind it waits for the next line; without
the exception TLC violates `NoLineStranded` there.  `fate` is a history of
what was let go of: "stopped" by a Stop or a revocation, which drop the waiting lines
on purpose; "cut" with the inbox of a turn a restart cuts (both drivers close it);
"killed" with a process killed outright; "unwritten" when `pending.json` could not be
written (`:86-88`, `:161-163` log it and go on); "overwritten" by a resume that writes
what it read (`:265`) after a stop added to the file; "skipped" by a start that finds
the line's receipt (`:286`), stamped before the agent used it.  The last four are
losses: a step that loses a line in any other way violates the property.

### Log (`hotline-store/src/log.rs`, `log/cache.rs`, `log/tape.rs`, `core/wire/subscribe.rs`, `core/session/lifecycle.rs`)

One stream.  `lines` and `tail` are the open segment and what follows its last
newline, `Older` the closed segments, `cache` the fold in memory, `subs` the feeds
with their bounded queues, `todo` what the settle of a start still appends.
`disk` says what a step that is cut can leave: nothing ("whole"), part of a line
("tears"), or a compaction cut short too ("cuts").  An event is an id, the write it
came from, and whether it is a card awaiting its answer; `Tools` are the ids of
kind tool, `Phones` the subscribers with a phone's outbox.  `Fold` is the store's
fold and the reference the rest is compared with: each id at the first of its
`Places`, as it was written at the last of them.

* `FoldIsTrue` = `LogTypeOK`, `CacheIsFold`, `LoadIsWritten`: the cache is the file
  always; a load answers what was appended, where no append was torn.
* `FeedIsLoad`: what a feed that has missed nothing sends, with what waits for it, is
  what a load answers, each id once and in its order, where the disk is whole.  A
  desk's own window is sent all of it.  On a phone a tool's event is sent droppable
  (`subscribe.rs:271-272`), and a full outbox sheds it silently (`queue.rs:95-100`):
  there all but the tools so shed (`shed`, till the next snapshot).  The windows and
  shapes of a phone's frames are not modelled.
* `HistoryStays`: what was written is never gone, but for a cut compaction.

### Exchanges (`core/session/exchanges.rs` and `exchanges/*`, `asides.rs`, `peers/sessions.rs`)

One pair of teammates on one desk, all requests from one of them (the *asker*)
to the other (the *target*).  Durable: `pair` (the brake), `req` (each request's
`State` with its flags and its card), `tape` (each result's line where the asker
reads it), `told` (notices of a stop).  In memory: `lease`, the calls under way
(`task`, `worker`, `revoking`), the conversation that works a request (`line`,
`answer`), and the asker's conversation that hears results (`queue`, `dispatched`,
`sender`).  Correspondence: `Send` = `queue_request`; `TakeUp`, `Admit`, `Refuse` =
the admitting task; `HandOverAgain`, `HandOverAnswer`, `Claim`, `Land`, `Settle`,
`Tell`, `FindRevoked`, `Retire` = the worker (`run_exchange`, `exchange_step`,
`deliver_reply`); `BeginTurn`, `EndTurn` = `begin_request`, `finish_request`;
`StopHandoff`, `StopQuestion`, `Interrupt`, `CarryOn`, `EndCarried`, `PostCard`,
`AnswerCard`, `WithdrawCard` = the person and the agent; `TakeResult`, `HearResult`,
`DropResults` = the asker's turn at its door; `ResumeExchange`, `StopExchange` = the
brake's card; `CloseEpoch`, `RevokeExchanges` = the two steps of a stop of either
teammate; `Restart`, `Recover` = the end of the process with
`reconcile_exchanges`, and the first sweep.

* `OnceEach` = `WorkedOnce`, `HeardOnce`: a request's line begins at most one turn,
  its card's answer one more, and at most one turn hears a result, across
  redelivery, drops, stops and restarts.
* `PausedAtCap`: the pair is paused exactly when the cap is reached, though
  admissions and deliveries are counted by different tasks.
* `ToldOneThing`: the asker of a stopped request never hears both its result and the
  stop, and hears one of them once nothing more is owed, but for the two exceptions
  named below.
* `NothingIsForgotten` = `TypeOK`, `WorkerWatches`, `HeardIsRun`: the worker never
  retires over an open request or an owed failure, and a result marked heard is
  heard by a turn.

Named exceptions.  `unsettled`: requests whose claimed delivery failed or was cut
(section 4 says what happens to them).  `overtaken`: requests stopped while their
delivery was under way, which landed, and which no turn had heard when it was settled;
they are told neither (section 4).  `skipped`: results taken up behind one that
was stopped between its look at the door and its own commit
(`asides.rs:567`); they are marked heard and their turn is skipped.

### LinkChannel and LinkedDesks (`core/remote/link.rs`, `hotline-room/src/linked.rs`, `core/session/links.rs`, `exchanges/across.rs`)

`LinkChannel` is the link itself: its record on each desk (`link`), the channel
one of them dials, frames in order in both directions, and the one call a desk's
worker has under way.  Each end finds out for itself that a channel is over, and
the dialed end may hold a new channel while its task of the old one has frames to
read (`unread`).  `LinkedDesks` adds what crosses it: the asker's record of a request
(`asked`), the answerer's (`work`), a work thread's note, and every handler either
desk has for them.  `Forwards`/`Forwarded`, `Accepted`/`Known`/`Over`,
`Claims`/`ResultSent`, `SettledBy`, `SendsNote`/`NoteSent`, `Unlinked` and `Restarted`
carry the names of what they translate.  Faults are channels that break, calls
that time out after they arrived, refused writes, restarts, and what the two
persons stop, unlink and link again.

* `OnceOverTheLink` = `WorkedOnce`, `NoteKeptOnce`: what crosses takes effect once,
  however often it is sent.
* `EndsAgree` = `DesksTypeOK`, `NothingIsDropped`, `StopIsHeardAsStop`,
  `AnswerStaysAnswer`: how a request ended where it was worked is how it ends where
  it was asked.
* `LinkStartsFromNothing` (action property): a request accepted over a link that
  has ended is not begun over the one made after it.

Named exceptions.  `unkept`: the asker's desk could not save what it was told, and
`return_linked` takes its refusal for a delivery.  `turned`: a request sent again
and turned away, by a desk that is restarting or cannot save, fails at its sender
although it was worked.  A restart of the answerer gives leases again to whatever
its disk still has, so `LinkStartsFromNothing` excludes it (`work.link = 0`).
`StopIsHeardAsStop` speaks of a stop whose desk had a linked sender to tell
(`owed` is not "no"): one that finds the link already ended on its own desk tells
nobody, and if the record outlives that end (`unlinked` failed) and the desks are
linked again, the request sent once more is refused and fails at its sender.  It
takes four faults to come about.

### WorkThreads (`core/session/sides.rs`, `sides/ending.rs`, `sides/input.rs`, `lifecycle.rs`)

The threads of one teammate.  A `LiveSide` is a number, because a thread has one
after another and what still runs for an older one goes on with that.  `link` is
the durable record, `live` the room's map, `side` each live side with its phase
(open, parking, closing) and its queue, `starting` the places reserved, `waking` the
admission under which a thread is brought back, `carried` lines that outlived a
park.  `Ask`, `Open`, `Reopen`, `Looks` = `queue_in_side`, `start_side`, `reopen_with` and
`wake_work`; `Reserve`, `Evict`,
`Publish`, `MarksLive`, `BroughtUp` = `reserve` and `bring_up`; `Built`, `LooksUp`,
`TakesFirst`, `StartFails` = the agent's start beside them; `Begin` to `Rest` =
`run_queue`; `ParkIdle`, `LeavesParked`, `CloseSide`, `Archive`, `ArchiveOwed` = the park,
the archive and the agent's own end; `LetGo`, `WriteEnd`, `Leave` = an `Ending` carried
out step by step; `Invalidate`, `Drops`, `Drop`, `Reattach` = the end of the teammate's
authority.

* `ThreadsAgree` = `TypeOK`, `OneLive`, `WithinPlaces`, `LinkIsTrue`,
  `RevokedIsEnded`, `NoAgentLeft`: one agent a thread, never more than its places,
  none under an authority that ended and none left behind by an end that raced its
  start; the link says what the map does.
* `LinesSurvive` = `LineIsKept`, `ParkLosesNothing`, `NoLineLost`: no line is lost
  between a thread's agents.
* `EndHolds`: an archived thread is not live again unless somebody brought it back.
* `Settles` (liveness): in the end nobody in the room waits but for an agent that
  starts, or works, and was not stopped; nothing waits for one of those for ever
  once it was let go.

Named exceptions.  `slipped`: the line that claims the queue between `next_line`'s
release and `rest`'s (section 4).  A live mark decided before a failed start put a
continued thread back may land after it (`Ending::Restore` writes without the
marking lock).  A line that reaches a closing thread after its drain is neither
run nor failed.  A thread archived while it is parked, between `wake_work`'s read of
its link and its publication, is brought back all the same (it is then no longer in
`ended`).

### JobRecord, JobThread and Jobs (`core/session/schedule.rs`, `core/session/job_thread.rs`, `turns.rs`)

`JobRecord` is one job's row: every operation folds it again and writes it under the
schedule guard, so each is one step that may be refused by the disk.  Time is the
two questions the code asks: is the slot due, would the next fall past the end
date.  `JobThread` is the room's `LiveJob` (several while somebody holds an old one),
its `Life`, its queue and the tasks in `run_queue`, with `begin`, `turn`, `end` and
`rest` cut at their awaits.  `Jobs` adds the clock (`Looks`, `Fires`, `FindsThread`,
`QueuesFiring`, `Finishes`, `Retries`) and the calls beside it (`prompt_job`,
`cancel_job_turn`, `schedule_cancel`, `schedule_done`, `job_ended`), park, the epoch's
end and the end of the process.

* `CountIsKept`: a loop made to fire *n* times is handed over *n* times, once more
  only for a crash or a refused write between the handing over and the row.
* `LastFiringEnds`: a job in its last firing is ended by the clock or by the queue
  at rest; they never both leave it to the other.
* `ThreadIsTrue` = `TypeOK`, `FiringIsInFlight`, `NoLineStranded`: a thread does not
  believe a firing in flight that nobody runs, and no line waits for nobody.

The last two name one exception, `Panicked`: the task whose agent was let go of from
under its turn (section 4).  It is not counted as one that runs or will end anything.
For `FiringIsInFlight` it must be the task of that firing, for `NoLineStranded` one of
that queue, and for `LastFiringEnds` one of the thread in the room's map.

### ComputerGate, Container and Computers (`core/computer/gate.rs`, `core/computer.rs`, `core/session/computer.rs`)

`ComputerGate` is the lease (`held`, `inFlight`, `released`, `idle`) and the calls at
every agent's gate; each of `take`, `Call::drop`, `release` and the end of a gate is
one step under the mutex.  `Container` is the runtime's container (`box`), what the
desk's map says of it, and `ensure_running`, `stop`, `remove`, `adopt` and `sweep` as
the awaited requests they are, any of which may fail.  `Computers` composes them
with the agents' starts and ends, the person's pane and a restart of the desk.

* `GateIsTrue` = `OneDriver`, `CountIsTrue`, `EndedHoldsNothing`: calls in flight are
  the holder's, the count is their number, and an agent whose gate has ended never
  has the computer again.
* `ContainerIsTrue` = `TypeOK`, `BearerIsTrue`, `ReadIsTrue`: what the map says of the
  container's bearer is what the container was made with, and what a bring-up read
  under its lock still holds when it acts on it.

### Admission, RelayHub and ServedDesk (`core/remote/admission.rs`, `relay.rs`, `server.rs`)

`Admission` is the pool of permits: pending ones, seats, who was put out to make
room, and who still owns an entry.  `RelayHub` is what a served desk keeps for one
desk that stands in on it: the registered generation, its token, slots, tickets,
waiting visitors and their notices.  `ServedDesk` composes them with the listener,
which stands still while the one it put out has owners, and the tasks of phones,
control sockets, visitors and callbacks, each of which may expire, be evicted or
revoked at every await.  The sockets the desk dials itself, for the phones that
visit it at a relay, are never in the pool as pending and take their seats there
(`SeatRelayed`).

* `Bounded` = `TypeOK`, `WithinBounds`, `SlotsBounded`, `VisitsBounded`: pending
  sockets, in all and per address, seats, in all and per device, direct or relayed,
  the controls' slots and a desk's visits keep to their limits, over several
  registrations of it.
* `SeatsAreTrue` = `EvictedIsNotSeated`, `WaitingIsCurrent`, `ServingIsRegistered`,
  `JoinedByItsDesk`.
* `OnlyStandingReplaces` (action property): a generation is cancelled only with its
  device, with its own control, or by a control whose permit stands.
* `Settles` (liveness): listener, revoked devices and visitors all come to an end.

### Outbox, RosterView and SeatedSocket (`core/wire/queue.rs`, `roster.rs`, `socket.rs`, `subscribe.rs`, `ui/src/wire.ts`)

`Outbox` is a seat's bounded queue: a pending roster row is replaced and moved to
the end with the lists of the one it replaces carried over, a full queue sheds a
droppable, and a required frame that does not fit cuts the seat.  `RosterView` is
a roster subscription: the room feed and the feed of session hints with their
bounded receivers, the pumps of the teammates' tapes, the dirty set and the lists a
row leaves out because the phone has them.  `SeatedSocket` adds the reader, the
lanes, the ordered worker, independent reads, the writer, and the client's own fold
of what it receives, from `ui/src/wire.ts`.  A subscription whose number is open
already, or past a phone's bound (8 in the code, `PhoneMax` here), is refused.

* `SeatIsServedInOrder` = `TypeOK`, `RequiredInOrder`, `SeesWhatItDid`: replies,
  snapshots and removals are written in their order or the seat is cut; a
  subscription sees what its socket asked before.
* `ClientIsInStep` = `BeliefIsTold`, `CaughtUp`: what the view believes the client
  has is what it has, and with nothing on its way it is the desk.
* `CutEndsWork` (action property): nothing is begun or opened for a cut remote seat.
* `SeatSettles` = `ShowsTheDesk`, `EndsWhole` (liveness): a command that never ends
  holds up its own lane and nothing else: all else is read, answered and shown.
  After a cut every subscription ends, a remote's work ends where it is, and what
  the desk's own window was asked is done, but for what waits behind such a command.

### Abstractions common to the modules

A step is atomic where the code holds a mutex across it or runs without an await.
Appends are single steps that succeed, except in Log, where they may be refused
or torn, in JobRecord and LinkedDesks, where they may be refused, and where DmTurns
lets a delivery be refused.  A line's text, a title, a model and a provider are
not represented; times are: a deadline may pass at any moment.  In Exchanges the
receipt of a result and its commit are one step, and the pair's saves succeed.

## 3. The runs

Twelve runs, one for each question; every bound is a named constant.  All of them
pass, and for every property of every run `PROJECT.json` names a mutant of a
modelled definition that the same run refutes.

| Run | Question | Bounds, and why they are enough |
|---|---|---|
| `capability` | are checks sound and leases spent for good, and is the epoch an `Authority`? | 3 leases (a chain of two dependencies, or two unrelated leases and one scoped), 1 checker (checkers do not interact), 2 advances (one before and one after a capture); the proofs remove the bounds |
| `session_start` | can callers reach a stale, orphaned or falsely starting session, and do calls and quarantines end? | 2 callers, each making any one call; the proofs remove the bound for what is not liveness |
| `dm_turns` | is the queue driven by one, in order and truthfully? | 3 lines (one on a call, one steered, one queued behind), 2 connections, 2 tasks in `run_queue`, 1 other line |
| `dm_restart` | is anything lost over a stop and the next start, and does a stop end? | 2 lines (one running or steered, one waiting), 2 starts, no symmetry because of liveness |
| `log` | do loads, feeds and the cache agree through every fault? | 3 writes and 3 faults over 3 ids, of which one is in a closed segment and one a tool's, and a phone; queue depth 1 of 1024, so that lag happens |
| `exchanges` | is each request worked, heard and told once? | 2 requests, each a handoff or an ask sent from a thread, cap 3 of 12 (an admission and a delivery fit, the third message pauses), 2 events (a fault and what races it) |
| `jobs` | is a firing counted once and a last one the end, and does a job's thread know what it is doing? | 2 tasks in the queue, 2 calls beside the clock, 2 lives of the thread, count 2, 2 due slots, 2 acts of the world, 1 crash |
| `computers` | is a computer driven by one agent, and is the desk's picture of its container so? | the teammate's session and one thread, the person's pane, 2 calls, 2 bearers ever made (one of them stale) |
| `links` | is a request over a link worked, answered and noted once? | 1 request (requests of a pair do not interact but through the brake, which Exchanges has), any 2 faults, restarts, stops, unlinks and links again |
| `remote` | are seats, the stand-in and its visitors who they should be, within their limits, and does it all end? | six crowds of three or four sockets, each bringing one race out, one from three addresses, two with sockets the desk dialed; room for 2 pending of which 1 an address, 2 seats of which 1 a device, 2 slots of which another desk may hold 1, 1 visit, 1 device revoked |
| `work_threads` | do threads, agents and links agree, and is a line ever lost between them? | 2 threads, 2 lines or one and a continuation, 2 callers, 2 tasks in the queue, 3 live sides; three scenes: one place and a late live mark, one place and two changes of authority, two places |
| `seated_socket` | is a seat served in order, in step with the desk, and ended with its socket? | seven scenes: lists left out of rows for a slow phone, teammates changed before and under a view, a tape line, a busy phone cut, a subscription dropped and another made behind a command, one asked for twice and one too many, the desk's own window cut; 2 teammates, 2 subscriptions, outbox of 3, feeds of depth 1, so that every merge, shed, cut and lag happens |

`CHECK_DEADLOCK FALSE` is set where the system may really come to rest or its
bound is reached with nothing left to do: everywhere but in `dm_turns`,
`dm_restart` and `computers`, where the states of rest are named or there are none.

Parameters that choose a question rather than a size: `Spoken` (DmTurns)
names the lines said on a call.  `Kinds` (Exchanges)
names the intents sent and whether from a thread.  `Disks` (Log) names what a cut
step may leave.  `Scenes` and `Crowds` say what may happen together.

### Fairness

* `SessionStart!Fairness`: strong fairness of each task's step.  A spawned task that
  can run does, and tokio's mutexes and read-write locks are fair queues, so a
  task that is enabled again and again at a lock is let in.  Nothing keeps a remote
  seat's call from being dropped at an await instead.
* `DmTurns!Fairness`: weak fairness of each task in `run_queue`, of the agent's turn
  **only once cancelled** (an agent that was not may work for ever, and
  `LinesAreTaken` says so), of the stop's steps (its deadlines are timers), and
  strong fairness of what waits for the start gate.
* `ServedDesk!Fairness`, `WorkThreads!Spec`, `SeatedSocket!Spec`: weak fairness of the
  disjunction of the steps the runtime owes: a spawned task's next step, a timer, a
  wake, a cancelled token seen.  It is weaker than fairness of each step (only *some*
  owed step must happen while one can), and it suffices, because owed work runs
  out.  Nothing is assumed of peers and persons: a
  socket that is silent ends by its deadline, a client is read from only by what
  the writer has written.  Of agents only this: the turn of a side that was ended
  ends (`Stopped`: `Ending` invalidates its driver, which kills the agent).  An agent
  nobody stopped may start or work for ever (`WorkThreads!AgentSteps`), and so may any
  command of a socket (`SeatedSocket!Commands`: "an agent that never finishes
  starting holds up its own lane, not the desk", `wire/socket.rs:263`), so neither is in
  `Owed`; a remote's command is dropped where it is when its seat is cut.

No other run assumes any.

## 4. What the models reach that a comment denies

While modelling, TLC reached these states by the code's own steps.  Those of
the first list contradict a comment or a document; the property they would break
names each as an exception, which says where it starts.

* **A dead lease shown as ready** (SessionStart).  `stop_session` takes the session
  out at `start.rs:373` and advances the epoch at `:374`.  A start that captures its
  lease between the two and joins the room before the second is killed by it and
  stays in the map as Ready; `session()` then refuses every message.  The comment
  at `start.rs:290-292` says "never present revoked execution as ready".
* **A resume overwrites kept lines** (DmTurns, the fate "overwritten").  `resume_pending` writes
  `pending.json` at `stopping.rs:265` from what it read at its start, without the
  file's lock; what a stop kept meanwhile is gone.  `stopping.rs:158`: "so a line is
  in one place or the other, never neither".
* **An append behind a torn line** (Log, `LoadIsWritten`'s condition).  `append`
  (`log.rs:313`) does not look at how the file ends: the next event runs together
  with the torn one, is answered Ok and published, and no load has it.  The comment
  at `log.rs:558-560` says that no subscriber acts on what the next load lacks.
* **A compaction cut short** (Log, `HistoryStays`'s condition).  `compact`
  (`log.rs:496`) truncates the segment before it writes it, at every start;
  `docs/serve.md:546-547` says that a desk killed outright "keeps what was already
  written".
* **A stop nobody is told of** (Exchanges, `unsettled`).  A delivery claimed at
  `exchanges.rs:1795` that fails, or is cut by a restart, leaves `sending` set on a
  reply (`:1823`, `:1485`); a stop then records `answering` and its sender is told
  neither the answer nor the stop.  `:1776-1777` says "so the sender is told one
  thing".
* **A stop that overtakes a delivery that landed** (Exchanges, `overtaken`).  A stop
  while the reply is on its way leaves no notice (`answering`) and revokes the
  request's leases (`exchanges.rs:1133-1136`); the delivery lands, and settles the stop
  as answered (`:1817`); the sender's turn then finds that the result no longer waits
  (`:1060-1068`), for its lease and its phase, and is skipped.  The result's line is in
  the sender's conversation and no turn hears it, nor the stop, against the same words.
* **A job that never fires again** (Jobs, `Panicked`).  `let_go_of_jobs`
  (`job_thread.rs:1483`), for a teammate stopped or whose authority changed, takes the
  agent whatever runs on it.  Between what made sure of it (`begin`, `:507-527`) and
  the turn that takes it, `turn`'s `expect` (`:572-575`) panics: the task ends with the
  claim and the firing standing.  Every line said to the job then waits for ever, every
  later slot is skipped, and a last firing is not ended, till the desk restarts; `:1481`
  says "the jobs go on firing".  The model has the panicked task ("dead"), which no
  property counts as one that runs anything.
* **A park that cuts a turn** (WorkThreads, `slipped`).  `rest` (`sides.rs:551`) sets
  `running` to false after `next_line` has already released the claim
  (`turns.rs:60`); a line that claimed between the two runs unclaimed, so a park lets
  go of its agent mid-turn.  `sides/ending.rs:52-57` says that such a line "is never
  cut by a park".  A job's `rest` (`job_thread.rs:666`) does the same, so that two
  tasks may drive one job's queue; `Jobs` has both as runners.

Smaller ones:

* Sessions.  A remote seat whose socket is cut drops its command at an await
  (`socket.rs:502-510`).  A policy change dropped between its append and its
  reattach leaves the teammate closed, with its session in the map, until its next
  policy change; a reattach dropped while the browser and the cookies follow leaves
  a teammate that was running stopped.
* Stopping.  The lines a stop keeps late may stand in `pending.json` before lines
  said earlier (`stopping.rs:219`).  A receipt is stamped before the agent has used
  the line, so one handed back unused is skipped by the next start (`:286`; the fate
  "skipped").  A write of `pending.json` that fails loses what it was to keep, and
  nobody but the log is told (`:86-88`, `:161-163`; "unwritten").
* Results.  Those taken up behind one that is stopped at the door are lost
  (`asides.rs:567`).  A Stop of the sender's conversation drops the results waiting
  in it, which are handed on again only by the desk's next start (`prompt.rs:504`).
* Jobs.  `halted` is kept by a turn that is skipped at its door and swallows a later
  line's turn.  A turn may be driven on a job cancelled between `begin` and `turn`.  A prompt that looked a job up before its cancel makes its
  `LiveJob` again.
* Computers.  The sweep acts on the list it read first (`computer.rs:757-793`): a
  container whose teammate began to work meanwhile is stopped, though the comment
  there says that a teammate still working is not idle.
* Exchanges.  The brake does not count a forwarded request that is answered before
  its forward returned.
* Links.  `return_linked` takes a refusal by a desk that could not save for a
  delivery; a request sent again and turned away fails at its sender though it was
  worked; a request accepted between what `unlinked` stops and the record's going
  survives into a link made again, once the desk restarts; `unlinked` may fail after
  its sweep and leave the record.
* Work threads.  The late live mark after `Ending::Restore`, the line behind a closing
  thread's drain, and the archive a revival overtakes (section 2).
* Remote.  A control whose device is revoked between its handshake and its
  registration registers with a generation already cancelled, over a live one.  A
  replacement that retires the current generation and then expires leaves the desk
  offline until it dials again.

## 5. What is proved

Eight modules of proofs, checked by TLAPS for every value of the constants.  TLC
checked each property first, on the run of section 3 that names it.

| Module | Theorems | Assumptions |
|---|---|---|
| `SessionProofs` | of Capability: `LeasesStayTied` (`LeasesAreTied`), `ChecksAreSound`, `NoLeaseRevives`, `LastingIsKept`, `LeasesLiveOnce` (`LeaseLife`), `ImplementsAuthority` (`Implements`) | `MaxGeneration` is a natural number; no lease is none |
| | of SessionStart: `TypesCorrect`, `PolicyIsNeverStale` (`NoStalePolicy`), `BandIsHonest`, `BandAlwaysTrue` (`BandIsTrue`), `NobodyIsOrphaned` (`NoAgentOrphaned`) | `None` is no caller, the tombstone no version |
| `DmTurnsProofs` | `QueueStaysDriven` (`QueueIsDriven`), `LinesAreKept` (`NoLineLost`), `HeardStaysInOrder` (`HeardInOrder`) | `None` and "resume" are no callers; the bounds are numbers |
| `ExchangesProofs` | `WorkedAndHeardOnce` (`OnceEach`), `PausesAtItsCap` (`PausedAtCap`), `SenderToldOneThing` (`ToldOneThing`), `NothingStaysForgotten` (`NothingIsForgotten`) | the cap is a positive number; `None` is no request |
| `JobsProofs` | `CountAlwaysKept` (`CountIsKept`), `ThreadAlwaysTrue` (`ThreadIsTrue`), `LastFiringAlwaysEnds` (`LastFiringEnds`) | a count is a positive number; no count is none; there is a life |
| `ComputersProofs` | `NeverTwoDrivers`, `CountAlwaysTrue`, `EndedNeverHolds`, `GateAlwaysTrue` (`GateIsTrue`), `ContainerAlwaysTrue` (`ContainerIsTrue`) | finitely many calls at a time; `None` is no agent; nobody and the sweep are no callers |
| `WorkThreadsProofs` | `ThreadsAgreeHolds` (`ThreadsAgree`), `LinesSurviveHolds` (`LinesSurvive`), `EndHoldsHolds` (`EndHolds`) | finitely many threads and callers; the bounds are numbers and every scene has a place; `None` is no thread, caller or line |
| `RemoteProofs` | of ServedDesk: `EvictedTakesNoSeat`, `WaitersAreCurrent`, `OneStandsIn`, `JoinsAreTheDesks`, `SeatsAlwaysTrue` (`SeatsAreTrue`), `ReplacedByStanding` (`OnlyStandingReplaces`), `VisitsStayBounded`, `DeskStaysBounded` (`Bounded`) | the kinds of sockets are disjoint; `None` and nobody are no sockets; the limits are numbers, positive for handshakes and controls; finitely many hosts and visitors |
| | of LinkedDesks: `OnceOverTheLinkHolds` (`OnceOverTheLink`), `EndsAgreeHolds` (`EndsAgree`), `LinkStartsFromNothingHolds` (`LinkStartsFromNothing`) | there are two desks, and they differ; the number of faults is a number; `Nothing` is no call |
| `WireProofs` | of SeatedSocket: `SeatsWorkEnds` (`CutEndsWork`), `SeatAlwaysServedInOrder` (`SeatIsServedInOrder`) | the queue and the feeds hold something; a script is a sequence of frames a client may send, and no teammate is named for a lane of its own |
| | of Log: `FoldIsTrueHolds` (`FoldIsTrue`), `FeedIsLoadHolds` (`FeedIsLoad`), `HistoryStaysHolds` (`HistoryStays`) | the closed segments hold events older than any that is counted; the bounds are numbers; no fold is no sequence |

**Capability.**  `CheckSound` is not inductive.  What has to be carried is how far a
check has come: a lease that is not current stays so (the counters only grow, a
flag only rises, and a lease captured while the epoch was closed says so itself),
so a check that *began* on a stale lease must find, among what it has still to
read, a flag that is set or an epoch that has moved on.  That is one conjunct of
the inductive invariant; the others bound each captured counter by the epoch's and
say that a scoped lease carries its parent's snapshot, so that one look at the
epoch serves the whole chain.  `NoLeaseRevives`, `LastingIsKept` and the refinement
follow from the same invariant, one step per action.

**SessionStart.**  That a usable session holds the durable record is not inductive: a
start reads the record long before it publishes.  `ReadInv` carries it across: at
`open` and `publish`, what was read is the record *as long as the lease holds*.
The record changes only in `Append`, and there no lease holds at all, because the
epoch is closed (`LifeInv`: whoever is at the append closed it, and `LockInv` says
that nobody else is where an epoch is opened) and every lease captured before the
closing is a generation behind (`LeasesInv`), so opening the epoch later revives
none of them.  That a session is never overwritten needs two more parts: a start
gate names the task that holds it (`GateInv`), and a place found empty stays empty
(`PlaceInv`).  The second gate, which exists once a deleted teammate is forgotten,
is no way round: whoever publishes has a reading that is the record, so the
teammate is not gone, so there is one gate and the publisher holds it
(`PublishIsAlone`).  The band's invariant needs only that a session that is up has
left the band on "stopped" (`RestingInv`).  The fourteen steps that change nothing
the callers share but the band and the gates are one case of each lemma
(`LocalStep`; `LocalMoves` says where each takes its task); the other ten are cases
of their own.

**Computers.**  Driver and count are inductive together with where each call's maker
is (`MadeAtOpenGate`): a call at a gate belongs to an agent whose gate listens, so
an agent whose gate has ended has no call left that could take the computer again.
The count is a cardinality; two lemmas say what taking a call in and dropping one
do to it, and they need the calls to be finitely many.

**DmTurns.**  Eight invariants, each proved on top of those before it.  `QueueInv`:
while the session answers, at most one task holds the claim on its queue, `running`
says whether one does, and a line waits or the room says "thinking" only with one at
work.  `GateInv`: whoever is past the start gate holds it, so a typed line is said
and handed over before the next is.  `TasksInv`: one task is at work and it alone reads the agent's inbox, and a line that
waits has a task that will fetch it.  `SaidInv`: whatever is held anywhere was said, and the tape has no gaps,
so that the line just said is after all the others.  `StopInv` and `LostInv`: a line
said and not taken is in memory, in the file, or was let go of as `fate` says.  A stop
may overtake a resume: what the resume goes through is in the file until it writes
(`StopInv`), and the file only grows meanwhile, so all that its write loses is what
the stop added, which that step names.  `OrderInv`: heard, inbox, the task's line and the
queue are each sorted and come before one another in that order, so a line handed
back goes to the front and not behind; it speaks of the desk's first start, like
`HeardInOrder`, because a resume may put lines in another order (section 4).  The
lemmas `FilterPicks` and `FilterRange` say what taking lines out of a queue leaves of it.

**Exchanges.**  That a request begins one turn is not inductive: a record goes through
many hands between its turn and its end.  What is carried is a relation, `Stays`, of
a record before a step to the same record after it: one stopped stays so, one heard
is heard or stopped, a consumed answer stays consumed, and one whose turn has begun
never again waits for its line.  Every move of a record (admit, answer, claim,
deliver, reconcile, stop...) is shown to be such a move once, in `MovesStay`; a step
that begins no turn and hears no result then keeps `WorkInv` and `HearInv` for any of
them (a turn that began has left the states a line begins from; a result a turn heard,
or was taken up with, is marked), and only the steps that do are cases of their own.  The
brake is an invariant of its own: the count never passes the cap, and it is counted up
in two places only, each of which looks whether the pair is paused and says so anew.

What the sender of a stopped request is told rests on `Says`, of every request whose
claimed delivery was neither cut nor failed (those are in `unsettled`, the exception
section 4 explains): how far its delivery has come, where the mark `sending` or
`answering` stands meanwhile, and that a notice was told only where no result is on
its way to be heard, and that a stop is told nothing only where its delivery landed
(`overtaken`, the other exception).  A step is `Calm` when it tells, delivers and hears nothing;
that it keeps `Says` is shown once (`CalmSays`), over what a move may do to a record
(`Moves`); claim, land, settle, tell, stop and the taking up of results are cases of
their own.  `NothingIsForgotten` needs two more facts, each inductive beside that: a
request that is open or owes its failure has a task, a worker or the coming recovery
(`WorkerWatches`, by what a move keeps of such a request, `Keeps`), and a result
marked heard was run, or is behind a turn that will run it (`HeardIsRun`).

**Jobs.**  The clock hands a firing over and advances the record in two steps, between
which the job may be cancelled or run out and the process may end.  `Account` keeps
the books of that gap: what was handed over is what the record is past, plus one
while the clock is between the two, plus at most one for each process that ended and
each write refused; and a clock that has taken the job up, or owes it an advance,
finds the record short of its count.  Everyone else can only end the record
(`RecordOnly`), which lets all the tasks and runners be one lemma (`OthersKeep`).

A job's thread writes its claim, its queue and its firing after it has let go of the
room's map, so no part of it is true by itself.  `ThreadInv` says, of every
`LiveJob` ever made, which task of the queue stands behind what it believes: a firing
in flight is some task's, and an open thread that is claimed, or has a line waiting, has
a driver.  `EndsInv` and `CallsInv` order the two halves of an end: the record is
ended first, and only then is the thread told.  With them the last firing follows
(`FinalInv`): the clock leaves the record to the queue only while a line waits or a
driver is claimed; either means a task, and the task ends the record before it goes.
That task is of the thread in the map, or past its queue already (`Stands`), so that if
it panicked, it is that thread's task which did, and only that is excepted.

**WorkThreads.**  Thirteen parts, inductive together (`IInv`): none is without the
others, because an end, a start and a queue each rely on what the other two have
left.  The ones that carry the argument:

* `Admission` and `MapAgrees`: who comes to start a thread has the admission
  (`waking`), or a thread nobody else knows of, and finds no live side there; a
  live side is in the map until it is gone, and no other is.  So a thread never has
  two.
* `PlacesAgree`: the reserved places are the starts under way, and those granted
  and not yet sides still fit beside the sides that live.  It counts two sets, and
  needs them to be finite.
* `LinkAgrees`: the link says "live" where an open side is that nobody is bringing
  up, and says so without one only where a start that failed put back what was
  there.  It holds only with what is on its way: a start between publishing
  its side and marking the link, an end between letting go of the side and writing
  what became of it, and a mark that comes late.
* `Leases` and `Agents`: a side that is open has a lease that was not taken of a
  closed authority, an authority that ended has ended what it covered or is about
  to (`dropping`), and an agent that comes up as its side ends is its starter's to
  stop.
* `Turns`: a queue with something in it has a runner, or the start that will drive
  it; `SaidIsPlaced`: a line that was said is with its caller, at a runner's door,
  in a queue, or carried past a park.
* `EndsHold`: a thread that was archived is not written "parked" by an end that was
  under way.

With forty actions and thirteen parts the proof has layers, so that each action is
looked at a fixed number of times.  `...Does` says what an action does to the few
things the invariant speaks of; `...Steps`, that in a state of the invariant it does it
to something that exists; `...Frame`, which of those things it leaves alone.  For
each part, `...Moves` then needs only the actions that disturb it, and `...Kept` puts
them together.

**Container.**  What the desk knows of a container is true because of the lock a caller
takes for it (`turn_of`): only its holder touches the container or the entry
(`HoldsTurn`), so what the holder read still holds when it acts.  With that go that an
entry always has a bearer, and that the bearer about to be made or published is the
one the container has (`MakerAgrees`), through every request that fails half way.

**Remote.**  Two invariants, inductive apart.  `PoolInv`: who was put out has no seat;
what puts one out looks at pending ones only, and a promotion looks again.
`HubInv`: a visitor in the hub has no task that would still do something with it but
for the notice, and none once its desk was told (`HandedOver`); a callback has a
visitor, with its ticket, exactly while it has claimed one (`Taken`); with the
listener's socket having no task yet, that carries `WaitingIsCurrent`,
`ServingIsRegistered` and `JoinedByItsDesk` through every replacement, retirement
and end.  That only a standing permit replaces needs one more: the
generation registered is of a control that still serves (`HostServes`).  The budget of visits is a cardinality: a
ticket is given where there is room, and every other step only drops tickets.

`DeskStaysBounded` counts the rest.  The pool is a sequence, and its bounds are about
how many of its members are pending, in all and from one address; the invariant
(`BoundInv`) adds that nobody is in it twice, so the members are as many as the
places, one taken out leaves the others' order and number (`RemovedFirst`), and an
admission that evicts first has room.  A seat is taken only below both limits, by promotion or
by a socket the desk dialed, which before it is seated is not in the pool.  The
slots of the controls are counted with those the rest of the desk holds
(`SlotsBounded`): what is granted was free.

**LinkedDesks.**  None of the properties is inductive: what has to be true is what is
*still to be read*.  The dangerous case is a request that its sender sends again,
because the call before ended without an answer, while the answerer's stop or
result for the same request is on its way the other direction: if the copy is
refused, and the refusal is heard first, the sender records a failure of work that was done.
The proof goes in two layers.

The channels.  A desk waits for one call at a time, and what is awaited on its
channels fits that call (`Fits`): its command on the way out, or one answer to it on
the way in, never both, and over a channel that ended only an answer.  With that,
what a step adds to the channels is told by three small sets (`Crosses`): the
commands to be read that were not, the answers its caller will hear that it would
not, the requests that are awaited and were not.  Most steps only take
frames away or make it that nobody waits for them (`Thinner`), and add nothing;
only a call and a reply do.

The records.  `FramesOk`: a result to be read is of work that is over, a stop of work
a person stopped.  `AnswersOk`: who hears that its result or stop was taken is told
so of a request that is over at its sender's, and a refusal is of a request that
was turned away or ended on the answerer's own side.  `AsksOk`: a request that is sent again
while its caller waits is not of work whose sender was told already, nor will
the answerer learn so before it comes to that frame.  `EndsOk`: who was told has it,
and a failure has a reason.  `WorkOk`: the two records of a request fit, its turn
began at most once and its lease is of the link as it is, or of a restart.  What a
step may do to the records is one relation (`Follows`: none goes back, and a sender
counts as told only by an answer), and `Mixed` shows for every step at once that
records that follow and channels that carry only what is allowed keep all of it.
Each of the thirty-odd actions is then shown to be such a step.

**SeatedSocket.**  A step opens a subscription only while the seat is held: a view's own
steps need it open already, and the ordered worker reads past a cut only once it has
seen it, when it opens nothing.  The one fact carried is that there is a view for
each subscription (`ViewsInv`).

The order is two invariants.  `InOrder`: the required frames that wait are those
numbered after the last one written, up to the last one made, in the order of their
numbers.  `AppendOrder`, `RemoveOrder` and `TailOrder` say what becomes of that when a
frame is queued, when one is taken out of the middle and when the first is written;
`OfferedKeeps` then shows that what is merged or shed is never a required one, and that
a phone's queue does not grow past its capacity.  `LineInv` and `DoneInv`: the ordered
lane holds its frames in the order they were read, and each frame read for it is in
it, under way or done while the seat is held; the worker begins the first only with
none under way, so all before it are done.  The types of views, feeds and frames go
with them, for no bound on the frames of a script.

**Log.**  `Fold` is stated by places, not by recursion: the k-th event is the last
written with the id that comes k-th first.  Three lemmas say most of what is needed of
it.  `FoldAppends`: one event more supersedes, which is what the fold in memory and a
client do with it.  `FoldMore`: what folds alike folds alike with the same behind it,
so a client that takes its queue one event at a time, from a view that is its own
fold, ends where a load does.  `FoldOver`: what stands behind may be folded first, so
rewriting the open segment with its own fold changes no answer.  A fourth,
`FoldWithout`, says what shedding does: an event left out leaves the fold of every
other id as it was, in its order.

The invariant adds to what the runs check why it stays so.  `CacheTrue`: a fold is
kept only of a file whose last line is ended.  Without it the property is not
inductive: a fold of a file whose last event has no newline is right until the next
append runs into that event and both are gone.  `Chronology`: what is still to be
written, the torn last line and the cards settle found open, was asked for after what
the file holds of its id, the torn line before the card; and the cards of one settle
have each their own id.  `NothingTorn`: where no append is torn, the file holds what
append answered Ok for.  `ViewsFolded`: what a client holds is its own fold.  For the
`"cuts"` disk `HistoryStays` and `Chronology` promise nothing, as a cut compaction
loses lines (section 4); that the fold in memory is the fold of the file holds there
too.

**Induction over the data.**  The library's induction theorems take an operator as a
parameter, which no backend here instantiates.  What can be had instead is a least
member: `WFMin` with `NatLessThanWellFounded` gives every nonempty set of numbers one
(`LeastNat`), and with it an induction over a set of numbers (`UpTo`).  It serves for
the library's `Min` and `Max`, for what filtering a queue leaves (DmTurns), and for
`FoldMore` and `FoldOver` (Log).  The folds of the community modules stay out of reach,
because their step is an operator too; Log's fold is a function of places instead.

Model-checked only:

* *Liveness* (`Settles`, `SeatSettles`, `NothingHangs`, `StopEnds`, `LinesAreTaken`) and ENABLED: not in
  the prover's reach.
* `SeatedSocket!ClientIsInStep`: what the client will show is a fold over the frames
  that wait.

No module here uses `RECURSIVE`.

## 6. What is not modelled, and the plan

Not modelled at all, because it is I/O, presentation or data conversion: the
drivers' protocols, providers, browsers, MCP and OAuth adapters, search and
previews, imports, image generation, voice's audio, the command line and
installers, the app's windows, the interface (but for the client's fold of its
roster) and the sites.  These, with vendored and generated code, are most of the
repository's lines.

Left out inside the modelled components:

* SessionStart: what an invalidation does to grants.  DmTurns: what is written of a
  turn, asides' contents, checkpoints and glances.  Log: the one-time migrations,
  `sync`, the relocation of a legacy file.
* Exchanges: held files, following up a handoff in its own thread, the choice of a
  thread, questions asked back about a handoff, failed saves, both directions of a
  pair at once.
* LinkedDesks: files and questions back, roster rows after the first, the relay and
  the sealed channel under it, frame budgets, what a request goes through on its own
  desk.
* WorkThreads: steering, the desk's orderly stop, calls, asides and wakes, requests'
  own bookkeeping, the settle after a kill, the choice of the idlest thread.
* Jobs: edits of a job's schedule, asks in a job's thread, the desk's orderly stop.
* Computers: images, folders and limits beyond "something was edited", the health
  probe's retries, the desktop stream.
* ServedDesk: the relay's rate limit, Remote turned off, the desk's own side as
  it stands at a relay but for the sessions it dials, what crosses a joined pair of sockets; a deadline that passes on a socket
  already put out.
* SeatedSocket: pins, the lead, lean rows, the frame size limit, uploads and pairing,
  the threads and schedules views (the roster view's shape with less state), a
  phone's reconnection.

The plan, most important first.

1. **Vault**: the two halves of a credential across a crash (`vault.rs:248`, `:303`);
   replacement.
2. **Exchanges, further**: liveness (an accepted request ends, a reply is heard or
   told), follow-ups, both directions of a pair, an abstract specification (a
   request is accepted, worked, ended, told) that Exchanges implements and
   LinkedDesks extends.
3. **Chapters**: a failure inside `resume_chapter`'s chain of writes (`chapters.rs:693`).
4. **Consent** (a card's own life), **cookie lends** (a copy left in a computer that
   went down, `cookie_lends.rs:496`), a driver turn's retries, the voice ledger.

Abstract specifications worth stating: a *mailbox* (lines told once, in order) for
DmTurns and WorkThreads, an *append-only map* for Log, the request's life for
Exchanges.

Theorems worth proving next: `SeatedSocket!ClientIsInStep`; that the session's lease is the one Capability's epoch hands out (a refinement of
SessionStart's `Valid` to Capability's check).
