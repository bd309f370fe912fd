# Verification of animus-rs

TLA+ models of the animus work engine, its daemon and its LLM client, the TLC runs
that check them on small instances, and TLAPS proofs for every size. The models are
translated from the Rust and SQL sources; paths below are relative to the
repository.

## The system

| Component | State | Operations | What makes it hard | Module |
|---|---|---|---|---|
| Work item life cycle (`src/model/work.rs`) | eight states | `can_transition_to`, `is_terminal` | | `WorkItem` |
| Work store (`src/db/work.rs`, `migrations/`) | table `work_items` with a partial unique index on (faculty, dedup_key) | `submit_work`, `transition_state`, `complete_work`, `fail_work`, `list_work_items` | a submission is a READ COMMITTED transaction of several statements; writers race | `WorkStore`, `WorkShow` |
| Queue (`src/db/pgmq.rs`) | one pgmq message per queued item | read, archive | redelivery after the visibility timeout, which nobody renews; messages that return for ever | `WorkStore`, `PollLoop` |
| Control plane (`src/engine/control.rs`) | `active_foci`, shutdown permit, the item in hand | `run`, `process_work`, `shutdown` | every `await` is a place to be overtaken, to fail or to crash | `ControlPlane`, `PollLoop`, `WorkJson` |
| Focus (`src/engine/focus.rs`) | a directory, `work.json`, output files | `create`, `run`, `cleanup` | hooks are processes of their own | `Focus`, `Daemon`, `WorkJson`, `ControlPlane` |
| Faculty registry (`src/faculty/mod.rs`) | names to hook commands | `load_from_dir`, `get` | duplicates, order of files, edits while they are read | `Daemon` |
| LLM client (`src/llm/openai.rs`) | per call only | `complete`, `complete_stream` | rate limits; streams that end early; a concurrent consumer | `LlmRetry`, `LlmStream`, `LlmWire` |
| SSE parser (`src/llm/sse.rs`) | a buffer | `feed` | chunks cut anywhere | `SseStream` |
| Command line (`src/bin/animus.rs`) | none | submit, list, show, serve, llm complete | the order of its steps; ids printed now and used later | `Animus`, `Daemon`, `WorkShow`, `LlmCommand` |
| Telemetry (`src/telemetry/`), provider table (`src/llm/`) | | only as steps of a command's start | | `Daemon.InitTelemetry`, `LlmCommand.CreateClient` |
| Memory store, configuration, errors, deployment | | | | not modelled |

`main` installs a logger and runs one command. `serve` starts a daemon: telemetry,
database, queue, faculty registry, then a control plane. The CLI submits items: one
transaction stores the row, sends its message and notifies. Each control plane is one
task. Its loop waits for a notification, the poll timer or a shutdown and then awaits
`process_work` inline: read a message, fetch the item, look up its faculty,
`queued -> claimed -> running` by two compare-and-set UPDATEs, run a focus,
`running -> completed` and archive the message, or `running -> failed` and leave it,
then remove the directory. Planes share nothing but the database. The LLM client is used
by the CLI and by hooks; it does not touch the store.

## Modules

    WorkItem <- WorkStore <- ControlPlane <- WorkJson        WorkOnce (abstract)
    PollLoop (one plane, in time)
    Focus <- Daemon \
           WorkShow -- Animus
    LlmWire <- LlmStream \
               LlmRetry  -- LlmCommand                       SseStream

An arrow is EXTENDS. `MC*` modules give the constants values; `*Proofs` and `DataLemmas`
hold theorems.

### `WorkItem`, `WorkStore`

A row is spread over one function per column (`state`, `merged_into`,
`attempts`, `resolved`, `outcome`); `queue[i]` is the item's message
(`none`, `visible`, `hidden`, `archived`). `sub[i]` is the program counter of the
`submit_work` call that drew the uuid `i`:

    idle -> inserting -> inserted -> committed -> created            no active duplicate
            inserting -> conflict -> selected -> committed -> merged  duplicate found
                         conflict -> error                           duplicate resolved meanwhile

An uncommitted row is `sub[i] = "inserted"` with `state[i] = "absent"`. It occupies
its slot of the unique index (`Occupies`), so a second INSERT waits for the
transaction to end, as Postgres makes it wait: `Begin` has sent it, `sub[i]` stays
`inserting`, and neither `InsertRow` nor `InsertConflict` is enabled before the other
transaction commits or rolls back. `SubmissionsAnswered` is about exactly these
submissions: it begins at `inserting`.
`SubmitFails` stands for a failing statement, a rollback, and an error after
COMMIT. `TransitionState`, `CompleteWork` and `FailWork` are single UPDATEs with
their WHERE clause as guard; `InvalidTransition` is the disabled case, which the
planes' `...Miss` actions model. Columns nobody branches on (params, priority,
skill, times) are left out. The final schema is modelled: migration
20260301000001 renames the indexed column to `faculty`.

`StoreSpec` lets arbitrary clients call every operation in every order. It is what
the store promises by itself, without the control plane's discipline.

### `ControlPlane`, `WorkOnce`

`pc[w]` names the next await of plane `w`; each statement, file system call and hook
pipeline is an action, and a plane holds at most one item (`cur[w]`). The second
SELECT of `transition_state` and its siblings is part of `Abandon`: its failure
leaves `process_work` after the UPDATE took effect. `Crash` resets the process (the
counter and the permit with it); `Restart` is `ControlPlane::new` and `run`.
Environment: `MoveItem` lets users of the Db type requeue or cancel items
(`ClientMoves`); no code of the repository does so. `Reappear` is the visibility
timeout at any moment, and `Receive` takes any visible message, since concurrent
`pgmq.read`s skip rows that others hold locked. `MaxFaults` bounds failures of planes
and `MaxAttempts` the requeueing by clients.

`WorkOnce` is the abstract promise of DESIGN.md section 4: per item a phase, the original a
duplicate is attached to, and the set of its executors. The refinement mapping
(`PhaseOf`, `SlotOf`, `ExecutorsOf` in `ControlPlane`) hides claiming, the queue,
counters and directories: queued and claimed are "pending".

### `WorkJson`

`process_work` fetches the row, then claims and starts the item, then writes the copy it
fetched to `work.json`. `WorkJson` conjoins that copy to every action of `ControlPlane`:
`fetched` is the local variable, `work_json` the file. Of the row it keeps the column
that tells a first attempt from a retry, `attempts`; the copy's `state` always says
queued or whatever was there before the claim, which no hook can rely on. `overtaken` is a
history variable: another plane executed the item while this one held its copy.

### `PollLoop`

What `ControlPlane` leaves out: `pgmq.read` returns the lowest visible `msg_id`, and both
`visibility_timeout` and `poll_interval` are durations. There is one plane; time passes in
units (`Tick`); statements take none, and `Tick` waits while the plane has something to do.
`hidden[i]` is the time until message `i` is visible again.

`plane` is the place in `run` and `process_work`, one for each await:

    waiting -> reading -> routing -> claiming -> starting -> creating -> focus
            -> completing -> archiving -> cleanup -> waiting
               failing                 -> cleanup

with the early returns `Skip` (no slot is free: nothing is read), `ReadNothing`, `Unroutable` and
`ClaimMiss`. A `Crash` may come at any place, and at every place but the hooks a statement
may fail, or be carried out and its answer be lost (`Abandon`). What that leaves depends on
where it happens. Between the read and the claim, the item is still queued and its
message hidden for the whole visibility timeout: it comes back and the item is then
executed. After the claim, the item is stranded. When `Focus::create` fails behind the
`fetch_add`, the slot is lost as well (`CreateFocusFails`). `fetch_sub` comes before
the retirement, so an error there costs no slot.

A client chooses when it submits whether the faculty is one the registry knows
(`unroutable`); the hooks' outcome is drawn when they end (`RunFocus`). A message whose
item has failed, was stranded, was completed without being archived or cannot be routed is
`Returning`: each timeout it is visible again, is read (before any higher one), and does
nothing. Notifications may be lost (the listener reconnects without those it missed), may
find another message than their own, and may wake the loop after their item was read; `recv`
may fail, which wakes the loop as well (`ListenerFails`).

Two history variables measure a wait: `idle` is how long the plane has waited while
there was a message it could read of an item to be executed, and `missed` the turns that
errors took of it. Both start afresh when an item is started, when a read finds nothing, and when
nothing to be executed is visible. `IdleIsBounded` bounds the one by the other: the wait
for a message that was dropped between read and claim begins when it is visible
again, after the visibility timeout. `QueuedIsRead` covers that time, too: it is about all
queued items, whether their message is visible or hidden.

### `Focus`, `Daemon`

`Focus` is one `Focus::run` with hooks as external processes that write their output file
in any number of steps, succeed, fail, cannot be started, or leave a child running
that goes on writing. `RunFocus` of `ControlPlane` is its two outcomes. A hook is
assumed to write its own phase's file only, as the repository's hooks do. When a
faculty has no consolidate hook, a missing `engage-out.json` is still reported as a
failure of "consolidate" (`ReadOutcome`); `BlameIsRight` allows for that.

`Daemon` is the way there: `main` and `cmd_serve` step by step with their failures,
`load_from_dir` entry by entry in the order `read_dir` happens to yield, while somebody
edits the directory, and the lookup that gives a focus its faculty. `Launch` tells
whether `main` started the daemon, in which case the process already has a subscriber,
or a program that embeds the library, as the tests do. Since a daemon that
`main` starts always stops in `InitTelemetry` (run `serve`), only embedding programs
reach the registry and the focus; both are in the run `focus`, so that its properties say
something. After `Dispatch` the model follows the one focus and resets the daemons, which
a focus does not look at again; this keeps the product of the two small.

### `WorkShow`, `Animus`

`WorkShow` is `work list` and `work show`. A uuid is a sequence of digits; a list, which is a
set of positions in the order of creation, prints the first eight of each, and `show` compares a
prefix with what would be printed of the newest 100 items. `room` is a history variable: how
many more items may arrive before one that a list has shown leaves those 100.
`Arrive` puts an item anywhere in the order, because `created_at` is taken before an
INSERT that may wait. `Printed` stops at the first row whose skill is cut inside a
character. `Animus` runs one of the two commands, as `main` does.

### `LlmStream`, `LlmWire`, `SseStream`, `LlmRetry`, `LlmCommand`

`LlmWire` has the pure functions between content blocks and the wire, on texts
that are sequences of fragments. `LlmStream` runs the provider, the stream task, the
unbounded channel and the CLI's receive loop side by side, one event per step;
`SseStream` justifies that granularity: chunking does not change the events. It
models bytes, decoding per chunk, and the parser's loop one block per step, and
compares with a reference definition that reads character by character and line by line
(`ReadLines`), where the parser looks for blank lines first. Both are written as recursive
functions and `FlattenSeq`, so that they can be proved about. `LlmRetry` is `complete` with a
clock in seconds and a provider that limits calls for a while.

`LlmCommand` is `animus llm complete` around them: configuration, client, inputs and
prompt, each of which may refuse; then one of the two calls; then `format_output`. In
its texts the fragment `nl` is a line break and `sp` a space, and YAML's block scalars
are written as the code writes them, by hand (`Indent`), and read as YAML's rules say
(`ReadScalar`). The format is drawn when it is looked at, after the answer has come.

## Runs

| Run | Module | Question | Result |
|---|---|---|---|
| `store` | `MCWorkStore` | three submissions for one slot, arbitrary clients, database errors | all invariants and the frozen terminal rows hold |
| `planes` | `MCWorkJson` | two planes, two items, two failures of any kind, one unregistered faculty, clients that retry and requeue | all invariants hold, `work.json` counts the attempts, and the system implements `WorkOnce` |
| `rescue` | `MCControlPlane` | a client that also cancels items and declares running ones failed, behind the planes' backs | `active_foci` stays within its limit, the planes use the store as its clients may (`StoreBehaviour`), and only that client takes up what is stranded or failed (`StrandedStays`) |
| `live` | `MCControlPlane` | statements of submissions may fail, planes do not, hooks succeed; one plane may be shut down at any time | submissions are answered, those whose INSERT waits included, every queued item ends completed and archived, the plane stops |
| `poll` | `MCPollLoop` | three items of any kind, hooks shorter and longer than the timeout, lost notifications, one crash or error at any await | while the returning messages fit into the visibility timeout and a slot is free, waiting is bounded and every item is claimed |
| `focus` | `MCAnimus` | two daemons that start while two files are edited, every faculty shape, an engage hook with a child; lists and prefixes | results are deserved, registries agree, every focus ends, a printed id finds its item |
| `complete` | `MCLlmCommand` | four messages (two tool calls, one without arguments; cut-off arguments; text only; indented lines), streams that are refused, truncated, broken or hold an event that is not JSON; limits of 0 to 20 seconds; four formats | requests bounded and never repeated once carried out, shown in order, replayed alike, printed so that it reads back, and the command ends |
| `sse` | `MCSseStream` | all bodies of up to six units, two-byte characters among them, and all ways to cut them | same events as the reference, except that a character a cut goes through becomes two replacement characters |
| `unresolved` | `MCControlPlane` | does every item end completed, retried or dead? | no: a failed item, or one whose focus cannot be created, is never taken up again |
| `refused` | `MCControlPlane` | are duplicates always merged? | no: refused if the original completes between two statements |
| `truncated` | `MCLlmStream` | is what was streamed in the returned response? | no, when the body ends without `[DONE]` |
| `serve` | `MCAnimus` | does `serve` replace the logger of `main`? | no: `try_init` refuses, and `animus serve` exits before it connects |

The last four are disagreements between the code and its documents or comments;
PROJECT.json quotes both sides. Each of these runs checks only that property. What
they and the others show goes further than the failure they use:

* `unresolved` stands for two findings. A failed item keeps its message "for retry", but
  the claim is `queued -> claimed` and never matches again. And when `Focus::create` fails
  (control.rs:197), the item stays running, and `active_foci` stays raised:
  `ActiveCountsFoci` allows one such slot per failure, and after `max_concurrent` of them
  the plane takes no work at all. A crash, or a lost database answer, between the claim and
  `complete_work` or `fail_work` strands an item in the same way. `StrandedStays`, proved,
  says that nothing in the engine ever helps.
* `poll` shows the price: each of these messages comes back every timeout and is read before
  all higher ones. While their number, and that of the turns lost to errors, times
  `poll_interval` is less than `visibility_timeout` (fewer than 12, with the defaults of 60 and
  5 seconds) and a slot is free, the plane reads everything else in bounded time; at the limit
  (the second timing of `MCPollLoop`) the premise `Fits` fails, and a plane without
  notifications can read the same messages for ever. And a plane that failures of
  `Focus::create` have left without a slot reads nothing: `HasSlot` is a premise because
  without it both properties are false.
* `sse` passes with an exception written into `EventsFollowBytes`: chunks are decoded one
  by one with `from_utf8_lossy` (openai.rs:163), so a multi-byte character that two chunks
  share reaches the caller as replacement characters. Nothing else is affected:
  the property compares all events with both bytes of such a character written as
  `bad`, so no event is lost, split or otherwise altered.
* `PlanesAgree` assumes that no name is defined twice. Without that, TLC finds two daemons
  that read one directory in different orders and disagree, without a warning.
* `ShowFinds` is about the eight digits that are printed. A longer prefix of a uuid (9 to 35
  digits) matches nothing, as it is compared with those eight digits, although the
  command's help says "full UUID or prefix" (animus.rs:82). A skill name that is cut
  inside a character panics `work list` (animus.rs:319).
* `AnswerIsPrinted` leaves out an answer whose first line is itself indented: its YAML is
  read wrongly or not at all. An unknown `--format` is noticed after the answer was paid for,
  and the answer is lost.

**Bounds.** Races in the store need an item that holds the slot, one that conflicts and
one that takes the slot when it becomes free: three submissions. In the planes
two items (one of which may be a duplicate of the other, or unroutable) and
two planes give every pairwise race; with `MaxAttempts = 2` an item can fail, be
requeued and run again; two failures let a failure strike during the recovery from
another. `rescue` has one failure and two items of one slot, which is what makes a leaked
slot meet more work. `MaxConcurrent = 1` is the least at which capacity binds: a plane
awaits `process_work` inline, so it never runs more than one focus whatever the
limit, and greater limits only delay the effect of leaked slots. Uuids, planes and
(where no property names them) items are symmetric; symmetry is not used in runs with
liveness. In `poll`, three messages and the timings (3, 1) and (4, 2) put two returning
messages just below and exactly at the limit; hooks of 1 and 5 units end before and after their
message reappears. One fault is one crash or one error at any of the places, before or behind any
statement; the invariants were also checked with two faults and two slots (not a run of their
own for their size), and are proved for any number of both. Two files and two edits in `focus` are enough for a duplicate, for an
edit before and one behind the loader, and for directories that change during two
loads; two of the four uuids print alike, and a window of two items is
outgrown. The messages of `complete` have each kind of block and two tool calls, so that
flushing one call by the next and by `[DONE]` both happen; `Width = MaxRetries = 3` is the
boundary at which the power still fits (the code's integer has 64 bits).

**Deadlock** is checked in `poll`, where time always passes. Elsewhere the system may
stop, as the program does: clients stop submitting, failures strand items, planes are shut
down, daemons exit, commands return.

**Fairness.** In the store, a submission that has begun continues: each statement
returns, and an INSERT that waits goes on once the transaction that holds its slot has
ended. That is weak fairness of `SubmitStep`, which promises nothing while the INSERT cannot go
on; that it always can in the end is what `SubmissionsAnswered` checks (transactions that also
wait for each other violate it). In `FairSpec` of `ControlPlane` the clock runs (`Reappear`), the poll timer
wakes a waiting plane, statements return, hooks end (the code has no timeout for
them, so this is an assumption about faculties, made in every liveness property that
involves a focus), a crashed process is started again, and `Stop` is strongly fair:
`tokio::select!` polls its branches in random order, and `notify_one` keeps its permit.
`ControlPlane` does not know the queue's order, so nothing there promises that a plane
reads one particular message rather than another: once hooks may fail, a failed item whose
message keeps returning can keep a plane from the next one, so `live` assumes that hooks
succeed; what holds without that assumption is `QueuedIsRead` of `PollLoop`. `FairSpec` of `PollLoop` is
weak fairness of `PlaneStep`, the plane's steps and time together never stop, and strong
fairness of `Notified \/ Tick`: a `recv` that fails again and again (which the model, unlike the
wall clock, allows at one moment for ever) holds up neither notifications nor time.
`AnimusFairSpec` asks only that hooks end and the task that awaits them goes on;
children and edits are never forced. `CommandSpec` asks that the command and its task are scheduled, that a
limit passes, and that the provider answers, keeps sending or ends the body, since the HTTP
client sets no timeout. No failure, client move or submission is ever assumed to happen.

## Proofs

For every value of the constants, checked by TLAPS:

* `ControlPlaneProofs`, the store: `StoreTypeOK`, `DedupUnique`, `MergedIntoOriginal`,
  `ResolvedIffTerminal` and `TerminalRowsFrozen` from `StoreBehaviour` (no fairness
  needed). The strengthening `StoreInv` adds `SubmissionInv`: before its COMMIT a
  submission has no visible row, its selected canonical item is an original of its
  slot (and originals never become duplicates, as `created -> merged` is the only
  way there), and exactly the originals have been queued.
* `ControlPlaneProofs`, the planes: `PlanesUseStore` shows that every step of the planes is a
  step of the store or leaves it alone, so the store's theorems carry over.
  `NothingLost` needs that a plane about to archive holds a completed item.
  `AtMostOneFocus` and `FocusOwnsItem` rest on `OwnershipInv`: a plane that has
  claimed an item owns it until it retires it. They hold under
  `RunningLeftAlone`: no client moves an item to or from running behind the plane's back,
  which is true of the repository. `ActiveCountsFoci` and `OneDirPerFault` count failures.
  `EngineKeepsPromise` is the refinement of `WorkOnce`, action by action, again under
  `RunningLeftAlone`. `TypeOK` needs all of it, since directories are counted down.
  `OnlyClientsRescue` (`StrandedStays`) needs no proviso: a plane's UPDATEs
  that match an item are the claim, which needs it queued, and those of a plane that
  is starting or executing it, so that it is not stranded.
* `FailureProofs`: `OutcomeTellsAttempts` under `RunningLeftAlone`; an item that runs or waits for a retry
  carries the error of its last attempt or nothing (`OutcomeInv`).
  `OneItemPerFault` under `RunningLeftAlone` and `ClaimsLeftAlone` (clients do not claim). It is not
  inductive: an item may count as stranded only when the last of several planes that
  claimed it gives up, long after the failure that caused it. `DoomedInv` therefore counts items as soon as no
  plane can bring them further, which happens at the failure itself.
  `JsonIsControlPlane` (the variables that `WorkJson` adds constrain nothing), and
  `JsonTellsAttempts` under `NoClientStarts`: `JsonInv` follows the copy through the
  claim; it equals the attempts until the plane's own start, and one less after, unless
  another plane executed the item.
* `PollLoopProofs`: `IdleIsBounded`, for any number of messages, any timing and any number of
  crashes and errors. The inductive invariant is `LoopSafe`. Its part `InHand` says what the item in hand is
  at each place: until the claim its message was read at this very moment (statements
  take no time), a plane that starts an item has claimed it, and one that executes an item
  keeps it running and holds a slot. `WaitInv`
  counts `Read`, the returning messages read since the wait began that are still hidden:
  the wait, with the time until the next turn (`Due`), is no longer than their number, the turns lost to
  errors (`missed`) and one more allow, and for each of them the time since it was read is
  covered by those read after it (`ReadSince`) and the lost turns. So if one of them became visible again,
  those read since would fill the visibility timeout, which `Fits` excludes; hence no message
  is counted twice. A turn adds to `Read` (an item that cannot be processed), to `missed` (an error), or ends the
  wait (the item is started, or nothing was visible). `PollTypeOK` needs, besides,
  that there is at most one notification for each item that was submitted (`CounterInv`).
* `DaemonProofs`: `AllHooksSucceeded`, `OutcomeIsLastWord` and `BlameIsRight`, first from `Focus` and then of the
  binary (`AnimusSpec`), where the phase list comes out of a registry. `FocusInv` is types,
  `HookInv` (a phase is to come, runs or has ended, and one that ended badly has ended the
  focus), `PathInv` (only a child writes after the choice of the outcome file) and
  `ResultInv`. `PlanesAgree` follows from `RegistryInv`: while the directory stays as it
  was, the registry holds exactly what the entries that were read define.
  `ShowFinds` rests on `ShownInv`: an item with `room[u]` places left stands at least that
  far above the end of the window; an arrival moves it down by one at most and takes one place. `AnimusTypeOK`
  puts the parts together.
* `LlmRetryProofs`: `ServedOnce` and `RetriesCounted`, from an invariant that ties the
  number of requests to `retries` and the point of the call. `OutlastsLimit` adds the clock:
  before the request of retry `n` at least `LeastWait[n]` seconds have passed (`WaitInv`), which
  is an induction over the powers of two and over the sum.
* `LlmCommandProofs`: the stream first. `StreamInv` says that nothing between the provider and
  the caller is lost: there are three positions in the message, of the provider, of the stream
  task and of the viewer, each with what it has produced so far (`Server`, `Reader`, `Viewer`),
  and the events in the network and in the channel are the steps that lead from each to the next (`Walk`).
  `ShownInOrder` and `NextRequestIsSame` follow: a viewer that has joined a task that
  ended well stands at the end, and there the blocks collected differ from those of the same answer
  in one piece only in an order that `BuildMessages` does not look at. `CommandStreams` and
  `CommandRetries` show that the command's steps are steps of `LlmStream` and of `LlmRetry`
  or leave their variables alone, and carry all of it over to `animus llm complete`.
  `AnswerIsPrinted` is proved for answers of any length and shape. `CommandStages` says what each
  point of the command implies: no request before the inputs are in, a received answer from
  then on, and at the end the document that `format_output` makes of it. The answer itself is
  the provider's message, by `InvShownInOrder` for a stream and by `JoinedBlocks` for the
  blocks of an answer in one piece. That the document reads back is a fact about texts: `Lines` is a scanner,
  and what it has taken retells the text at every step (`TakenRetells`), so that the lines joined
  again are the text but for a break at its end (`JoinedLines`), which does not count
  (`ClippedLines`); and unless its first line is indented, the depth that YAML infers from a scalar is
  the two spaces of `Indent`, also when all its lines are empty (`ScalarIsRead`).
* `SseStreamProofs`: `EventsFollowBytes`, for bodies of any length. `SseInv` says at every step
  that going on to read the buffer after the events returned so far gives what
  reading all that has arrived gives. Cutting a block keeps it because the reference reads
  a block as `ParseBlock` does and starts afresh after its blank line (`BlockRead`); a chunk keeps it because
  decoding distributes over a cut that goes through no character. For one that does, the same is
  shown of the texts in which all two-byte characters are broken (`BrokenRead`, `RawIsBroken`).
* `DataLemmas`: induction and recursion, over numbers and sequences, in a form that the provers can
  use. The library states them for operators; here they speak of sets
  and functions, so that recursive functions and `FlattenSeq` unfold and properties of
  them are proved by `Induction` over the set of the lengths for which they hold. Mapping
  and joining with a separator (`MapAfter`, `GluedAfter`) serve both the data lines of an event
  and the lines of an answer.

Assumptions on constants are the named `ASSUME`s of the modules: identifiers are distinct
from the null value, requests are built from faculties and keys, `Planes`, `Items` are finite,
client moves are transitions of the life cycle that leave `created` alone, definitions are
told apart from what is none, uuids are of one length, bodies are sequences of bytes, and messages are made of texts
and tool calls that have ids (`MessagesAssumption`). The provisos above are hypotheses of the theorems that need them;
the repository, in which no code moves an item but the planes, meets all of them.

Only model-checked: liveness (`SubmissionsAnswered`, `QueuedIsRetired`, `ShutdownStops`,
`QueuedIsRead`, `FocusEnds`, `CommandExits`), which rests on fairness and so needs ENABLED. Every
invariant and every action property that a passing run checks is also a theorem.

## Not modelled

* The memory store: one INSERT and two SELECTs, whose substance is ranking inside Postgres.
* Reading the configuration (environment variables with defaults), the parsing of arguments, the
  columns of the output and the texts put into a prompt.
* `send_to_queue` and `delete_message` have no caller in the engine; `create_queue` runs once at start.
* Shutdown, a second plane and clients that move items in `PollLoop`: `ControlPlane` has them.
* Carriage returns. `str::lines` strips that of a `\r\n`, and a YAML reader takes one that stands
  alone for a line break; the answers of `LlmCommand` have none. The SSE parser looks for `\n\n`
  only, so it finds no event in a body whose lines end in `\r\n`; those of `SseStream` end in `\n`.
* Spans, counters and exporters: without effect on the program's state.
* A duplicate merged into an item that completes just before the merge commits: the
  link is right, the duplicate is not executed. The code accepts this.
* `recover` hooks and `max_attempts`: configured, never used by the code.
* Several processes each have their own `max_concurrent`; no global limit exists.
* A hook that never exits: the plane's only task waits for it, as the code has no timeout.

## Plan

Modelled and proved as above. What is left:

1. `LlmStream` with providers that repeat ids or interleave tool calls by index.
2. Two planes in `PollLoop`, which read disjoint messages and so share the returning ones.
