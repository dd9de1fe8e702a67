# Verification of alice-engine

alice-engine runs AI agents ("instances"). Each instance is one asynchronous task that beats: it
reads its messages, builds a prompt from its memory, asks a language model, and executes the actions
the model writes. Beside the instances run the web api, the background tasks an instance spawns
(rolling its memory, capturing knowledge) and, when several engines are linked, a hub.

These modules model the parts of the engine in `src/engine/src` whose correctness depends on the
order of steps, on what fails and on what a restart finds. TLC checks them on small instances; TLAPS
proves the most important results for every value of the constants. `PROJECT.json` gives, for every
definition, the lines of source it stands for.

## 1. Inventory

Paths are below `src/engine/src/` unless they begin with `mad-hatter` (below
`src/mad-hatter/mad-hatter/src/`).

| Component | Source | State it keeps | Operations |
|---|---|---|---|
| memory store | `persist/memory.rs` | action_log and its cursor, session_blocks, history_store, knowledge_store, the file `.last_rolled` | insert and complete rows, render current, commit_summary, commit_history, distill, write_knowledge |
| history roll | `core/mod.rs`, `engine/mod.rs` | a task with the block and the compressed text, the flag rolling_in_progress | prepare_roll, execute_roll_task, commit_history |
| instance thread | `engine/mod.rs` | idle timeout and elapsed polls, consecutive beats, beat count | sleep, wake, cool down, stop at the limit, back off, beat, reload settings |
| beat | `core/mod.rs` | last_was_idle, Transaction, SequenceGuard, backoff | auto-read, infer, guard and execute actions, end |
| signals | `core/signal.rs` | interrupt flag, EngineStatus | register, set, check |
| streamed inference | `mad-hatter/llm.rs` | the buffer and the rest of the stream | next: cancel, wait, yield an element, fail |
| actions | `action/execute.rs` | none of its own | idle, read_msg, send_msg, summary, script, files, profile, create_instance, forget |
| inbox and chat | `persist/chat.rs` | the messages table | write, count unread, select and mark, replies |
| channels | `core/mod.rs`, `external/llm` | the channel list and index, failures | rotate, back off, hot reload |
| knowledge capture | `core/mod.rs`, `inference/capture.rs` | a task with the knowledge it read | prepare_capture, execute, write |
| lifecycle | `engine/mod.rs`, `persist/instance.rs` | directories, threads, signals, connection caches | create, hot scan, cold clean, open, delete |
| settings | `persist/settings.rs`, `persist/mod.rs` | settings.json | load, merge, save, hot reload |
| hub | `hub/*.rs` | mode, table of slaves, connection, reconnect task | enable, disable, join, leave, reconnect, relay |
| tunnel | `mad-hatter/tunnel.rs` | pending calls, the reader loop | call with a timeout, dispatch, answer |
| relay | `service/extension.rs`, `hub/*.rs` | none of its own | fetch_contacts, relay_message, proxy a request |
| shell | `external/shell.rs`, `action/execute.rs` | pipes, a child process | exec_in_dir, script, write_file, replace_in_file |
| parsers | `mad-hatter-macros/src/llm.rs` (beside `mad-hatter`) | none | from_markdown, dispatch |
| page | `html-frontend/index.html` (at the root) | messages, ids and requests of each chat | load, scroll, poll, send, switch |
| legacy migration | `legacy/migrate.rs` | old files and new tables | import, rename |

**Interactions.** The instance thread calls the beat; the beat calls the memory, the chat and the
stream, and spawns roll and capture tasks, which tell their outcome by a system message in the inbox
and therefore wake the instance. Web handlers write messages, settings and the interrupt flag at any
time. Relays of other instances insert messages. Nothing is protected by a transaction: the databases
give atomic statements on pooled connections, the rest is the order of calls.

**What is hard.** Tasks that outlive what they read (rolls, captures, reconnects); several statements
that belong together and any of which may fail, with the error often dropped (`.ok()`,
`unwrap_or_default()`); a process that may be killed between any two statements; a thread that ends
and is spawned again with its locals reset; an interrupt flag looked at in three places; messages
that arrive in every state of the loop.

**What makes each part correct.**

- memory: a row of the log, once recorded, is told by every later prompt: as itself, by a session
  block or by the history; a block is dropped only after the history speaks of it.
- loop and beat: a message is read in the end and its reader is awake to answer; nothing is executed
  after the model put the instance to sleep; a refused send is reported before it sleeps; an interrupt
  does not linger; a timed idle ends, not early; the status is honest; the limits hold.
- inbox: no message is marked read without reaching a prompt; none is shown twice; none is summarised
  away before the model saw it.
- capture: what a capture adds is not lost to another that read the same knowledge.
- lifecycle: at most one thread per instance; a deleted instance stays deleted.
- settings: no update is lost; a reload never sees half a file.
- hub: the table of a host names the engine once, by a connection somebody serves; a joined engine is
  linked again after a loss it hears of; after leaving nothing reconnects.
- tunnel: each call ends, and its caller is told what became of it; readers wait for one another only
  where two handlers call each other.
- migration: every file is imported, and once, wherever it is killed.
- stream: however an answer is cut into chunks, it means the same.
- chat page: no message is missing between those shown, none is shown twice.
- shell: what an action reports is what the script did to output and file; a replacement leaves the
  rest of the file alone; every action ends.

`PROJECT.json` lists the hazards at their lines, with the properties that watch them or the reason
why none does.

## 2. Modules

| Module | Models | Composed with |
|---|---|---|
| `AgentMemory` | abstract: a row moves from current to session to history and is never lost | instantiated by `Memory` |
| `Memory` | the memory store, the summary action and the roll task | `MCMemory` adds the symmetry of tasks |
| `Attention` | abstract: a message is kept until it is attended to, and its reader is then awake | instantiated by `InstanceThread` |
| `InstanceThread` | the loop, the beat, the sequence guard, the stream, the interrupt, the world around | |
| `Inbox` | messages from the table through read_msg and the log to a prompt | shares its protocol with the two above |
| `HubLink` | the mode of an engine, the link of a slave with its reconnecting task, the table of the host | both ends in one module |
| `Relay` | calls over the links of `HubLink`: contacts, relayed messages, proxied requests, timeouts | host and slaves in one module |
| `Lifecycle` | directories, caches and threads of instances: create, open, list, delete, hot scan | |
| `Settings` | the two settings documents, their writers, the reload of the thread and its rotation of channels | |
| `AnswerText` | pure: the lines of a text, the generated parser of one element, what a whole answer means | extended by `StreamInfer` |
| `StreamInfer` | the incremental reader of an answer that arrives in chunks | `MCStreamInfer` names words and openings |
| `Legacy` | the migration of old files beside a first history, summaries and captures | |
| `Chat` | the table of messages, its pool of connections, and the page that shows a chat, with every request it does not cancel | |
| `Shell` | bash, its pipes and limits, and the three actions that use it | `MCShell` names the files |
| `MemoryProofs`, `LifecycleProofs`, `SettingsProofs`, `ShellProofs`, `LegacyProofs` | theorems | each EXTENDS its module |
| `InstanceThreadProofs`, `MessageProofs`, `HubProofs` | theorems | each EXTENDS two: `InstanceThread` and `StreamInfer`, `Inbox` and `Chat`, `HubLink` and `Relay` |

Two conventions hold throughout. An action is what the code does between two points where somebody
else may come in: one database statement, one file operation, one message, one turn of a loop.
`Faults` names the faults a run allows; where a fault breaks a property by the way the code is made,
a history variable (`struck`, `raced`, `broken`, `misled`, `touched`, ...) remembers precisely
where it struck, and the property excepts precisely that. Each such exception is listed in section 5.

A definition whose name begins a comment "Mutant:" is not used by any specification: put in the place
of the definition it stands before, it must break a property.

### Memory

A row of action_log is a number; a summary's text and the history are the sets of rows they speak of.
This takes the model's texts at their word: a summary speaks of all of current, a compression of all
it was given. Each action is one statement against the database or the marker file:

| Actions | Code |
|---|---|
| `InsertRow` | insert_action_log, insert_done_note |
| `BeginSummary`, `InsertEntry`, `InsertEntryFails`, `AdvanceCursor`, `AdvanceCursorFails` | execute_summary, commit_summary, advance_cursor |
| `DropResidual`, `ClearResidual`, `PickOldest`, `SpawnRoll`, `AbandonRoll` | prepare_roll |
| `LlmFails`, `SetMarker`, `WriteHistory(Fails)`, `DeleteBlock(Fails)`, `ClearMarker` | execute_roll_task, commit_history |
| `Crash`, `Respawn` | the process is killed; the thread is replaced while a task runs on |

`Faults` switches on the faults that break the promise: `window` (an error or crash between marker and
history write), `read` (read_history fails and answers with an empty text), `respawn` (a task outlives
its thread). All other failures and crashes are always possible. A block's name is a local timestamp;
the model lets it be any name not used before, so also smaller than an older one. `BlocksLimit` is the
least session_blocks_limit the instance is ever given (settings are reloaded at every turn of the loop). With
a limit of 1 the block that summaries are appended to may itself be rolled, and an entry added while
the model compresses is deleted with it. The theorems therefore assume a limit of at least 2. Rows of
distill actions, which prompts do not show, are not counted.

### InstanceThread

`pc` follows the loop (`top`, `asleep`, `gate`, `beat`) and the inference (`open`, `stream`, `recv`,
`item`, `exec`, `after`, `failed`). The gates are checked in the order of the code: valve, beat limit,
backoff. Whether the inbox holds an unread message is one bit. The model writes any sequence of the
kinds of action the guard tells apart, or a broken answer, up to `MaxChunks` chunks. A send is done, is
refused (no such recipient, or the relay failed: the transaction is marked, `cancelIdle`), or is lost
because its own row cannot be written: execute.rs:144-149 and 211-215 return before the mark. `unsaid`
remembers which. `backoff` says
whether the back-off time is still in the future; its length is left out. `Faults`: the engine
`crash`es, `settings.json` does not load, the message `store` fails.

### Inbox

`status` is read_status of each message; a row of the log is the set of messages its output shows;
`told` remembers what some prompt has shown. read_msg is `Select`, `Mark` and `Complete`, with the row
inserted before, and any of them may fail. `Faults`: a message inserted between select and update
(`race`), the log failing (`store`), the thread dying with messages marked and not yet in the log
(`halfway`), or anywhere else (`restart`). `struck` remembers which have struck, so that each property
names precisely the faults it does not survive.

### HubLink

One engine that joins, and its host. A slave is a `SlaveState` with the call that made it (`call`) and
the background task that reconnects it (`task`); `sender` and `reader` are the two halves of its
connection. A connection has a wire, which may be `lost` (closed or reset, which each end finds out in
time) or `silent` (the peer vanished without a word, which only an end that writes ever finds out), the
messages under way from slave to host, and a handler at the host. `held` is the id a handler registered, `conns`
the table. Finished slaves and connections are used again, so behaviours do not end at a bound.

| Actions | Code |
|---|---|
| `EnableHost`, `DisableHost`, `BeginJoin`, `JoinDecides`, `BeginLeave`, `Notify` | the operations of HubState; join_host looks at the mode twice, leave_host releases it before it disconnects |
| `JoinConnects`, `JoinGreets`, `JoinFails`, `JoinGreetFails`, `Disconnect` | establish_connection, connect, disconnect |
| `LoopEnds`, `GiveUp`, `Redial`, `RedialConnects`, `RedialFails`, `Greet`, `GreetJams` | the spawned task of connect; `GreetJams` is the second lock of slave.rs:275 |
| `TakeRegister`, `Update`, `HeartbeatFails`, `NeverRegistered`, `CleanUp`, `OrphanEnds` | handle_slave_connection |
| `HostEnables`, `HostDisables`, `HostRestarts`, `EngineRestarts`, `Drop`, `FallSilent` | the host's mode, the processes, the network |

Register messages carry no list of instances here. The host sees no other engine. `robbed` remembers
connections whose entry the handler of another connection removed.

### Relay

`Relay` has its own specification (`RelaySpec`), in names that do not meet those of `HubLink`: `Joined` are
the slaves, `sent` says for each send where it is, who waits for it and what he was told, a `Packet` is what
a link carries, and `works` says whether its wire does. Each side of a tunnel has one reader that handles a
request on the spot; while the handler waits, `busy` at the host and `working` at a slave, nothing else is
read. A message is an instance's `send_msg` (`contacts`, then `relay`) or a request of a browser the host
hands on (`http`). `up` and `down` are the two directions of a link, `age` counts ticks of ten seconds
against the limits of the host (10 s) and of a slave (30 s). Handling takes no time: `Tick` waits until no
reader can go on. Connections break (`Cut`), which each end notices later; the reader drains what had
arrived, tells whoever waits, and the link comes back.

### Lifecycle

The runtime has a single thread; creating, deleting, the scan and the turns of the instance threads
take turns on it (`loop`). Requests run on the pool of spawn_blocking (`req`) and come in between any
two statements. `gen` counts how often a directory was made, so that a handle on the databases of a
directory that was moved to the trash is told from one on its successor. `deleted`, `raced` and
`broken` are history: what somebody deleted, which of these a request had found just before, and whose
settings.json was torn by two writers or a crash.

### Settings

One field stands for each way the thread treats a field: a limit, `privileged`, the channel list, and
`host` for what is taken when the thread begins and by no reload after that (engine/mod.rs:177-178,
210-217): the address, the notes on the shell, max_beats.
Writers load, merge, open and truncate, then fill; nothing locks. Two that fill at once may mix, so
the file may be torn for good. `acked` is what the answers given so far promise: an update that had
loaded before another was written is `stale` and takes that one back. The thread merges at its spawn
and at every turn, and `index` is the counter of its channels, which `Select`, failures and a respawn
move; `tried` are the channels used since the list or the selection changed.

### AnswerText and StreamInfer

A text is a sequence of words, each with or without a newline. `AnswerText` defines the lines of a
text, what the generated `from_markdown` makes of an element of a variant with a required and an
optional field, and `Meaning(text, closed)`, the reference: the elements and the first error a text
stands for by its schema. `StreamInfer` is `next()` with one action per branch of its loop. A chunk is
one or several words and may end inside the opening tag of thinking. `Clean` says which texts the
property is about; what it leaves out depends on where chunks are cut and is listed in section 5.

### Legacy

A text is the set of facts it states. Every opener walks through the steps of `migrate_all` with its
own program counter, the engine then gives an instance without history its first one, runs it, and
every summary starts a capture that rewrites the knowledge. `misled` holds those whose picture of the
database is wrong, because a read failed or somebody wrote since; `clobbered` the tables one of them
wrote to.

### Chat

A message is its id. `data` is what the page keeps of a chat (`msgs`, `earliestId`, `lastMsgId`,
`fullyLoaded`); `msgs` is a bag of entries, since the page appends without looking, and where on the
page an entry stands is left out. An entry remembers by whom it came. `last_insert_rowid` is answered by
either of two pooled connections.

The page cancels nothing. `switchInstance` is also called for the instance on display (a click in the
list, "Retry"), and the guards behind each `await` compare names, so whatever was asked before comes
in: `load` stands for any number of loads under way, `more` counts the requests for what is before each
message, `poll` is the one poll isPolling lets through. A poll is `stale` when `data` was replaced since
it was asked, so that what it brings goes to the object that was dropped (`known` are the ids there) and
to the display, where it is `stray`; it is `old` when another chain of timers was started since, whose
timer its end clears. Of the other instances only the ends of their requests are kept, which act on this
page: `LoadElsewhereEnds`, `LateScrollEnds`, `PollElsewhere`, `TakeSentForeign`. `lost` are the ids the
page has passed without having them, `crossed` says that two requests for older messages were under way
for one `data`.

| Actions | Code |
|---|---|
| `OthersWrite`, `InsertMessage` | insert_message, by agents and by send_message |
| `SwitchInstance`, `LoadHistory`, `LoadFails`, `LoadRejected` | switchInstance and the ways loadHistory ends: an answer, an error of the engine or 502 and 504, a request that is rejected and ends switchInstance with it |
| `Scroll`, `LoadMoreHistory`, `MoreFails`, `MoreRejected` | loadMoreHistory and its three ends |
| `PollReplies`, `GetReplies`, `TakeReplies`, `TakeRepliesLate`, `PollBringsNothing`, `PollingStops` | schedulePollReplies, pollReplies, get_replies_after |
| `SendMessage`, `TakeSent`, `SendEndsElsewhere`, `TakeSentForeign` | sendMessage |

The welcome page is left out: it creates an instance and pushes its first message without an id
(index.html:1515-1540), as `Push` does with an answer of 0.

### Shell

`phase` follows `exec_in_dir`: feed the script, read the output up to the limit, read the errors,
wait. bash takes a command from its pipe, runs it, hangs, speaks, warns, or writes the file; `Cat` and
`Put` are the two scripts `replace_in_file` runs under `su`. The three pipes hold `Pipe` units. The
limit of time begins with the reading and kills the shell, not what it started: `left` is what goes
on, and `holds` whether it keeps the output open.

A file is a sequence of units: those of a text, newlines, bytes that are not UTF-8 (`Raw`) and NUL
bytes. What the engine reads is `Decoded`, as from_utf8_lossy does (shell.rs:273): the mark stands for
what is not text. What bash reads is `Kept`, without NUL bytes. Under `su -` a login shell may print or
complain before it takes a command; the modes say which.

## 3. Runs

| Run | Shows |
|---|---|
| `Memory` | summaries and roll tasks interleaved under every fault: until a fault strikes where the code cannot tell, no row is forgotten, the history is an unbroken beginning of the log, no block is dropped unrolled and the store implements `AgentMemory`; a summary by itself loses nothing in any case |
| `Thread` | loop and beat under every fault, with a beat limit: an instance does not fall asleep in an inference in which a send was refused; a timed idle does not end early |
| `ThreadLive` | the loop implements `Attention`: every message is read by an instance that is then awake; interrupts are consumed |
| `Inbox` | which faults can lose a message, and that no other can; none is shown twice; none is summarised unseen; all arrive |
| `HubLink` | joins that overlap and tasks that outlive their mode: the host lists the engine once, by a connection that is served; a joined engine that hears of a loss is linked again; only a refused join leaves a task nobody can stop; leaving is final, each with the exceptions its property names |
| `Relay` | senders are told the truth unless time passed or a connection broke; with working connections calls wait only for readers that wait for one another; every send ends |
| `Lifecycle` | requests that open while the loop deletes, crashes, panics: deleted instances stay deleted, caches are on what is there, every valid instance runs |
| `Settings` | overlapping writers, torn files, restarts: updates survive, the thread works with merged settings, but for what is fixed at its spawn; n failures in a row use n + 1 channels, or all |
| `Stream` | however a clean answer is cut into chunks, next() returns what the text means, and its loop ends |
| `Legacy` | whatever fails or is killed during a migration, nothing is lost or imported beside itself; knowledge is not unlearned |
| `Chat` | with every answer late, refused or in error and the instance switched at any time: the page has no gap but the ids it is known to give up, nothing twice unless two scroll requests met, and all messages come as long as it polls |
| `Shell` | what actions report is what happened to output and file; every action ends, or is wedged in its own pipes |

**Bounds.** Every bound is a CONSTANT with the comment "bound". They are enough in this sense: each
property fails under a plausible mutation of the code within them (`PROJECT.json`, "mutants"), and every
action is taken.

- `Memory`: 3 rows are three summaries, which fill two blocks and start a roll while a third is begun;
  two tasks are one that outlives its thread and one of the new thread.
- `Thread`: a valve of 2 trips after two beats, the limit of 5 is reached both with and without
  cooldowns in between, 3 chunks allow a failed send followed by an idle followed by anything, and
  timeouts 0 and 2 are a timer that rings at the first poll and one that counts. Counters saturate at
  `CountCap`, which no limit of the run exceeds.
- `Inbox`: 2 messages suffice for one to race, be lost or be shown apart from the other; 4 rows allow
  failed reads before and after.
- `HubLink`: one record of a slave at a time, used again by the next join; two connections are an old
  one the host has not given up and the one that replaces it; two ids are the change of the first
  instance; two messages under way are a heartbeat behind a register.
- `Relay`: two slaves and two sends are two handlers at the host that call each other, and one that
  calls its own slave; one cut falls anywhere.
- `Lifecycle`: one instance, since instances share nothing but the loop; two requests race with each
  other and with a deletion; three generations are a directory, its resurrection and the next.
- `Settings`: two requests and the thread are three writers; three updates are one overtaken by two;
  three failures go once around the longest list.
- `Stream`: an opening and up to five words more reach through thinking and a separator into the second
  element.
- `Legacy`: two session files, so that a fault falls between them; one request beside the engine; two
  captures; two faults.
- `Chat`: two messages with pages and polls of one, so that every page and poll is full and one message
  is older than the page or newer; two requests for the same older message are one of before a switch
  and one of after it. Loads are without a bound.
- `Shell`: pipes of one unit, an output limit of three, scripts of up to three commands; the files of
  `MCShell` have none, one or two matches, bytes that are not text and NUL bytes before and behind
  them, and lengths up to one, at, one and two above the limit.

**Deadlock** is checked except where the system really stops: in `Relay` when all sends are done, in
`Stream` when the answer has ended, in `Shell` in the wedged state.

**Fairness.** Of the thread: weak fairness of its steps and of the expiry of the backoff, as the tokio
runtime runs every ready task and the clock goes on; and weak fairness of the language model: the code puts
no timeout on a stream, so nothing but the model's answering justifies it. `InterruptConsumed` has three
disjuncts because inferences that keep failing, and messages that keep coming, do keep the flag from being
looked at. In `Inbox` select and update have strong fairness: the database may fail again and again but not
every time; `EveryMessageTold` stops at a fault or at the bound on rows. In `HubLink` tasks, calls and
handlers go on (weak fairness): each is a future the runtime polls and sleeps end. A connection that was
closed or reset shows at both ends. One that was lost without a word shows only at the host, which writes
heartbeats to the slaves it lists; a slave waits for its socket alone (slave.rs:335-345), so no fairness
lets it find out, and `Reconnects` and `LinkIsListed` ask nothing of it. Connecting has strong fairness: it
may fail any number of times, but not for ever with a host that is there. Nothing is assumed of joins,
leaves, losses or restarts. In `Relay` time, timers, readers and drains are fair, the local server a slave
asks and the noticing of a broken connection are not: `EverySendEnds` rests on the timeouts. In `Lifecycle`
the loop and the pool are weakly fair, the scan strongly, as it may meet a file that is being written, but
not each time. In `Chat` a timer that is set goes off, and not into a send each time; polls are answered,
and those of a page that goes on polling not each with an error; sends end. Of loads and scrolls nothing is
asked, nor that the page polls: `EveryMessageShown` speaks of the time it does. In `Shell` the engine, the
timer and bash are fair; a command that hangs and a process left behind need not end.

## 4. Proofs

All theorems hold for every value of the constants that the modules' assumptions allow. Each module has
an inductive invariant; where the property is not inductive, the remark says what it lacks.

- `MemoryProofs`: `TypeCorrect` needs no more. `NothingIsForgotten` and `NoBlockIsDroppedUnrolled`
  assume only `BlocksLimit >= 2`, stated in the theorem, and hold until `struck`, as the properties do.
  The inductive invariant says who knows what: at most one task is active; the block a task, a marker or
  prepare_roll has picked is sealed, that is, no summary will be appended to it, since a newer block
  exists and names are not used twice (which needs the limit of 2); so the text a task holds still
  covers history and block when it writes; a marked block is compressed or its task is about to write;
  and the rows between cursor and insert are those that were rendered. Under the same assumption the
  module proves three things more. `ImplementsAgentMemory` maps every step to a step of the abstract
  memory or a stutter; it adds that what a task has compressed is recorded in history or blocks
  (`Recorded`, `TaskTells`), so that a block is deleted only when its rows are in the history tier
  already. `HistoryIsABeginning` needs `Ordered`: history and the blocks up to any name make up a
  beginning of the log, and what is folded is the oldest block. `SummariesLoseNothing` holds after
  every fault as well, where nothing of the above is left; its invariant `Sheltered` says only that what
  may still be deleted (`Doomed`) is closed to summaries, and that the entry a summary has inserted is
  there, unless the history speaks of it, until the cursor advances.
- `InstanceThreadProofs`, of the thread: `TypeCorrect`, `NeverSleepwalks`, `FailedSendKeepsAwake`, `StatusIsHonest`,
  `NeverWakesEarly`. The first two of the safety results share an invariant (`AnswerInv`): while an answer is being
  consumed, the instance is asleep only if the guard is `AfterIdle`, from where nothing is allowed, and
  an idle that is executed finds no refused send. `HonestStatus` is inductive as it stands. No run
  checks `NoSleepwalking` and `HonestStatus` besides. `WakesNotEarly` lacks what the counter of an idle
  has to do with the time that passed: it never runs ahead of it, and a beat begins it anew
  (`CountsSleep`). `ImplementsAttention` is the safety half of the refinement: the thread begins as
  `Attention` does, and each of its steps is one of `Attention` or a stutter. Every step but the two
  that read keeps an unread message (`NoneDropped`); the one that reads in the middle of an answer finds
  the instance awake because nothing is executed once it has fallen asleep (`NoSleepwalking`). The
  strong fairness `Attention` asks for besides is what `KeepsPromise` adds, and stays with TLC.
- `InstanceThreadProofs`, of the stream: `StreamReadsWhatWasWritten` and `StreamTurnsConsume`, for
  every text, every way to cut it and any names. The invariant `StreamInv` has `Progress` beside the
  types: as long as the text is clean, `next()` stands at a separator of what follows the thinking (or
  before the first); its buffer is the text from there on and its results are the elements before.
  The lemmas follow a text as it grows: a beginning of a clean text is clean (`CleanBefore`), a chunk
  neither moves the separators that were there nor changes an element that had ended (`SegmentsStay`,
  `SegmentsGrow`), an element read from the buffer is the one the reference reads (`NextElement`,
  `ParseElement`), and the results are the reference's wherever `next()` stops (`BodyAtError`,
  `BodyAtEnd`, `BodyWhenStopped`). That the loop goes round on a shorter buffer only needs no more than
  the types, and no clean text; it is why no call of `next()` goes round for ever.
- `MessageProofs`, of the inbox: `TypeCorrect`, `NothingIsLost`, `NothingShownTwice`, `SummariesComeAfter`. The
  invariant `Inv` has four parts beside the types: what the reader holds (`Holding`: loaded messages
  are unread before the update and read after it), what the log holds (`Logging`: only messages marked
  read, and none of those in the reader's hands), what each fault leaves behind (`Faultless`: without a
  race the update marks what was loaded, without a failing log the row exists and the prompt of the
  present answer has shown all of current), and the property. `NothingLost` alone is not inductive: it
  says nothing of a message that is about to be marked.
- `MessageProofs`, of the page: `PageHasNoGap` and `PageShowsOnce`, for any number of messages and any
  sizes of pages and polls. `NothingMissing` speaks of what the page shows; it lacks what its requests
  bring. In `ChatInv`, `NoGap` says it whatever the table has; `Scrolling`, that where a request for
  older messages begins there is no gap to the last one either, also when another request was answered
  before it, and that it is where the page begins unless requests have crossed; `Polling`, that what a
  poll brings joins up with the last message, however far one sent meanwhile has moved it, or is stale.
  `Once` says that what pages and polls brought stands under its own id and not on display besides, so
  that a poll that looks for an id finds the message. A load needs nothing of these: what it brings is an
  unbroken stretch of the table (`AnAnswer`), and every poll under way is stale by it (`LeftBehindIsStale`).
- `HubProofs`, of the links: `TypeCorrect`, `EngineIsListedOnce`, `EveryEntryIsServed`, `TasksAreStoppable`. Table and
  tasks have an invariant each. `Table` is `ListedOnce` and `EntryServed` together: the clean-up of one
  handler leaves the other entries served because an entry knows the id its handler holds. `Stopping`
  adds to `Stoppable` that a leave has stopped the reconnect before it disconnects.
- `HubProofs`, of the calls: `RelayIsSound`, `SendersAreToldTheTruth`, `CallsWaitOnlyInCircles`, for any
  slaves, sends and breaks. `ToldTheTruth` says nothing of what is still under way. The invariant
  `RelayInv` follows the packets of each send: they are on the links they belong to (`Addressed`), at
  most one in each direction but for a reply that overtakes nothing (`OneLetter`), none before the send
  was made (`Early`), an answer "ok" only after the message was written (`Written`); unless time passed or
  a connection broke, an answer is true and somebody still waits for it (`Unstruck`); and over links that
  work, who waits has a packet or a handler at work for him (`Flows`). From the last the circles follow
  without an induction over chains: if time passes, no packet is left that somebody could take, so each
  reader that waits, waits for another of them, and all those that wait are such a set.
- `LifecycleProofs`: `TypeCorrect`, `DeletedStay`, `CachesAreFresh`. `Gone` adds to the property that no
  request is at an instance that was deleted unraced and that no creation is, since ids are not used
  twice. `Fresh` says what `CachesFresh` says also while the loop is busy: a handle is on what is there
  but for the two handles a deletion has still to forget; it needs `Standing`, that a directory being
  created is there, because only the loop deletes.
- `SettingsProofs`: `TypeCorrect`, `AnsweredUpdatesSurvive`, `ThreadWorksWithMerged`, `FailoverTriesAll`.
  `UpdatesSurvive` lacks what a writer has loaded: one that nobody overtook holds what the document
  should hold (`LoadedKept`). `ThreadWorksWithMerged` speaks of a thread that has read both documents since
  they were written, and has the exceptions of the property (item 9 below). `RotationTriesAll` lacks
  which channels were tried: exactly those the counter has stood on since (`Walked`).
- `ShellProofs`: `TypeCorrect`, `AnswersShowAll`, `ReplacementsKeepTheRest`, `CleanFilesKeepTheRest`.
  `Counted` says that what was spoken is what was read and what is in the pipes; `Replacing` follows a
  replacement: what was read, is in the pipe and is still to be written make up the login shell's words and
  the file as it was (`GreetingIsRead`, `AllGiven`), and what is about to be stored is that text, decoded,
  with its match replaced. `CleanFilesKeepTheRest` says what is left of all the exceptions for a file of
  text alone within the limit under a quiet login shell: a newline at the end.
- `LegacyProofs`: `TypeCorrect`, `LegacyIsKept`, `MigrationIsIdempotent`, `NothingIsUnlearned`, `RunsWithAll`.
  The properties speak of files and tables; they lack what is in the hands of those at work. The
  invariant says that what an opener or a capture nobody misled believes is so: a row it found absent is
  absent, what it has read is what is there (`RowSound`, `SessionsSound`, `CurrentSound`, `Knows`), and
  whoever is about to rename a file has seen or put its text in the database. `RunsWithAll` is about runs
  without faults and has an invariant of its own (`Unharmed`): the engine's progress says which texts are
  in the database (`Progress`), and session files are imported all or none (`AllOrNone`). The order in
  which files are taken is that of the least of a set, which exists by the well-foundedness of the
  naturals.

Boolean variables and arithmetic are in separate lemmas where one obligation would need both, as no
installed prover handles the two together.

Every invariant and every action property of the runs is a theorem, and so are both refinements as far
as safety goes. Only model-checked is liveness, which is out of the prover's reach: the fairness
`KeepsPromise` of the thread asks for, `InterruptConsumed`, `EveryMessageTold`, `Reconnects`,
`LinkIsListed`, `LeaveIsFinal`, `EveryInstanceRuns`, `EverySendEnds`, `EveryMessageShown` and
`EveryActionEnds`. The theorems about texts need facts about sets of positions, the least and the
greatest of them, not an induction over a text: `AnswerText` takes the elements of a text from the
positions of its separators, and well-foundedness of the naturals gives what the lemmas need.

## 5. Disagreements found, and exceptions

Where the code does not do what its words or its design promise, the property says so as an exception
and the comment beside it names the case.

Memory and migration:

1. `commit_history` writes the marker first, so that a crash is said to be safe (memory.rs:211); the next
   roll takes the marker for proof that the block is in the history. A failure in between loses a block.
2. `read_history` answers an error with an empty text (memory.rs:518), and a roll writes that back. So
   does a capture with the knowledge, and the birth of an instance with its first history.
3. A session file that cannot be read is renamed with the others; a failed insert, or a crash after the
   first block, leaves the remaining files behind for ever, as there are blocks now. current.txt is
   imported again after a failed rename once it was summarised; two opens at once may import a text
   twice ("is idempotent", migrate.rs:4).
4. A session_blocks_limit of 0 or 1 is not ruled out.
5. The range of a summary's messages leaves out a read_msg that was distilled while their count keeps it
   (memory.rs:417 and 457).

Thread, channels and settings:

6. `max_beats` limits beats, not inferences (README:88); the notice that it is reached is itself an unread
   message, so the thread never gets to its idle status.
7. An interrupt is not seen while the stream waits for a chunk, and the wait has no timeout.
8. Reading marks what is unread at the update, not what was read at the select (chat.rs:330 and 352).
9. `update_settings` refuses an update of nothing but extra_channels (state.rs:452). `merge_fallback`
    drops user_id. The reload takes privileged and limits from the instance's file alone (settings.rs:25),
    and no reload takes the host, the notes on the shell or max_beats (engine/mod.rs:352-414): a thread
    keeps those of its spawn. While the global document cannot be read, the channels stay what they were
    and the rest goes on to change. Saves overlap and truncate in place; an unreadable
    global_settings.json is silently reset.
10. A respawned thread begins again with the first channel, whatever was selected, and the signals of a
    deleted instance stay registered.
11. An `open` that had found an instance before `delete` makes its directory anew, with default settings,
    and the scan runs it. `collect_instances` makes directories, which its doc (state.rs:763) denies.
12. A send whose own row cannot be written returns its error before it marks the transaction
    (execute.rs:144-149, 211-215): an idle the model writes after it in the same answer is obeyed, and
    the failure is in the log only. A send that is refused is marked.

Hub:

13. A reconnect whose register message fails waits for its own lock, for ever (slave.rs:275).
14. The clean-up of an old connection removes the entry of the new one; a leave during a reconnect does
    not end the connection made after it; a refused join keeps its task; slaves of a host that was
    switched off and on stay connected to a table nobody looks at. A slave that lost its host without a
    word waits for its socket for ever (slave.rs:335-345): it sends no heartbeat of its own and has no
    limit of time, so it stays joined to nothing until its process or its mode is changed.
15. A relay between two instances of one slave waits for the reader it blocks: after 10 s the sender is
    told it failed, and the message is delivered (service/extension.rs:19). So with two slaves that send
    to each other. The client a slave asks its local server with has no timeout.

Stream:

16. What a chunk ends with may look like a whole line: an incomplete last line that equals a separator or
    the end marker counts as one. A separator inside thinking that is not closed counts, too. Parsing of
    an element splits where a line ends in the separator, not only where it is one.
17. Chunks are decoded one by one, so a character cut in two is lost, and slices of bytes (llm.rs:427, 475,
    499, 590) panic inside one.

Page:

18. A reply that was not polled yet and has an id below the user's own message is skipped until the
    next load. A poll under way while the user sends shows that message twice. `last_insert_rowid` on
    another connection gives the wrong id, with both effects. A message whose answer comes after the user
    turned to another chat is added to that one; one that was refused is shown like one that was sent.
19. A poll under way while the user clicks on the instance on display (index.html:1256, 1383) passes the
    guard, which compares names (1777): it adds to the object that was replaced and to the display. The
    next poll skips what it finds on the display (1786), and once a later message has moved lastMsgId the
    page has a gap, to be seen at its next rendering.
20. A switch and a late scroll clear loadingMore (1353, 1447) while a request for older messages is under
    way; a second one for the same page is then prepended without a look at the ids (1451).
21. The last poll of a chain that was replaced clears the timer of its successor (1740-1753): nothing
    polls until the next switch. So after one 502 or 504 (1766-1774), whose banner offers a retry, and
    after a load whose request failed, since switchInstance ends before it starts the polls (1355-1358,
    1401).
22. An error that answers a scroll is taken for the beginning of the history (1458-1461), and so is a
    failing count (chat.rs:259-264); a scroll whose request fails leaves loadingMore set (1444-1462).

Shell:

23. The script is written in full, outside the limit of time, before anything is read: a script longer
    than a pipe whose output fills a pipe, or which hangs, stops engine and bash for ever.
24. The output is read to its end before the errors: a full pipe of errors, or a process in the background
    that holds the output, delays the answer to the limit of time, and then all output is lost.
25. At the limit of 1 MB the pipe is dropped and the writer killed by a signal. A replacement in a file
    longer than that by less than a pipe loses its end and is reported as done.
26. A replacement under su reads the file as text and writes that back (shell.rs:273, execute.rs:396-402):
    bytes that are not UTF-8 anywhere in the file become U+FFFD, bash drops NUL bytes, and what a login
    shell prints comes before the text, what it complains of behind it. The action is reported as done.
27. The errors are cut against a limit that counts the output a second time (shell.rs:118, 260).
28. The limit of time kills the shell only (under su not even bash); what was started may go on writing the
    file while later actions read and replace it.
29. Every write under su or bash appends a newline; a failed write may leave the file empty.

## 6. Plan

What a next step would add, most useful first: `HubLink` with the lists of instances its messages
carry, and a second engine at the host; what of the liveness results rests on safety alone, stated and
proved as such (a call that waits has a limit that is still to come, a message that is not shown has a
poll or a page before it); several pages on one chat.

## 7. Not modelled

- Language model access: network I/O; an environment that answers, stays silent or fails.
- Policy, messages and logging: constants and wording, nothing depends on them.
- Guardian: a separate scanner of the repository that shares no state with the engine.
- Of components modelled in part: the contents of prompts beyond what they must show; skeletons and
  previews of files; uploads, vision, login and static pages of the web api; the macros for routes and
  data access; the page beyond its chats; the Off mode of a relay, which is a local write; the contacts a
  chat names; the lists of instances in register messages; range and count queries of a summary; reading
  of settings by requests, which answers defaults for an unreadable document.
- SQLite, the file system, bash, the network and the runtime are external and appear as steps that may
  happen or fail. A statement is atomic.
- `check_and_roll_history`, `run_sync` and the streaming_collect variants of inference are never called.
