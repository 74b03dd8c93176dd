# Verification of the Arda web gateway

TLA+ specifications, TLC models and TLAPS proofs for the gateway in
`src/backend` (Go): one process that connects browsers (HTTP and WebSocket) to
one MUD server (Telnet over TCP), paces the player's commands, fans events out
to the browsers and asks a language model for suggestions.

## 1. Inventory

| component | source (`src/backend/internal/…`) | state | operations |
|---|---|---|---|
| command queue | `gateway/queue.go` | commands, running, stop and done channels | Start, Enqueue, StopAndDrop, the sender goroutine (`run`, `pop`) |
| session manager | `gateway/manager.go` | the one session: id, connected, conn, queue | Connect, Disconnect, Status, Enqueue, writeCommand, readUpstream |
| event hub, WebSocket handler | `gateway/hub.go`, `httpapi/ws.go` | client set, a channel per client, connection gauge | Add, Remove, Broadcast, ReadLoop, writePump |
| suggestion service | `suggestions/service.go` | recent lines, job number, timer, active jobs, answer, error | IngestTerminal, runJob, CancelInFlight, Latest, Status |
| language model client | `suggestions/openrouter.go` | transcript counter | RequestSuggestion (two attempts), requestOnce |
| state service and store | `state/service.go`, `state/store.go` | SQLite tables or one in-memory snapshot | Ingest, Snapshot, UpsertDelta, GetLatest |
| parser | `state/parser.go` | none | Parse |
| telnet filter, text decoder, framing | `gateway/telnet.go`, `decoder.go`, `wsframe.go` | the filter's state | Filter, Decode, readFrame, writeTextFrame |
| metrics | `gateway/metrics.go` | atomic counters | Inc…, Observe…, Snapshot |
| HTTP API | `httpapi/*.go` | none of its own | handlers, one goroutine per request |
| configuration, process start | `config/config.go`, `cmd/gateway/main.go` | none | Load, main |
| browser client | `src/frontend/src/App.tsx` | connection flags, terminal lines, trigger queue, polls | connect, disconnect, enqueue, poll |

**How they interact.** HTTP handlers call the manager. The manager owns the
queue and starts one `readUpstream` goroutine per connection; the queue starts
one sender goroutine per Start, which calls back `manager.writeCommand`.
Handlers, readers and senders call `Broadcast`; a client's `writePump` drains
its channel. A reader hands each chunk of output to the callback of
`httpapi/router.go`, which feeds the state store and then the suggestion
service, before it broadcasts it. Suggestion jobs read the state store.

**What is hard.** Every component has its own mutex and leaves it before it
does something slow or calls the next one. So the interesting behaviours are
what runs between an unlock and the call that follows it: a Connect between a
disconnect's unlock and its StopAndDrop; a sender of the previous connection
that overlaps the next one's; a reader that learns late that its connection is
gone; a broadcast to a client that is being removed; a timer that fired when it
was to be stopped; answers that arrive in another order than they were asked
for. `PROJECT.json` lists each hazard with its line and its properties.

**What makes each part correct.**

* Queue: one sender may run unstopped and the queue can stop it; a stop
  returns; each accepted command is sent, failed or dropped, once.
* Manager: an open connection has one owner; a connected session is watched by
  a reader; a finished disconnect leaves no command behind and no second sender;
  a lost upstream is noticed.
* Hub: a client is closed once; what a client sees has no gap; a broadcast never
  waits; a removed client's connection and goroutine end.
* Suggestions: a shown answer was asked for with the newest lines; a prompt's
  state is not older than its lines; in_progress is exact and ends; the last
  burst of output gets an outcome of its own.
* Store: what was stored stays until it is replaced, across failures and
  restarts; a caller's snapshots never go back.
* Metrics: each accepted command is in exactly one total; the histogram is exact
  although many goroutines add to it; a page of `/metrics` does not contradict
  itself.
* Pacing: a slow send or a late goroutine lets a sender catch up one tick, not
  more.
* Upstream text: what the player sees and what the parser finds does not depend
  on how TCP cuts the stream, except at the places named below.
* Browser: a page shows a session that is up; each change is told once.

## 2. Modules

| module | models | grain |
|---|---|---|
| `CommandLedger` | what is promised about commands: abstract | accept, take, deliver, fail, drop all |
| `CommandQueue` | `queue.go` | critical sections of `q.mu`, channel operations, outcome of a send |
| `SessionManager` | `manager.go` on an instance of `CommandQueue` | critical sections of `m.mu`, operations on a `net.Conn` |
| `Hub` | `hub.go`, `ws.go` | critical sections of `h.mu`, channel sends, writes |
| `Suggestions` | `suggestions/service.go`, the callback of `router.go`, attempts of `openrouter.go` | critical sections of `s.mu`, reads and writes of the stored snapshot, steps of a request |
| `StateStore` | `state/service.go`, `state/store.go` with SQLite | SQL statements and transactions, failures, crashes |
| `BrowserView` | the manager's broadcasts and their JSON, the answers of `httpapi/session.go`, the flags of `App.tsx` | the decision of a call, its broadcast, its answer; one message |
| `Metrics` | the related counters of `metrics.go` | one atomic word |
| `SendLoop` | the sender of `queue.go` against the clock, on `Metrics` | ticks of the clock, steps of a sender, adds and loads of words |
| `TelnetFilter`, `TextDecoder`, `Parser` | `telnet.go`, `decoder.go`, `parser.go` | functions on sequences of symbols |
| `Upstream` | `readUpstream` through filter, decoder and parser into the in-memory store of `state/service.go` | one read, one UpsertDelta, one snapshot |
| `MC…` | constants for TLC | |
| `…Proofs` | theorems | |

`CommandQueue` names each run of the sender goroutine, with its own stop and
done channels, a *generation*; the variable `current` says whose channels
`q.stopCh` and `q.doneCh` are. Commands are numbers, in the order of
acceptance, so order and loss are visible and text is not. `sent`, `failed`,
`dropped` record fates and do not influence any step. `SessionManager`
instantiates it: a generation is named by the connection whose Connect started
it, and stoppers are the handlers and the readers. The manager's actions call
the queue's actions; what they add is the manager's own state and a place
(`pc`) for each goroutine. `net` is the connection as the operating system has
it. `epoch[k]` records on which connection command k was accepted. A Connect
whose Broadcast panics (`ConnectPanics`) leaves its connection with a reader that
is never started. What the manager tells the browsers is in `BrowserView`, since a
broadcast never blocks its caller (`BroadcastEnds`) and reads nothing back.

A read that times out and a chunk of output are one action, since both go back
to the head of the loop. In `StopAndDrop` the close of the stop channel is part
of the critical section; the goroutine that took the channel is the only one
that can close it, and a generation whose channel is open behaves like one whose
select picked the ticker.

`Hub` tells broadcasts apart by who began them and their number. A panic of a
send on a closed channel ends the goroutine it happens in (`net/http` recovers
it in a handler; elsewhere it ends the process, after which nothing is left to
check). A handler that panics in its own status has not reached the `defer` that
removes its client (ws.go:47-49): its client stays registered (`Orphaned`).

`Suggestions` has one session, as the process has: `recent` keeps chunk
numbers instead of lines, and `stateRead` the set of chunks a prompt's
snapshot was built from. The store is one *part* of the snapshot, its row or
its equipment, as `UpsertDelta` reads, merges and writes it back: `copy` is what a
call has read, `stored` the chunks that the part was built from, and `StateWrites`
puts back the copy with its own chunk, and any of what was stored meanwhile (a
slot that is not written stays). `erased` is history: the chunks that such a
write-back took out.

`StateStore` has one row, because the process has one session id, also after a
restart (manager.go:189). A delta is the set of fields it names; a stored field
holds the number of the delta that set it. The table's columns and the
equipment rows are one function `table`, since no step confuses them.
`updated_at` is left out: it only chooses among sessions. Any statement may fail
(the code sets neither WAL mode nor a busy timeout, so a locked database is
one reason) and the process may end between any two. `acked`, `due` and
`overlapped` are history: what UpsertDelta acknowledged, what a Snapshot call in
progress must at least show, whether two UpsertDelta calls ever overlapped.

`BrowserView` joins the calls of one page, of any other client and of the
readers (`UpstreamLost`) with the page's event stream. A call decides under
`m.mu`, broadcasts after it, and its answer reaches the page at any time after
that, or never (`FetchFails`: the request, or its answer, is lost, and the page's
`catch` resets only the button). A handler's broadcast may panic at another client
before or after it has reached the page (`AnnouncePanics`); then the call has no
answer, and a Connect no reader. A panic in a reader ends the process and the
behaviour. `Json` drops a false `connected`, as `omitempty` does. The page's
WebSocket may close at any time and is not opened again; a reload is a new page.
Other clients connect, disconnect, and open WebSockets, whose status reaches every
page. `ownEnd` and `hidden` are history: when the properties below make a claim.

`SendLoop` counts commands instead of naming them, and adds what
`CommandQueue` leaves out: the clock, a ticker whose channel holds one tick and
drops the rest, sends that take time, and the words of `Metrics`, which senders
and `StopAndDrop`s add to, and a scrape loads, one at a time in the code's
order. `stopper[g]` is the `StopAndDrop` that has stopped sender g and waits for it
or counts its drops; several may be under way. A goroutine may be as late as it
likes. `SlowScrapes` says whether the clock may advance while a scrape is in
progress; TLC's instance has the short ones (with the others it has more states
than can be searched), the proofs hold for both.
The latency sum and the totals that are related to
nothing are left out, the connection gauge is in `Hub`.

In `Upstream` the stream is a sequence of tokens: output, subnegotiations,
negotiations and other commands, with their data. `BytesOf` says which bytes the
MUD sends for one and `Meaning` what it means by it; `Read` takes any number of
bytes that are there. Every loop of filter, decoder and parser over bytes,
symbols or lines is a `Fold` of a step (`FilterStep`, `JoinStep`, `YaStep`,
`StripStep`, `LineStep`, `WornStep`), so that the model reads as the code's loop
and the proofs are inductions on it. `Symbols` is a constant; the modules assume
only that it has the bytes that they name. A symbol is a byte, where filter or decoder look at
bytes, or a run of bytes none of the three looks into: a prompt is cut into two
symbols, a label is one. `store` is the in-memory store, `held` a snapshot that
its caller is still encoding: `shares` says whether it has the store's own map.
`normalizeEquipmentSlot` ranges over a Go map, so `Parse` returns a set of
possible deltas. `EquipmentMaps` gives each slot its item, if it has one. `passed`,
`text`, `splitPair`, `midPrompt` and `midLine` are history: what the filter has
passed on, what the decoder has made of it read by read, and where reads ended.

Operators marked "Mutant of …" are not part of the models: each is a plausible
mistake in the definition below it, used to show that a property notices it.

## 3. Runs

All constants are small sets of model values. Every passing run covers all
reachable states of its instance.

| run | instance | checks |
|---|---|---|
| `queue` | 3 generations, 2 stoppers, depth 2, 3 commands | type, `OneSenderToStop`, `WaitsForStopped`, `EachCommandOneFate`, `ImplementsLedger` |
| `manager` | 2 connections, 2 handlers, depth 1, 1 command, fairness | `OneOwnerPerConn`, `SessionIsWatched`, `NothingLeftBehind`, `OneSenderAtRest`, `ReplayNeedsOverlap`, `LossIsNoticed`, `DisconnectReturns`, `CommandsSettle` |
| `hub` | 1 client with a buffer of 1, a publisher of 3 events and one of 1; or 2 clients and their own statuses; fairness | `RemovedByOne`, `GaugeLags`, `StreamHasNoGap`, `BroadcastEnds`, `RemovedIsReleased` |
| `suggestions` | 2 readers, 1 canceller, 2 chunks, 1 recent line, fairness | `OneJobPerNumber`, `PromptStateCoversLog`, `AdoptsAnswerToNewestLog`, `NewestHasOutcome`, `JobsAreReleased` |
| `store` | 2 writers, 1 reader, 1 column, 2 slots, 3 deltas | `StoredIsKept`, `SnapshotsMoveForward`, `EquipmentHasRow` |
| `view` | 2 calls at a time, 2 connections, other events and statuses into an empty stream, fairness | `UpIsShown`, `OwnDisconnectIsShown`, `EachChangeToldOnce`, `UpComesToBeShown` |
| `sendloop` | interval 1, clock to 4, depth 2, 2 senders and their `StopAndDrop`s, 4 commands, buckets of 0 and 1, short scrapes begun by 2 | `Paced`, `TotalsAddUp`, `HistogramIsExact`, `PageIsConsistent` |
| `upstream` | streams of up to 3 tokens (10 of telnet and letters, 10 of lines and prompts), 3 reads | type, `FilterIsTelnet`, `TextIsWhole`, `PromptIsNewest`, `EquipmentIsNewest`, `HeldIsStable` |
| `finding_no_sender`, `finding_stale_reader`, `finding_send_on_closed`, `finding_down_not_shown` | as above, or smaller | one property each, which the code violates (section 4) |

The type invariant is checked where it says more than types (`queue`: the depth
limit; `upstream`: no slot holds an empty item). The other modules' type
invariants are theorems only.

**Why the bounds are enough to be interesting.** Two connections give one
reconnect, which is where readers, senders and stops of the old connection meet
the new one; two handlers overlap their calls. The `queue` run reaches and
exceeds a depth of 2, with a third generation started while the first still
runs. The manager's instance has a full queue at one command; it is this small
because two handlers under fairness are 2 readers, 2 senders and 2 handlers at
once, and because its safety properties are proved for any number of each. A
client buffer of one is full after one event, so eviction is common, and three
events are what a skipped one in the middle takes. A broadcast that one client
cuts short for another takes two clients: with both connected the publishers are
silent (`MaxEvents`) and the handlers' two statuses are the broadcasts, one of which
may panic at the other's client. Safety is proved for any number of each. Two chunks give a superseded and a newest job, one
recent line makes every chunk but the first push a line out. In the store one
column and two slots are enough for a delta to leave something of the row and
something of the equipment alone, and three deltas for a stored one, one that
fails half-way and one after it. In `view` two calls are any page call with any
other, or with a reader. In `sendloop` two senders observe at once while a third
party counts drops, four commands let one sender show a buffered tick and the
pace after it, each sender's `StopAndDrop` may count while the other's waits, and
two buckets give a send inside one, inside both, inside
none. Three tokens in three reads can cut a pair, a prompt or a line and have
something follow it.

Symmetry is used only in `store` (slots and writers), whose sets are not ordered
and whose properties are invariants. `CHECK_DEADLOCK FALSE` is set where bounds
or the environment bring the system to rest: hub and suggestions (bounded
publishers and chunks), sendloop (the clock ends), upstream (the MUD falls
silent).

**What the properties leave out.** `CommandsSettle` is stated for behaviours in which a connected session never
lacks a sender: `finding_no_sender` shows that one can, and the property shows
that nothing else strands a command. `ReplayNeedsOverlap` allows a command to
cross a reconnect only during a disconnect. `SessionIsWatched` and `LossIsNoticed`
except the connection whose Connect panicked before it started a reader, and
`RemovedIsReleased` the client of a handler that panicked in its own status, for as
long as it is registered. `UpIsShown` and `UpComesToBeShown` except (`hidden`) a page
whose event or status was lost in a panic at another client, and the late answer
of the page's own Disconnect, applied after somebody else has connected again.
`OwnDisconnectIsShown` asks that the answer has come: the event alone does not say
that the session is down. `PromptStateCoversLog` excepts chunks with nothing to
store, chunks whose Ingest failed, and `erased` ones. `NewestHasOutcome` says that the
newest job reaches its own answer or error; an older job's error may replace or
join it afterwards. `HeldIsStable` speaks of snapshots that were taken with
equipment. `Paced` allows for the buffered tick and a write in progress.
`PromptIsNewest` and `EquipmentIsNewest` speak of streams whose reads end
outside prompts and lines, and the former of prompts without a value that
overflows: one that does hides an earlier one in its own read, but not one that
is stored. `TextIsWhole` says that a read that ends inside a pair costs at most
CRs in front of an LF or a letter's case: a text and its bytes are compared as
`Loose` has them.

**Fairness.** Weak fairness of goroutines that are not blocked: the Go
scheduler is preemptive. Weak fairness of the outcome of a send, a write and a
model request: they have deadlines (5 s, 10 s, the client timeout). Strong
fairness of a sender that sees its closed stop channel: `select` chooses
uniformly among ready cases, so it is not passed over for ever by the ticker.
ReadLoop ends because its deadline is 90 s and the browser never sends a frame.
In `BrowserView` the calls go on, and a message that was sent to the page reaches it or
its WebSocket closes; an answer reaches it or its fetch fails. Nothing is assumed of the callers, the player, the MUD, or the
arrival of output.

## 4. Disagreements between the code and its documents

Each of these is a run that ends in a counterexample, quoted in `PROJECT.json`:

| run | what happens |
|---|---|
| `finding_no_sender` | Connect between a disconnect's unlock and its StopAndDrop: connected, but the sender is stopped and commands stay in the queue |
| `finding_stale_reader` | the reader of a closed connection disconnects the next one |
| `finding_send_on_closed` | Broadcast sends on the channel of a client removed meanwhile |
| `finding_down_not_shown` | session.disconnected leaves its false `connected` out of the JSON: a page that reads it goes on showing a session that somebody else has ended |

The panic of `finding_send_on_closed` has consequences in the other models:

* In a reader or a sender it ends the process.
* In Connect (manager.go:116) `net/http` recovers it after the session is installed
  and before manager.go:126 starts its reader: nothing reads the MUD's output or
  notices that it is gone (`ConnectPanics`). Commands are still sent; a Disconnect
  is the way out.
* In a WebSocket handler's own status (ws.go:47) it comes before the `defer` at
  ws.go:49: the hijacked connection stays open and its client registered until some
  broadcast finds its buffer full (`Orphaned`).
* It ends the broadcast, so the clients after it miss the event
  (`AnnouncePanics`): a page may never hear of a session that is up.

Others can be read off the models, and the passing properties are stated around
them:

* A command accepted before a reconnect can be written to the new connection if
  the Connect overlaps the disconnect (README.md:100 "no automatic replay of
  unsent queued commands after reconnect"). `ReplayNeedsOverlap` says that it takes
  the overlap.
* Two senders that overlap across a reconnect can write commands out of order
  (plan.md:97 "Preserve order guarantees."): `StopAndDrop` resets `running`
  before the old sender has left its send.
* Two sends can be closer than the interval: the ticker's buffered tick lets a
  command follow a slow send at once (plan.md:184 "interval enforcement",
  README.md:47 "default 500ms pacing"). `Paced` bounds it.
* `StopAndDrop` without a running sender drops commands before it reaches its
  metric (plan.md:294 "Track dropped-unsent commands"): `uncounted` in
  `TotalsAddUp`.
* Overlapping UpsertDelta calls: the later write takes back what the earlier
  one stored (plan.md:335 "Serialize writes through one controlled worker
  path."). `StoredIsKept` holds while calls do not overlap, and a prompt may lack
  what such a write-back took out (`erased`).
* The in-memory store's GetLatest copies the equipment only if there is some
  (service.go:88). A snapshot taken with an empty map shares it, and the next
  UpsertDelta writes to the map that its caller is encoding.
* The answer of a page's own Disconnect may be lost. Its `catch` (App.tsx:345-350)
  leaves the flag alone and the event has no `connected`, so the page goes on
  showing a session that it has ended itself (`FetchFails`).
* The error of a superseded suggestion job is recorded without comparing job
  numbers and may replace or join a newer job's result (service.go:158).
* The life cycle events are broadcast after `m.mu` is left (`Announce`), so
  session.connected may follow the session.disconnected of the same connection.
* An event broadcast between `AddClient` and the handler's own `Snapshot` is a
  WebSocket's first message (gateway.v0.yaml:17 "First message after connect is
  `session.status`").
* The parser is given one read at a time. A prompt cut by a read is not found
  (plan.md:83 "Prompt/event detection must work for lines that do not terminate
  with `\n`"), and a label cut from its item loses the item. An escaped IAC
  inside a subnegotiation leaves the filter in the state in which SE ends it,
  and the rest leaks into the output (plan.md:82 "subnegotiation … with
  deterministic filtering").
* A label that contains aliases of two slots (`в руках` of held contains `рука`
  of arms) goes to either, as the map is iterated; an item that is taken off
  (`ничего`) is never cleared from the snapshot; a line `[label] item` is also a
  candidate for the location.
* In a page of `/metrics` a larger bucket may be below a smaller one: buckets
  are loaded one after the other. `PageIsConsistent` claims what does hold.

## 5. Proofs

Proved by TLAPS for every value of the constants (and, where a bound such as
`MaxCmds`, `MaxChunks` or `MaxTime` appears, for every bound).

* `CommandQueueProofs`. `TypeOK`, then `OneSenderToStop` (the current
  generation is the live one whose stop channel is open), then
  `WaitsForStopped`, which needs it: a stop waits for what was current, and what
  is current is not stopped yet. `EachCommandOneFate` is inductive with
  `TypeOK`: the queue is the run of the last accepted numbers, and the others
  are partitioned into in hand, sent, failed and dropped. From it,
  `QueueImplementsLedger`.
* `SessionManagerProofs`. A lemma, `ManagerImplementsQueue`, carries the theorems
  of `CommandQueueProofs` over: by construction each action of the manager is a queue
  action or leaves `queueVars` alone. Hence `CommandsKeepOneFate` and
  `GatewayImplementsLedger` (the whole gateway implements the command ledger). Then
  `TypeCorrect`, `Ownership` (strengthened by: who is about to install or
  announce a connection holds it), `Watched` (strengthened by: a reader that
  runs or is about to run knows the session id), and `Leftovers`. `SenderAlone`: a
  live sender is the current one, or a disconnect waits for it, so with none in
  progress there is at most one. `NoReplayAlone`
  is an action property; its invariant `ReplayInv` says that a command of
  another connection than the session's is about to be dropped, or held by a
  sender that a disconnect waits for. It rests on `QueueInv`, what the queue
  inside gives it.
  `SerialSpec` excludes one step, a Connect that installs its connection while a
  disconnect is under way; handlers, readers and senders still overlap in every
  other way. In such behaviours a connected session has its sender
  (`SerialKeepsSender`, so what `finding_no_sender` shows takes that overlap), every
  write goes to the connection its command was accepted on (`SerialNoReplay`),
  and the sends succeed in the order of acceptance (`SerialOrder`). The inductive
  invariant `SerialInv`: a connected session has a sender and no disconnect, at
  most one disconnect is under way, and past its drop nothing runs; so at most
  one sender is alive (`OneLiveSender`). Under `Spec` none of the three holds: TLC
  finds two senders alive at once, and command 2 sent before command 1, after a
  Connect that overlaps a disconnect waiting for the older sender.
* `HubProofs`. `TypeOK` is inductive with `HubInv`: what a process in a removal
  or a broadcast has in hand, that a writePump has an event exactly while it
  writes, that nobody knows a client before its Add. Then `RemovedOnce` (the
  removals of a client meet at the client set), `GaugeFollows` (a cardinality
  argument over those between unlock and metric) and `NoGapInStreams`: a
  stream is what a client was written, is being written and has buffered, it
  only grows at its end, and by the next event of the publisher.
* `SuggestionsProofs`. `JobInv` joins types, the number of attempts that each
  place in runJob allows, and that a chunk makes at most one job (a cardinality
  argument over the readers in the callback); `LogInv` says that the newest
  job's lines are the present ones and that whatever reached the lines is stored,
  not stored for a reason, or erased. From them `FreshAnswers` (an action property),
  `PromptOrder` and the others. `LoneReaderErasesNothing` says when `PromptOrder` needs
  no exception for overwritten chunks: with one reader in the callback the copy it
  has read is what is stored when it writes back.
* `StateStoreProofs`. `StoreInv`: while no calls overlapped, the one writer in
  progress has the newest delta and, once it has read, a copy that is the tables
  merged with it (so its two writes lower no field), and a reader's copy lies
  between what it is due and the tables. `EquipmentIsReachable` holds also when
  calls overlap.
* `SendLoopProofs`. `Observed` counts, for each word, the senders that have still
  to add to it: word and pending adds together are exact (`HistogramCounts`).
  `Owes` and `Drops` are the same for the `StopAndDrop`s, whose drops are counted as a
  set of pairs of sender and number, and give `TotalsHold`. `Scraped` says
  that what a scrape has loaded is behind what it loads later, in the order of
  the loads (`PageHolds`). `Ticking` gives `SendsArePaced`: a sender's n writes
  have used n ticks, ticks come an interval apart, and one tick at most
  waits in the channel.
* `BrowserViewProofs`. `StepKinds` reduces the steps to what they do to one call,
  then `ViewInv`: `ToldInv` (a change has been broadcast, or exactly one call is
  about to), `UpInv` (a page that does not show a session that is up, and for
  which nothing was `hidden`, will be told: by a message on the way, the call about
  to broadcast its connection, or the status it asked for), `OwnEndInv` (after the
  page's own Disconnect nothing under way says "up", and if the page still says
  it, the answer has not come yet). `PanicEffect` and `FailEffect` say what a panic
  and a lost answer leave of a call.
* `UpstreamProofs`, for every stream of tokens, every set of symbols and every
  way to cut the bytes into reads. The induction theorems of the library take an
  operator and cannot be cited here; `SeqInduction` is induction over sequences
  for a *set* of them, from the minimum that `WFMin` gives in every set of
  numbers. With it `FoldExists` and `FoldAppend` show that a `Fold` has the values
  of its loop, and `FoldConcat` that a loop over two sequences goes on from where
  it was after the first. The rest asks of each loop what a new read forgets:
  * The filter forgets nothing (`FilterConcat`), so `FilterInv`, that state and
    output are those of one call with all bytes read, is inductive, and
    `TokensPass` (a token leaves the data state in the data state, by cases and
    by induction over its data) gives `FilterAgrees`.
  * The decoder forgets the last symbol: `DecodeConcat` says when that does not
    matter, `LooseDecode` that `Loose` never sees it. `TextInv` compares text and
    bytes; hence `TextOfReads`.
  * The parser forgets all. For the prompt, `ScanFindsPrompt` turns
    strip, join and search into one scan of the bytes, and `GoesOnAlways` runs a
    scan that goes on beside one that starts afresh; `PromptInv` says it of the
    delta over the store, and gives `PromptOfStream`.
  * For the equipment, `CleanConcat` shows that decoding and cleaning respect a cut
    at a line's end, `LinesFrom` that lines do, and `WornFold` that merging maps
    commutes with every line, whichever slot the map iteration picks;
    `EquipmentInv` gives `EquipmentOfStream`, and with `ParsedFilled` (no line
    stores an empty item) `UpstreamType`.
  * `HeldInv`: a snapshot shares the store's map only if it was taken empty;
    hence `HeldSnapshots`.

Assumptions: only the named ASSUMEs of the modules (constants are naturals, the
nil value is none of the set, feeders are finitely many, bucket bounds increase,
streams consist of tokens, the symbols include the ones with a name, aliases name
slots).

Only model-checked: all liveness (`LossIsNoticed`, `DisconnectReturns`,
`CommandsSettle`, `BroadcastEnds`, `RemovedIsReleased`, `NewestHasOutcome`,
`JobsAreReleased`, `UpComesToBeShown`), which rests on fairness and ENABLED, out
of the prover's reach. Every invariant and action property of the passing runs is
a theorem. Nothing is claimed of the status tags and the location that the parser
finds: the runs have them in the deltas, and no property is about them.

## 6. Not modelled

* WebSocket framing (`wsframe.go`): sequential coding of one frame, no state;
  `Hub` has the outcome of a write. Configuration and process start: they read
  the environment once. The generated API client and the API document: no logic.
* HTTP: request validation and response bodies, and the handlers that only call
  the component they serve. The page: terminal lines, the trigger runner, and
  its polls; a poll that returns late is repaired by the next, a second later.
* The language model client's request encoding and transcript files: the
  outcomes of a request are in `Suggestions`.
* The parser's words that exclude a location, its length limit, lines that begin
  with `#`, tags of unknown text, and regular expressions character by character.
* `lastActivity` and the data race of `Connect`'s rejecting path on it
  (manager.go:103): nothing the models hold depends on it.
* A page without a WebSocket after the 90 s deadline: `BrowserView` lets the
  WebSocket close at any time and claims nothing of such a page.
* Lock order: the only mutex taken inside another is the queue's inside the
  manager's (`Start`, `Enqueue`, `Depth`), and the queue calls nothing while it
  holds its own, so there is no cycle to check.
