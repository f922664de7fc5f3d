# A model of talkbe in TLA+

talkbe is the back end of a customer-service chat. A *customer* opens a *talk*
and writes in it; a *servicer* takes the talk (*attach*), answers, and lets it
go (*detach*). Both sides are gRPC streams, which browsers reach through a
WebSocket proxy; the server runs as one process or as several with RabbitMQ
between them. This directory holds TLA+ modules that model it, TLC
configurations that check them on small instances, and theorems that TLAPS
proves for every instance.

- [What the system consists of](#the-system)
- [Which module models what](#the-modules)
- [What each run checks](#the-runs)
- [Fairness](#fairness)
- [What is proved](#what-is-proved)
- [Findings](#findings)
- [What no property covers, and what is not modelled](#limits)
- [Plan](#plan)

To check: `tlc -config CustomerRelay.cfg MCCustomerSide.tla` (the module of
each configuration is in the tables of the runs), and `tlapm` with each of
`ChannelProofs`, `StoreProofs`, `CustomerSideProofs`, `ServicerSideProofs`,
`AllInOneProofs`, `RabbitProofs`, `ServicersApartProofs`, `FrontEndProofs`.

## The system

| Component | Source | State | Operations |
|---|---|---|---|
| talk store | `internal/impls/memmodel.go`, `model_ex.go` | the talks: status, scope (activity, business), who serves them, messages | create, open, close, add a message, set the servicer; queries by scope |
| customer stream | `internal/server/customer_server.go`, `internal/controller/customer.go` | per stream a handler, a receiver, a bounded `chSendMessage` | start (create or open a talk), send loop, receive (message, close), end |
| customer controller | `internal/controller/customer_controller.go`, `internal/impls/customer_md.go` | registry talk → streams; five bounded channels and one main routine | install, uninstall, message, close, observer calls |
| servicer stream | `internal/server/servicer_server.go`, `internal/controller/servicer.go` | as above; the receiver handles six requests | attached talks, pending talks, reload, message, attach, detach |
| servicer controller | `internal/controller/servicer_controller.go`, `internal/impls/servicer_md.go` | registry user → streams; seven bounded and two unbuffered channels, one main routine | the six requests, install, uninstall, five observer calls |
| mdi, single process | `internal/impls/allinone_mdi.go` | none | hands each call to both observers, customers first |
| mdi, distributed | `internal/impls/*_rabbitmq_mdi.go` | none | addresses each notice to an exchange |
| RabbitMQ, publishing | `internal/impls/rabbitmq.go` | connection, send channel, cache of unsent data | send, dial, open a channel, flush |
| RabbitMQ, tracking | `internal/impls/rabbitmq.go` | a map of the tracked talks, a routine for each, four bounded channels | track and untrack a talk, set up a queue, hand on deliveries |
| servicers' accounts | `internal/server/servicer_user_server.go`, `internal/impls/memuserpassmodel.go`, `local_servicer_token_helper.go` | a map of users behind a lock | register, log in, set scopes, explain a token |
| WebSocket front ends | `internal/server/ws_*_server.go` | per socket two goroutines and a stream | pass frames and responses on; the login page |
| customers' accounts, value objects, programs | `internal/server/customer_user_server.go`, `internal/vo`, `cmd` | none | request and response, conversion, wiring |

**How they interact.** A receiver stores a message, then offers it to the
controller's channel. The main routine takes it, confirms it to the sender and
calls the mdi. In one process the mdi calls the observers of both sides there
and then; in several it publishes a datum, and the routine that consumes the
exchange calls the observers at the other end. An observer posts a closure to
its own main routine (`chMainRoutineRunner`); the closure, when it runs, looks
up who is to be told and offers the response to each stream's `chSendMessage`;
the handler of the stream sends it. A stream that has no room is taken out of
the registry and offered a kick-out. No sender ever waits: an offer to a full
channel is an error the caller may or may not look at. The proxy opens one
stream per socket, with a context nobody cancels, and closes the socket when
either of its goroutines ends.

**What is hard about it.** Five to nine channels meet in one `select`, which
picks at random among those that are ready, so nothing orders a stream's
installation against its own uninstallation, its messages or its close.
A history is read by a goroutine of its own while live messages are already
relayed. Who serves a talk is read when a closure runs, not when it was posted;
one notice (detach) is the other way round. The message is stored before the
relay can refuse it. All channels are bounded and their overflow loses things,
loudly or silently. The broker's connection and channels break at any time, and
two routines learn of it by different ways. A talk's tracking is known to a map
that follows the routines by events, which may be lost. With several processes,
reading who serves a talk and setting it are two calls.

**What makes each part correct.**

- *Store*: a message stays in its talk. `Stored` is what the properties of
  both sides compare with.
- *Customers*: what is shown is stored (`ToldIsStored`); no message falls
  between history and relay (`NoGap`, `EveryoneHears`); screens agree on the
  order (`SameOrder`, `SenderOrder`); streams that end leave the registry
  (`RegistryExplained`, `LeftIsForgotten`); nobody is silently cut off
  (`ServedOrKicked`, `RemovedLeaves`).
- *Servicers*: what is shown is stored, under the right talk (`ToldIsStored`);
  whoever serves a talk has all of it (`NoGap`, `AssigneeHears`); everybody
  agrees with the store on who serves it (`AssignmentTold`) and that it is
  closed (`CloseTold`); talks that wait become known (`PendingIsAnnounced`);
  the registry (`RegistryExplained`).
- *Both in one process*: the customers do to the servicers what `ServicerSide`
  expects of them (`IsServicerSide`), and nobody misses a message of the other
  side (`NobodyMisses`).
- *Publishing*: order and uniqueness (`InOrder`), no silent loss (`Accounted`),
  the cache is emptied (`CacheIsFlushed`), the right exchange
  (`PublishedWhereAddressed`, which the code does not satisfy); in all, an
  outbox (`IsAnOutbox`).
- *Tracking*: one routine per talk (`OneRoutine`), the map explains the routines
  (`EntryExplained`), data are heard once and in order (`HeardInOrder`), who
  watches hears (`WatchedIsTracked`), what nobody watches is freed
  (`UnwatchedIsFreed`).
- *Several servicer processes*: all agree on who serves the talk
  (`AgreedUnlessCrossed`), who serves it sees it all (`ServedSeesAll`).
- *Front ends and accounts*: nobody who is there is cut off (`ServedWhileThere`),
  a listener sees everything and why it ended (`ListenerSeesAll`), each end
  reaches both goroutines (`EndIsPassedOn`, `LeaveIsNoticed`), and who gets in
  by the page has a scope (`PageIsScoped`).

## The modules

| Module | Models |
|---|---|
| `Channels` | an offer to a bounded Go channel: `HasRoom`, and what it then holds: `Fits` |
| `TalkStore` | the store. Each operation holds the store's lock for its whole body, hence is one step |
| `CustomerSide` | the customers' half of a server, over `TalkStore` |
| `ServicerSide` | the servicers' half, over `TalkStore`, with the customers as its environment |
| `AllInOne` | the server of one process: both halves over one store |
| `ServicersApart` | several servicer processes over one store: what differs from `ServicerSide` |
| `Outbox` | what publishing promises, abstractly: a queue |
| `RabbitSend` | how a process of the distributed server publishes; implements `Outbox` |
| `RabbitTrack` | how a process of customers listens to its talks |
| `WsProxy` | one browser's connection: socket, two goroutines, stream, server |
| `Accounts` | the servicers' accounts: registration, scopes, login |
| `FrontEnd` | `WsProxy` and `Accounts` joined by a token |
| `MCCustomerSide`, `MCServicerSide`, `MCAllInOne`, `MCServicersApart`, `MCRabbitSend`, `MCRabbitTrack`, `MCFrontEnd` | the small instances |
| `ChannelProofs`, `StoreProofs` | lemmas on sequences used as channels, and on the store |
| `CustomerSideProofs`, `ServicerSideProofs`, `ServicersApartProofs`, `FrontEndProofs` | theorems about the module of that name |
| `AllInOneProofs` | that `AllInOne` implements `ServicerSide`, and what follows for both halves |
| `RabbitProofs` | theorems about `RabbitSend`, that it implements `Outbox`, and theorems about `RabbitTrack` |

Operators with a comment that starts with "Mutant" are faulty variants of the
action that follows them. No specification uses them; they show that a property
can be broken.

### Correspondence to the code

Variables keep the names of the Go fields where TLA+ allows it
(`chInstallCustomer`, `customers`, `chSendMessage`, `cachedSendData`,
`trackTalkMap`, ...). A control state stands for the program counter of a
goroutine: `stream` and `service` of the stream handlers, `receiver` and
`serviceReceiver` of the receivers (`"persisted"`: the message is stored and
not yet offered), `loader` of the history goroutine, `routine[r].at` of a track
routine, `handler` and `pump` of the proxy. `customerTodo`, `removing`,
`servicerTodo` and `dismissed` are what the main routine has still to do within
the current case of its `select`; it takes no other case before they are empty
(`AtSelect`).

What is one step:

- An offer to a channel, with both outcomes.
- A store operation: it runs under the lock.
- The cases of a `select`, up to the first point where another goroutine could
  tell the difference. The remaining operations of a case are steps of their
  own (`NextCall`, `KickOut`, `ReloadUser`, `ReadDetached`, `TellServicers`,
  ...), so that store updates of others get in between.
- In `ServicerSide`, a read of the store with the offers made from it: only the
  main routine offers to `chSendMessage`, and a handler taking a response makes
  room, so what others do between the read and the offer can as well be done
  before or after both.
- In `ServicerSide`, `UpdateTalkServiceID` with the `GetTalkServicerID` that
  guards it: in one process only the main routine sets who serves a talk. In
  `ServicersApart` they are two steps (`request` is `"read"` between them).
- A query of the two unbuffered channels gets through only while the main
  routine waits (`Parked`), and may be lost even then.

What is abstracted: a message is its sender's session and that session's
sequence number. Titles, names, time stamps and the ids the store gives to
messages are left out. A response on the servicers' side is a type, the *words*
it says of talks (whether it is open, and, in the two lists, an attach or a
detach, who serves it) and the messages it carries. In `CustomerSide` and
`ServicerSide` a token is the scope it grants, a constant; in `FrontEnd` it is
a user, and the scope is looked up when it is explained.

Some variables only remember what the code loses or has done, and no action
reads them: `overtaken`, `kickLost`, `dropped` (customers); `outpaced`,
`unlisted`, `unheard`, `misled`, `early` (servicers); `published`, `lost` (publishing);
`mishaps` (tracking); `crossed`, `misled` (several processes); `reopened`, `granted`.
`unlisted` has, for each stream, the messages of its user's talks that the list of its
installation lacked. `inbox`,
`serviceInbox`, `heard`, `word`, `shown` and `screen` are what the receivers of
responses and data were given. Properties that hold only "unless it was lost"
name the loss by these variables, so the exceptions are exactly the places
where the code drops something.

**Lists.** `AttachedTalks(s, read)` is what an installation and a query of the
attached talks send: all the talks of the user, and the messages of those in `read`.
A talk whose messages the store fails to give is sent as if it had none, as
`sendAttachedTalks` ignores that error (`servicer_md.go:365`); a store that may fail
gives those of any subset of the talks (`Readings`). When it fails to give the talks
themselves, nothing is sent. A reload (`servicer_md.go:418`) checks the error
of reading the messages, and sends a talk with all of them or not at all.

**The two halves.** `CustomerSide` has no servicers: it is a server at which
only customers write. In a single process `AddTrackTalk` and `RemoveTrackTalk`
do nothing; `AddTrackTalk` may fail where the store may (`StoreMayFail`).
`ServicerSide` sees the customers through what they do to it: they change the
store (`CustomerStep`) and, later, their main routine calls the servicers'
observer. `arriving` holds these calls. They arrive in any order, except that
two messages of one customer keep theirs, and a call may never come (`Lose`),
as a channel on the customers' side was full, or a receiver ended. `CustomerMoves`
says what they may do: close a talk, reopen it, lose a call, and (`"again"`) close
one that is closed or reopen one a second time, which the code allows and the
runs of `ServicerSide` leave out.

`AllInOne` extends `CustomerSide` and instantiates `ServicerSide` over the same
store, the way `allInOneMDIImpl` joins them: a main
routine that tells the mdi something calls the observers of both halves, which
post to the two `chMainRoutineRunner`. `CustomersCall` and `ServicersCall` are
the steps that touch both halves; all others are steps of one. `IsServicerSide`
instantiates `ServicerSide` with `arriving` and `written` computed from the
customers' half (what is in its streams, receivers, channels and main routine
and has still to be told) and requires every behaviour of the composition to be
one of `ServicerSide`, with all of `CustomerMoves`. This justifies the environment
that `ServicerSide` assumes, and, as it is proved, carries its theorems over to the
one process. The order in which a
customer's and a servicer's messages appear may differ on the two sides' screens,
as each side has its own closure channel; the code does not promise otherwise
and no property asks for it.

**Publishing.** `RabbitSend` has the callers, the dial routine, the main routine,
the broker, and the library (`streadway/amqp`), modelled by what it does with the
one notifier that the main routine gives to every channel it opens: a channel that is
shut down hands it its error, if it has one, and closes it (`channelNotice`,
`ChannelShutdown`). The notifier is unbuffered and the channel locked until the
error is read, and it is the main routine that reads it: a `Publish` or a `Close` of
that channel does not return then. A channel that is closed while the notifier
is closed already closes it again, and the library panics. `halt` records the two
(`"stuck"`, `"panic"`); callers and the dial routine go on in the first case, nobody in
the second. `Abstractly` reads `Outbox` off its state: what waits is the
cache followed by the channel, what is out is what was published. A new channel
on which the flush breaks off maps to a step in which some data leave and the
rest is lost.

**Tracking.** `RabbitTrack` models the setting in which every talk has an exchange
(`RabbitMQUseSharedChannel` false); as built, only the fixed exchanges are
consumed, and `routine[Fixed]` is one of those. Watchers are the streams of a
process as far as their controller's main routine calls `AddTrackTalk` and
`RemoveTrackTalk`. A routine's state names what it may be told next:
`"consuming"`, `"broken"` (the channel is gone, the routine not yet told),
`"stopping"` (cancelled, the end not yet reported). `left` marks a routine that
ended without closing its channel.

**Several processes.** `ServicersApart` has one talk and one stream per servicer,
registered and taking all it is sent, as the rest is in `ServicerSide`. Notices
of one process arrive in order at each queue, those of two do not; messages come
by another exchange than notices, so by another queue and another goroutine.

**Front ends.** The two proxies are one module: they differ in which ends they tell
by a close frame (`Relayed`). The server at the other end is `Talk` or
`Service` as far as a stream shows it; in the transport, order is kept, and a
socket that is closed with something unread is reset. `Accounts` has one step
per call of the store of users, so that a registration is two.

## The runs

Bounds named in the modules: `MaxRequests`, `ServiceRequests` (requests of each
stream), `MaxWrites` (messages of each customer), `Leavers`, `Quitters` (who may
hang up), `RequestKinds`, `CustomerMoves`, `Readers` (whose client takes what it
is sent), `Kinds`, `MaxData`, `MaxBreaks`, `MaxTracks`, `MaxDeliveries`,
`MaxFailures`, `MaxAsks`, `MaxMessages`, `MaxResponses`, `MaxUsers`,
`MaxGrants`. Capacities are constants, in Go they are 10 and 100; the instances
take them so small that channels do fill. Two streams, as every property speaks
of at most two; `n+m` are their requests.

`CHECK_DEADLOCK FALSE`: the bounds stop every model in the end; the programs
themselves wait for requests for ever.

### Customers (`MCCustomerSide`)

Capacities are those of the small channels / of the message and closure
channels / of `chSendMessage`.

| Run | Instance | Checks |
|---|---|---|
| `CustomerRelay` | 1 talk, two requests in all by one or by both (`MCTwoRequests`), capacities 1/2/4, symmetric | `NoGap`, `SameOrder`, `SenderOrder` |
| `CustomerLeave` | 2 talks, requests 1+0, capacities 1/2/1, both may hang up, the store may fail | `TypeOK`, `ServedOrKicked`, `ToldIsStored`, `RegistryExplained`: with one place in `chSendMessage` streams are given up and the kick-out may be lost; the two uninstallations contend for one place |
| `CustomerLive` | `FairSpec`, 1 talk, requests 1+0, capacities 2/1/2, one may hang up | `EveryoneHears`, `LeftIsForgotten`, `RemovedLeaves` |

### Servicers (`MCServicerSide`)

One talk, one activity and one business; `s1` has a token for the activity,
`s2` one for everything. Capacities as above. `chSendMessage` of 12 places is
never full in these instances and, with no readers, it is the history of what a
stream was told; where overflow is the question it has few.

| Run | Instance | Checks |
|---|---|---|
| `ServicerTakeover` | two users, attach and detach, requests 2+1, one customer message, the customer closes and reopens, capacities 2/3/12 | `AssignmentTold`, `CloseTold`, `NoGap` while the talk changes hands twice and more |
| `ServicerLeave` | one user, requests 2+0 of all kinds but detach, the second once the talk is served, `s2` reads and may hang up, the store may fail, capacities 1/1/2 | `TypeOK`, `RegistryExplained`, `ToldIsStored`, and `NoGap` where lists may be incomplete and channels overflow |
| `ServicerLive` | `FairSpec`, one user, attach, 1+1, one customer message, calls may be lost, capacities 1/2/4 | `AssigneeHears`, `PendingIsAnnounced` |

`MCClosedEarly` keeps `ServicerTakeover` small: a talk is closed among the first
two requests (the customer having written nothing before the second), and
reopened before any. So there is a close before, between and
after an attach and a detach, which is where words about it may cross.

`MCOnceServed` keeps `ServicerLeave` small: a second request is made, and is no
attach, once the talk is served and `s2`'s stream is installed or, if the request is a
message, waits to be; `s2`'s client then takes one response at most, and none with a
message. So the first request meets the opening of that stream at any moment, and
an attach as well as a message meet its installation.

In `ServicerLive` four places are two more than the answers sent before the
notices in question: the lists of an installation do not give a stream up when
it has no room, they are only logged, and with fewer places it is their loss
one would see.

`AssignmentTold` compares what was last said of who serves a talk; the detach
that announces a creation names nobody and is not taken as a word of that (see
[Limits](#limits)). It leaves out a talk whose announced change the store failed to
note (`misled`): everybody is told of an attach or a detach whether the update
succeeded or not (`servicer_md.go:238`, `:276`).

`CloseTold` leaves out streams whose last word is a detach: that word is read
before the closure is posted (`servicer_md.go:144`) and may be older than the
close it follows. Without the exception TLC finds the property violated.

Both speak of registered streams that are still serving, and had not heard of a talk
before they were installed (`early`): what a query or a reload told a stream that is
not registered yet is not corrected (`servicer_controller.go:246`). In
`ServicerTakeover` neither `misled` nor `early` ever holds anything. With the store
failing and with queries before the installation, as in `ServicerLeave`, both
properties and the invariant behind them (`Words`) were model-checked before they
were proved; what holds in general is the theorem.

### Compositions

| Run | Instance | Checks |
|---|---|---|
| `AllInOne` (`MCAllInOne`) | one customer with one request, who may close; one servicer with two, attach and message; capacities 1/2/4 for customers, 1/1/12 for servicers | `IsServicerSide`, `NobodyMisses` |
| `ServicersApart` (`MCServicersApart`) | two processes with a servicer each, asks 2+1, one customer message, updates may fail | `AgreedUnlessCrossed`, `ServedSeesAll` |
| `FrontEnd` (`MCFrontEnd`) | one browser, two requests, two responses, a window and a socket of one frame; three users, two of one name may register at once, one change of scopes | `FrontTypeOK`, `ServedWhileThere`, `ListenerSeesAll`, `PageIsScoped`; under `FrontFairSpec` `EndIsPassedOn`, `LeaveIsNoticed` |

`MCServedFirst` bounds `AllInOne`: the servicer comes when there is a talk whose
customer is installed, and makes a second request when he serves it and the
customer has made his; the customer's client keeps up. Both
halves' main routines, receivers, the history goroutine and every observer call
interleave freely. One stream on each side is enough for the two properties,
each of which relates one stream to the store; what several streams of one side
do to each other is in the runs of that side.

`NobodyMisses` leaves out, as `NoGap` of either half does, what the code records as
lost. The store does not fail in this run, so that every list is complete.

`AgreedUnlessCrossed` excuses the updates that met a notice of another process on
its way, and those that failed: after the former two servicers may differ for
good on who serves the talk. Three asks suffice for a take, a take-over and a
detach that comes too late.

### RabbitMQ

| Run | Instance | Checks |
|---|---|---|
| `RabbitSend` (`MCRabbitSend`) | three data, two failures of the connection or of the channel at any time | `MqTypeOK`, `InOrder`, `Accounted`, and under `MqFairSpec` `CacheIsFlushed`; `IsAnOutbox`: the refinement |
| `RabbitAddress` (`MCRabbitSend`) | the same, as built (`RabbitMQUseSharedChannel`) | `PublishedWhereAddressed`, **violated**: see the findings |
| `RabbitTrack` (`MCRabbitTrack`) | two streams of one talk or of two, all four channels of one element, two tracks, two data, one failure | `TrackTypeOK`, `OneRoutine`, `EntryExplained`, `HeardInOrder`, and under `TrackFairSpec` `WatchedIsTracked`, `UnwatchedIsFreed` |

`CacheIsFlushed` is promised while the main routine goes on: once it waits for itself,
or the process has panicked, nothing empties the cache. The three safety properties
and the refinement hold in those states as well; a datum whose publication
never returned counts among `lost`.

Three data are what it takes to have one published, one cached and one waiting;
two failures, to fail again while recovering. Two tracks are what it takes to
start a talk again while its first routine ends; data are published to one
exchange, as queues of different exchanges have nothing in common.

## Fairness

- Each goroutine goes on when it can: weak fairness of its steps.
- `select` picks uniformly among the ready cases, so a case that is ready again
  and again is taken: strong fairness of each case. A case is left only when it
  is done: weak fairness of its rest. (The cases of `RabbitTrack` stay ready
  until they are taken, so that weak fairness says the same.)
- Clients need not do anything: no fairness for requests or hang-ups, except
  that a receiver whose stream is over gets its error (the context is cancelled).
- A handler offers its response to the network and, if the client is there, goes
  on: weak fairness of `StreamStep`. On the servicers' side `ServiceSend` is
  possible for readers and quitters only; in the liveness run nobody reads, and
  what a stream was told is counted from `chSendMessage` on.
- The customers' main routine, fair itself, makes its observer calls: weak
  fairness of `CallStep`.
- RabbitMQ: the dial routine retries every second, the tickers of the main
  routine and of the track routines fire again and again, the broker fails
  finitely often (`MaxBreaks`, `MaxFailures`). The library shuts down a channel that
  is broken (`ChannelShutdown`): it serves the notifiers one after the other, and
  none that comes before keeps it waiting.
- A track routine learns that its channel broke only while no routine has left a
  channel open (`NoneLeft` in `GoOn`): the AMQP library tells its listeners one
  after the other, and an abandoned one, whose notifier nobody reads, may stop it.
- Front ends: the proxy's two goroutines run, and a browser that is there reads
  what it is sent. It need not ask, leave or send a token; that a browser has
  vanished is learnt only when a write to it fails, as no deadline is set.

## What is proved

With `tlapm`, for any sets of streams, talks, messages, users and data, any
capacities and any number of failures, from the assumptions in the modules
(`CustomerAssumption`, `ServicerAssumption`, `AllInOneAssumption`, `NoOneAssumption`,
`RabbitAssumption`, `TrackAssumption`, `ApartAssumption`, `WsAssumption`,
`AccountsAssumption`), which say of what kind the constants are, that capacities are
positive, and that the streams of customers and of servicers are different ones:

| Module | Theorem | Says |
|---|---|---|
| `CustomerSideProofs` | `Typed` | `Spec => []TypeOK`; in particular no channel exceeds its capacity |
| | `PipelineInvariant` | `Spec => []Pipeline` |
| | `ToldIsStoredInvariant` | `Spec => []ToldIsStored` |
| | `RegistryExplainedInvariant`, `ServedOrKickedInvariant` | `Spec => []RegistryExplained`, `Spec => []ServedOrKicked` |
| | `NoGapInvariant` | `Spec => []NoGap` |
| | `SenderOrderInvariant`, `SameOrderInvariant` | `Spec => []SenderOrder`, `Spec => []SameOrder` |
| `ServicerSideProofs` | `Typed` | `Spec => []TypeOK` |
| | `PipelineInvariant` | `Spec => []Pipeline` |
| | `ToldIsStoredInvariant` | `Spec => []ToldIsStored` |
| | `RegistryExplainedInvariant` | `Spec => []RegistryExplained` |
| | `NoGapInvariant` | `Spec => []NoGap` |
| | `WordsInvariant` | `Spec => []Words` |
| | `AssignmentToldInvariant`, `CloseToldInvariant` | `Spec => []AssignmentTold`, `Spec => []CloseTold` |
| `AllInOneProofs` | `AllInvariant` | `AllSpec => [](Halves /\ Joint)` |
| | `ImplementsServicerSide` | `AllSpec => IsServicerSide` |
| | `NobodyMissesInvariant` | `AllSpec => []NobodyMisses` |
| | `ServicersHalf` | `AllSpec =>` always `ToldIsStored`, `RegistryExplained`, `NoGap`, `AssignmentTold`, `CloseTold` of `ServicerSide` |
| | `CustomersHalf` | `AllSpec => [](ToldIsStored /\ RegistryExplained /\ ServedOrKicked)` |
| `RabbitProofs` | `MqTyped` | `MqSpec => []MqTypeOK` |
| | `InOrderInvariant` | `MqSpec => []InOrder` |
| | `AccountedInvariant` | `MqSpec => []Accounted` |
| | `OutboxImplemented` | `MqSpec => IsAnOutbox` |
| | `TrackTyped` | `TrackSpec => []TrackTypeOK` |
| | `OneRoutineInvariant` | `TrackSpec => []OneRoutine` |
| | `EntryExplainedInvariant` | `TrackSpec => []EntryExplained` |
| | `HeardInOrderInvariant` | `TrackSpec => []HeardInOrder` |
| `ServicersApartProofs` | `ApartTypedInvariant` | `ApartSpec => []ApartTyped` |
| | `ServedSeesAllInvariant` | `ApartSpec => []ServedSeesAll` |
| | `AgreedUnlessCrossedInvariant` | `ApartSpec => []AgreedUnlessCrossed` |
| `FrontEndProofs` | `FrontTypedInvariant` | `FrontSpec => []FrontTypeOK` |
| | `ServedInvariant` | `FrontSpec => []ServedWhileThere` |
| | `ListenerInvariant` | `FrontSpec => []ListenerSeesAll` |
| | `ScopedInvariant` | `FrontSpec => []PageIsScoped` |

### Customers

*What is told is stored.* `ToldIsStored` by itself is not inductive: what a client
will be told is already on its way in a receiver, a channel, a closure, an observer
call or a history. `Pipeline` says of each of these hops that the messages in it are
in the store under the talk they travel with, and that the registry has a stream
only under its own talk; `TypeOK /\ Pipeline` is inductive. The proof is one
lemma per action. Two facts carry it: the store only grows
(`AddTalkMessage` appends, no operation removes), and the only step that puts a
message on the first hop is the one that has just stored it. Each hop then
copies from the hop before. That the message's talk is not changed on the way
rests on `talkOf` being fixed once a stream has started, which is why
`IdleHasNoTalk` is part of the invariant.

Typing is split in the groups of `TypeOK` (streams, channels, main routine,
sending, memory); a lemma per group says that it is kept by a step that leaves
its variables alone, so that each action's proof deals with what it touches.

*Who is registered.* `RegistryExplained` speaks of the registry, but a stream may be
over while its installation still waits. `Registry` therefore says the same of the
installation channel (`OverExplained`), and that who waits to be uninstalled is over
for good (`LeaversQueued`), so that no later step brings him back. `ServedOrKicked`
is inductive with it.

*Nothing is missed.* `NoGap` is silent about a stream whose history is read and not
sent yet; the message that is stored in between would be lost from sight. `Complete`
counts the history in hand as heard from the moment it is read (`Listening`,
`Known`), and asks that nothing is `Missed` (`GapFree`). At the moment of reading
the history is the store. From then on a message that is
stored is in a receiver's hands, and each hop hands it to the next or drops it with
a full channel; the closure shows it to all who are registered (`Orderly`). It can
only be shown to the right talk's streams as a message is in one talk (`OwnTalk`).
The proof of a step shows more than `GapFree`: no step of the customers' half adds to
what anybody misses (`StepOrderly`), also where others write in the talks, which is
what the one process needs.

*Order.* Order is made in one place, the message channel, and must survive three
hops and two screens. `Line` says of every two messages that lie on different hops
which is the earlier (`HopsOrdered`: screens before closures before calls before the
channel), that each queue is in order, and that whatever is on any hop has left its
sender's hands (`AllPast`), so that the next message of that sender comes behind all
of them. `CustomersFirst` excludes that two calls for customers wait at once. With
this, appending to a screen can invert nothing, which is `SenderOrder` for one
screen and `OneOrder` for two.

### Servicers

`Pipeline` is that of the customers' half for a relay in which the talk travels with
the message and talks change hands: every call, posted or lost, and every operation
of a case speaks of a talk that exists and of a message it holds.

*Who is registered.* An installation is two steps of one case here, between which the
store may change. `Registry` speaks of the streams that are registered, are being
installed (`Installing`) or wait to be; `InstallAlone` says that an installation is
alone in its case, so that no other operation finds it half done.

*Nothing is missed.* `NoGap` holds only while nothing is under way that would send
the talk again (`Settled`), so it is not inductive: it says nothing of what a
take-over leaves open. `Complete` asks of every stream that has been sent its list,
and every talk of its user, that the talk is `Supplied`: either the whole talk is to
be sent again (`Resending`: the attach is posted, called or lost, or the reload that
follows it is an operation of the current case), or every stored message was heard,
is coming, or is one that the list of the installation lacked (`Unlisted`). The step
that sends the list notes what it lacks: the talks whose messages were not read, and
all of them if the list was not read or found no room. Only messages that were in the
store at that moment are in `unlisted`, so those that come later are not
excused. A change of owner makes the first true for the new one. The reload
makes the second true, since it reads the store in the same step. A message's
closure looks the owner up when it runs, which is when the invariant needs it.

*What was said last.* `AssignmentTold` speaks of the moment when all notices are out,
and of nothing before, so it is not inductive. `Words` says what holds all the time:
what is said is said of a talk there is, and a detach's word names nobody
(`WordsKnown`); the last that is said of who serves a talk is what the store says
(`Agreement`), where the last is what the current case has still to announce, else the
last such call posted, else what each registered stream, or one being installed, was
told last; and a stream was told last that a closed talk is closed, or will be told
(`Closing`). A change of hands changes the store and makes the case say so in one step;
`TellServicers` hands that to the posted calls; the closures of attach and detach tell
everybody who stays registered, as whoever has no room is dismissed by the same step;
an installation reads the store, with nothing else left in its case. A call that was
lost, to a full channel or, for a detach, because its word could not be read
(`unheard`), is the one way in which the last word may be missing; `Settled` and
`ClosePending` name it.

### One process

The customers' half is proved about with nobody else at the store, the servicers'
half with customers who are only their moves. `Halves` collects the invariants of
the two (`TypeOK`, `Pipeline`, `Registry` and `Orderly` of the one, `TypeOK` and
`Pipeline` of the other), `Joint` what relates them. A step of the customers' half is
one of `CustomerSide`, so that half's lemmas apply to it as they are; for the
servicers' half it has to be shown to be one of its environment's moves.

*The refinement.* `Arriving`, what the customers have done to the store and not yet
told, is computed from where it lies: `Creations` (streams before their
installation), `Writings` (receivers and the message channel), `Calls` (the main
routine). A step that moves a call from one to the next is a stutter only if no
other copy of it is left behind, and a message must be the next of its sender: that
is the part of `Joint` about order. A talk is created by one stream, which waits
once (`Creators`); the messages in the channel are in order (`InTurn`), and what
the main routine is telling the servicers is the last it has to do and comes before
all of them (`CallsInTurn`); the last number of each customer in the store exists
and is not above his requests (`LastWritten`, `Numbered`). That a receiver's failing
offer is the move `Lose`, that a close is never lost, and that creating a talk and
failing to install changes the store all the same, are the cases of the lemmas
`StreamSeen`, `ReceiverSeen` and `HandleCloseSeen`.

*Nobody misses a message.* With servicers writing, a customer may miss what no
hop of his own half holds. `MissedIsComing` says that it is then `Elsewhere`: in the
hands of a servicer's receiver, in their message channel or with their main
routine, or withheld since the writer does not serve the talk. When the servicers'
main routine calls the customers' observer, the message moves to the closures of
this half or to `dropped` in the same step. The servicers' part of `NobodyMisses` is
`NoGap` of `ServicerSide`, by the refinement, with its excuse: where the store may
fail, what the list of an installation lacked.

### Publishing

*RabbitSend.* `InOrder` speaks of one line, from the broker back to the callers.
A step that moves a datum from `chSend` to the broker while another is cached
would break it, and nothing in `InOrder` says that there is no such step. Its
inductive form is `Queues`: nothing is cached while there is a channel
(`NoCacheWhileOpen`), the published, cached and waiting data are each in order,
each is ahead of those behind, and no number is above `sent`. The proof shows
what each step does to the three sequences (`JoinLine`, `LeaveLine`,
`CacheFirst`, `PublishFirst`, `FlushCache`, for any sequences), and that a step
of `RabbitSend` is one of these. `NoCacheWhileOpen` holds because the cache is
emptied by the very step that opens a channel, also when the broker breaks off
in the middle. `Accounted` rests on `NoneMissing`, the same claim about data
instead of their numbers: no step forgets a datum, and only `SendData` adds one. That the
main routine stops, or the process, changes neither the queues nor what was
published; the datum whose publication did not return is in `lost` by the same step.

*The outbox.* Each step of the routines is mapped to a step of the queue or to a
stutter: a datum is accepted or declined, the oldest leave, or it only moves
from the channel to the cache, which the queue does not see. The step that
publishes straight from the channel is a step of the queue's head only because
nothing is cached then, so the refinement rests on `NoCacheWhileOpen` again.

### Tracking

The main routine decides by its map, the routines live by
themselves, and both learn of each other by events that may be lost.
`OneRoutine` is not inductive: nothing in it says that a start request finds an
entry while the old routine is still ending. `Tracking` ties the map to the
routines by what still travels between them. `LivesInMap`: who lives has an
entry, and is the last that was started for its talk. `EndsReported`: a report
of an end is about a talk whose entry is still there and of whom nobody lives,
and there are never two of them; so removing the entry does not orphan a later
routine. `StartedInTurn` and `FixedStays` say where routines come from and that
nothing cancels the fixed one. `EntryExplained` needs `BeginsReported` as well:
a routine that has still to be heard of has not been cancelled, so its started
event cannot put the cancel function of an ended routine in the entry of its
successor. `HeardInOrder` has an invariant of its own, `Delivering`: what a queue
holds is rising and was published after all that was heard of its exchange. That
two routines never hear one exchange is where `OneRoutine` enters.

### Several processes

`ServedSeesAll` is inductive once it is known that a process's request is one of its
own servicers' (`RequestsAreOwn`): every way by which a message or an attach travels
is one of its disjuncts, and each step hands it from one to the next.

`AgreedUnlessCrossed` speaks of the moment when all notices have arrived; what has to
hold before is `OneSource`. Unless an update crossed a notice, or the last one
failed, there is for each servicer one process from which all news come that he
has still to be told (`ForeignNews` rules out any other), and the last of them - the
request in hand, else the end of the queue to his process, else the last closure
posted there, else the word he was told - says what the store says (`ToldLast`).
An update may replace that process only when no news of another are under way,
which is what `crossed` records otherwise.

### Front ends

`ServedWhileThere` needs to know that a close frame in the socket was written by
whoever it speaks for (`ClosesMeant`), and that the handler opens the stream once
(`OpensOnce`). `ListenerSeesAll` says what is on the screen in the end; on the way,
`OneLine` says that the screen, the frames in the socket, the response in the
goroutine's hand and those in the stream are, one behind the other, the numbers from
1 to `sent`, with the close frame after all of them if it has been written. That a
listener's connection ends only behind that line is `OnlyTheEndCloses` and
`ReasonFollows`: with no request in the socket, the handler has nothing to fail on,
and the socket is never reset.

`PageIsScoped` spans the accounts and the stream: between the page's look at the
scope and the stream's, the scope may change. `Scoped` says of the page's token, and
of the token the stream was opened with, that its user has a scope or was the object
of a grant; no other call takes a scope away, and a token is presented once.

### Only model-checked

All that speaks of fairness (`EveryoneHears`, `LeftIsForgotten`, `RemovedLeaves`,
`AssigneeHears`, `PendingIsAnnounced`, `CacheIsFlushed`, `WatchedIsTracked`,
`UnwatchedIsFreed`, `EndIsPassedOn`, `LeaveIsNoticed`): liveness is out of the prover's
reach.

## Findings

**Cached data are published to the wrong exchange** (`RabbitAddress`). The
comment on `mqData.ChannelID` (`rabbitmq.go:91`) says an empty channel id means
the talk id, and live data are published accordingly (`rabbitmq.go:418-421`).
What had to wait for a send channel goes to the exchange of its talk whatever
channel it names (`rabbitmq.go:349`). With the shared channel, as built, nobody
listens there: messages, closes and notices sent before the first connection,
or while it is re-established, reach no process. TLC shows it in four steps.

## Limits

Seen while modelling, and covered by no property, or by one that excuses it:

- A creation is announced by a detach, possibly after somebody has found the
  talk in his list and taken it (`servicer_md.go:65`). Only the id 0 in it tells
  it from a talk that was let go.
- A talk whose messages cannot be read is sent as an empty one, to a stream that is
  installed and to one that asks for its talks (`servicer_md.go:365`). Nothing tells the
  servicer; a reload brings the messages. `NoGap` excuses those that the talk had when
  the list of the installation was made.
- A list that fails as a whole, or finds no room, is only logged (`servicer_md.go:181`);
  the stream is registered all the same. `NoGap` excuses what it lacked.
- One notifier serves all send channels (`rabbitmq.go:315`). A channel that the main
  routine closes at a new connection closes it (`rabbitmq.go:344`), it may then be
  given to the next channel before the select has read that (`rabbitmq.go:362`), and
  the library panics when that channel is closed. And a channel that breaks may hand
  over its error while the main routine, which alone would read it, is in a call on that
  channel. `CacheIsFlushed` excuses both (`halt`).
- A query made while the main routine is busy is lost (`servicer_controller.go:39`).
- A reload or a query answered before the stream is registered is not corrected
  (`servicer_controller.go:246`); `AssignmentTold` and `CloseTold` leave such streams
  out (`early`).
- Servicers are told of an attach or a detach also when the store failed to note it
  (`servicer_md.go:238`); `AssignmentTold` leaves such talks out (`misled`).
- A reopened talk is announced to no servicer (`customer_server.go:203`);
  `NoGap` and `CloseTold` leave reopened talks out.
- Whoever leaves a talk takes its track away from the streams that stay
  (`customer_md.go:150`): `WatchedIsTracked` promises nothing after that.
- After two processes' updates and notices have crossed, servicers may believe
  different things for good (`servicer_md.go:230`); `AgreedUnlessCrossed` says
  exactly when.
- A browser that vanishes while its stream has nothing to say is never noticed
  (`ws_servicer_server.go:125`).
- Setting scopes rewrites all of a user's data, "permission" included
  (`servicer_user_server.go:222`): an administrator whose scope is set is one no
  more. Modelled (`SetScope`); nothing in the repository says what is meant.
- The scope of a stream is that of its start (`local_servicer_token_helper.go:53`):
  a later change does not reach it.

Not modelled:

- *The servicers' tracks*: an installation asks for a track of each talk the
  servicer has, the end of his last stream gives them up - unless a broadcast has
  already emptied his entry of the registry (`servicer_md.go:205`) - and taking a
  talk asks for none (`servicer_md.go:183`). As built both calls do nothing;
  `RabbitTrack` has the customers' calls, and its routines serve either.
- *Order across exchanges*: a message and a notice of one process may overtake each
  other on the way to a third (`rabbitmq.go:418`). `ServicersApart` has separate
  queues for them; a process of customers and one of servicers are not composed.
- *Customers' accounts*: stateless calls of a library; their result is a constant.
- *The other HTTP handlers* (check, create, list): one request is passed on.
- The decoding of frames: `customerWSReceive` unmarshals what it reads into a
  `ServiceRequest` (`ws_customer_server.go:39`) and passes the bytes it does not
  know on; in the model a frame is a request or is not.
- The code and the reason of the close frame, and the length limit of the latter
  (`ws_customer_server.go`, `ws_servicer_server.go`): in the model a close frame is the
  last a browser is sent.
- A request whose message is nil: in the model a message request has a message.
- The handlers assign to a logger they share (`ws_servicer_server.go:101`), which is a data
  race; nothing but log lines depends on it.
- *Value objects*: field-by-field conversions of data the models abstract.
- *Programs and configuration*: wiring and I/O.
- `QueryTalks` of both servers, the paging of `GetTalkMessages`, `DeleteUser` and
  the listing of users: reads, or never called.
- Shutdown of a whole process; nothing is kept over one.

## Plan

1. `Channels`, `TalkStore`, `CustomerSide`, `ServicerSide`, `RabbitSend`, their
   runs, and the proofs about `CustomerSide` and `RabbitSend` – done.
2. `Outbox` and the refinement, checked and proved – done.
3. `RabbitTrack`, checked and proved – done.
4. `ServicersApart`, `WsProxy`, `Accounts`, `FrontEnd` – done.
5. `AllInOne`, with `ServicerSide` as the specification of one half – done.
6. Proofs of the safety properties of `CustomerSide`, `ServicerSide`, `ServicersApart`
   and `FrontEnd` – done.
7. Proof of the refinement `IsServicerSide`, and of `NobodyMisses` – done.
8. `TalkLife`, an abstract specification of a talk as both sides promise it
   (created, opened, taken, let go, closed; messages only appended), implemented
   by `AllInOne`.
9. A process of customers and one of servicers joined by `Outbox` and
   `RabbitTrack`.
