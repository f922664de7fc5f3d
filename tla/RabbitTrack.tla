----------------------------- MODULE RabbitTrack -----------------------------
(***************************************************************************)
(* How a customers' process of the distributed server listens to talks,    *)
(* when every talk has an exchange of its own (RabbitMQUseSharedChannel    *)
(* false): the streams ask for a talk to be tracked, the main routine of   *)
(* rabbitMQImpl starts and cancels a routine for it, and the routine       *)
(* consumes a queue bound to the exchange.  One more routine, which is in  *)
(* no map, consumes the fixed exchange "C".  The one that consumes         *)
(* "customerC", to which nothing is ever published, is left out.           *)
(*                                                                         *)
(* The four channels between the callers, the main routine and the track   *)
(* routines lose what does not fit.  The routines announce themselves      *)
(* (started) and report their end (stopped); the map knows a talk from the *)
(* start request to the stopped event.                                     *)
(*                                                                         *)
(* External: the broker.  Its channels may break whenever they like, and   *)
(* setting one up may fail; a broken channel takes the queue with it (it   *)
(* is exclusive and deleted with its consumer).                            *)
(***************************************************************************)
EXTENDS Channels, Integers, SequencesExt

CONSTANTS
  TrackedTalks,     \* talk ids
  Watchers,         \* the streams that install themselves
  TalkChoices,      \* bound: the talks they may be streams of
  RequestCap,       \* capacity of the two request channels
  EventCap,         \* capacity of the two event channels
  MaxTracks,        \* bound: how often a talk starts to be tracked
  PublishedTo,      \* bound: the exchanges that data are published to
  MaxDeliveries,    \* bound: how many data
  MaxFailures       \* bound: channels that break or cannot be set up

ASSUME TrackAssumption ==
  /\ TalkChoices \subseteq [Watchers -> TrackedTalks]
  /\ "C" \notin TrackedTalks /\ PublishedTo \subseteq TrackedTalks \cup {"C"}
  /\ {RequestCap, EventCap} \subseteq Nat \ {0}
  /\ {MaxTracks, MaxDeliveries, MaxFailures} \subseteq Nat

VARIABLES
  watcher, talkOf,  \* where each stream is, and the talk it is a stream of
  startRequests, stopRequests,   \* chTalkTrackStartRequest, chTalkTrackStopRequest
  startedEvents, stoppedEvents,  \* chTalkTrackStartedEvent, chTalkTrackStoppedEvent
  trackTalkMap,     \* the talks that have an entry
  cancelOf,         \* the routine whose cancel function an entry holds; 0 is nil
  routine,          \* the track routines
  tracks,           \* how many of them were started
  publishes,        \* how many data were published
  failures,
  heard,            \* what the observer was given of each exchange
  mishaps           \* the stops that were lost

trackVars == <<watcher, talkOf, startRequests, stopRequests, startedEvents, stoppedEvents,
               trackTalkMap, cancelOf, routine, tracks, publishes, failures, heard,
               mishaps>>
watchVars   == <<watcher, talkOf>>
requestVars == <<startRequests, stopRequests>>
eventVars   == <<startedEvents, stoppedEvents>>
mapVars     == <<trackTalkMap, cancelOf>>
brokerVars  == <<publishes, failures>>

\* specialTalkAll, and the routine that consumes it.
Shared == "C"
Fixed  == 1

Routines  == 1..(1 + MaxTracks)
Exchanges == TrackedTalks \cup {Shared}

\* "setup": deliveries is nil.  "consuming": a queue is bound, and queue holds
\* what the broker put into it.  "broken": the channel is gone and the routine
\* has not been told, but may still be given what was fetched before.  "left":
\* it ended while its channel was open; nobody closes that, nor reads on.
Routine ==
  [ talk      : Exchanges,
    at        : {"unused", "starting", "setup", "consuming", "broken", "stopping",
                 "ended"},
    cancelled : BOOLEAN,
    left      : BOOLEAN,
    queue     : Seq(Nat) ]

\* A stop request or a stopped event that found no room; a stop request that
\* came before there was a routine it could stop.
Mishap == {"stopLost", "stoppedLost", "stopMissed"} \X TrackedTalks

Note(what, t) == mishaps' = mishaps \cup {<<what, t>>}

NewRoutine(t) == [talk |-> t, at |-> "starting", cancelled |-> FALSE,
                  left |-> FALSE, queue |-> <<>>]

TrackInit ==
  /\ watcher = [w \in Watchers |-> "away"] /\ talkOf \in TalkChoices
  /\ startRequests = <<>> /\ stopRequests = <<>>
  /\ startedEvents = <<>> /\ stoppedEvents = <<>>
  /\ trackTalkMap = {} /\ cancelOf = [t \in TrackedTalks |-> 0]
  /\ routine = [r \in Routines |-> IF r = Fixed THEN NewRoutine(Shared)
                                   ELSE [NewRoutine(Shared) EXCEPT !.at = "unused"]]
  /\ tracks = 1
  /\ publishes = 0 /\ failures = 0 /\ heard = [e \in Exchanges |-> <<>>] /\ mishaps = {}

TrackTypeOK ==
  /\ watcher \in [Watchers -> {"away", "installed", "refused", "gone"}]
  /\ talkOf \in [Watchers -> TrackedTalks]
  /\ startRequests \in Seq(TrackedTalks) /\ Len(startRequests) <= RequestCap
  /\ stopRequests \in Seq(TrackedTalks) /\ Len(stopRequests) <= RequestCap
  /\ startedEvents \in Seq(Routines) /\ Len(startedEvents) <= EventCap
  /\ stoppedEvents \in Seq(TrackedTalks) /\ Len(stoppedEvents) <= EventCap
  /\ trackTalkMap \subseteq TrackedTalks
  /\ cancelOf \in [TrackedTalks -> Routines \cup {0}]
  /\ routine \in [Routines -> Routine]
  /\ tracks \in 1..(1 + MaxTracks) /\ publishes \in Nat /\ failures \in Nat
  /\ heard \in [Exchanges -> Seq(Nat)]
  /\ mishaps \subseteq Mishap

-----------------------------------------------------------------------------
\* The streams, by way of the main routine of their controller.

\* A stream whose talk is not in the store, or whose request is lost, is refused.
InstallWatcher(w) ==
  /\ watcher[w] = "away"
  /\ \/ /\ watcher' = [watcher EXCEPT ![w] = "refused"]
        /\ UNCHANGED startRequests
     \/ /\ HasRoom(startRequests, RequestCap)
        /\ startRequests' = Append(startRequests, talkOf[w])
        /\ watcher' = [watcher EXCEPT ![w] = "installed"]
  /\ UNCHANGED <<talkOf, stopRequests, eventVars, mapVars, routine, tracks, brokerVars,
                 heard, mishaps>>

\* Whoever leaves stops the track: he does so though others of the talk stay,
\* and though he was refused himself.
UninstallWatcher(w) ==
  /\ watcher[w] \in {"installed", "refused"}
  /\ watcher' = [watcher EXCEPT ![w] = "gone"]
  /\ IF HasRoom(stopRequests, RequestCap)
     THEN stopRequests' = Append(stopRequests, talkOf[w]) /\ UNCHANGED mishaps
     ELSE Note("stopLost", talkOf[w]) /\ UNCHANGED stopRequests
  /\ UNCHANGED <<talkOf, startRequests, eventVars, mapVars, routine, tracks, brokerVars,
                 heard>>

-----------------------------------------------------------------------------
\* The main routine.

\* A talk that has an entry is not tracked again, be it that its routine is
\* about to end.
StartRequest ==
  /\ startRequests # <<>> /\ startRequests' = Tail(startRequests)
  /\ LET t == Head(startRequests) IN
     IF t \in trackTalkMap
     THEN UNCHANGED <<mapVars, routine, tracks>>
     ELSE /\ tracks < 1 + MaxTracks /\ tracks' = tracks + 1
          /\ trackTalkMap' = trackTalkMap \cup {t}
          /\ routine' = [routine EXCEPT ![tracks + 1] = NewRoutine(t)]
          /\ UNCHANGED cancelOf
  /\ UNCHANGED <<watchVars, stopRequests, eventVars, brokerVars, heard, mishaps>>

\* Mutant: the entry goes with the stop request.
StopRequestForgets ==
  /\ stopRequests # <<>> /\ stopRequests' = Tail(stopRequests)
  /\ LET t == Head(stopRequests) IN
     IF t \in trackTalkMap /\ cancelOf[t] # 0
     THEN /\ routine' = [routine EXCEPT ![cancelOf[t]].cancelled = TRUE]
          /\ trackTalkMap' = trackTalkMap \ {t} /\ cancelOf' = [cancelOf EXCEPT ![t] = 0]
          /\ UNCHANGED mishaps
     ELSE Note("stopMissed", t) /\ UNCHANGED <<mapVars, routine>>
  /\ UNCHANGED <<watchVars, startRequests, eventVars, tracks, brokerVars, heard>>

\* Without an entry, or before the routine has been heard of, nothing stops.
StopRequest ==
  /\ stopRequests # <<>> /\ stopRequests' = Tail(stopRequests)
  /\ LET t == Head(stopRequests) IN
     IF t \in trackTalkMap /\ cancelOf[t] # 0
     THEN /\ routine' = [routine EXCEPT ![cancelOf[t]].cancelled = TRUE]
          /\ IF routine[cancelOf[t]].cancelled THEN Note("stopMissed", t)
             ELSE UNCHANGED mishaps
     ELSE Note("stopMissed", t) /\ UNCHANGED routine
  /\ UNCHANGED <<watchVars, startRequests, eventVars, mapVars, tracks, brokerVars, heard>>

\* Mutant: the cancel function is not kept.
StartedEventIgnored ==
  /\ startedEvents # <<>> /\ startedEvents' = Tail(startedEvents)
  /\ UNCHANGED <<watchVars, requestVars, stoppedEvents, mapVars, routine, tracks, brokerVars,
                 heard, mishaps>>

StartedEvent ==
  /\ startedEvents # <<>> /\ startedEvents' = Tail(startedEvents)
  /\ LET r == Head(startedEvents) IN
     cancelOf' = IF routine[r].talk \in trackTalkMap
                 THEN [cancelOf EXCEPT ![routine[r].talk] = r] ELSE cancelOf
  /\ UNCHANGED <<watchVars, requestVars, stoppedEvents, trackTalkMap, routine, tracks,
                 brokerVars, heard, mishaps>>

\* The entry goes with what it holds; its routine, if it is still there, is
\* cancelled once more.
StoppedEvent ==
  /\ stoppedEvents # <<>> /\ stoppedEvents' = Tail(stoppedEvents)
  /\ LET t == Head(stoppedEvents) IN
     /\ trackTalkMap' = trackTalkMap \ {t}
     /\ cancelOf' = [cancelOf EXCEPT ![t] = 0]
     /\ routine' = IF t \in trackTalkMap /\ cancelOf[t] # 0
                   THEN [routine EXCEPT ![cancelOf[t]].cancelled = TRUE] ELSE routine
  /\ UNCHANGED <<watchVars, requestVars, startedEvents, tracks, brokerVars, heard, mishaps>>

-----------------------------------------------------------------------------
\* The routine of a talk.  Between two cases of its select it may have been
\* cancelled and have something to read at the same time: either may be taken.

Move(r, to) == routine' = [routine EXCEPT ![r].at = to]

\* It tells the main routine how it is cancelled, if there is room; the event
\* of a fixed routine finds no entry.
Announce(r) ==
  /\ routine[r].at = "starting" /\ Move(r, "setup")
  /\ startedEvents' = IF HasRoom(startedEvents, EventCap) THEN Append(startedEvents, r)
                      ELSE startedEvents
  /\ UNCHANGED <<watchVars, requestVars, stoppedEvents, mapVars, tracks, brokerVars, heard,
                 mishaps>>

\* Mutant: it looks only while there is nothing to consume.
ContextDoneIdle(r) ==
  /\ routine[r].cancelled /\ routine[r].at = "setup" /\ Move(r, "stopping")
  /\ UNCHANGED <<watchVars, requestVars, eventVars, mapVars, tracks, brokerVars, heard,
                 mishaps>>

ContextDone(r) ==
  /\ routine[r].cancelled /\ routine[r].at \in {"setup", "consuming", "broken"}
  /\ routine' = [routine EXCEPT ![r] = [@ EXCEPT !.at = "stopping", !.queue = <<>>,
                                                 !.left = routine[r].at # "setup"]]
  /\ UNCHANGED <<watchVars, requestVars, eventVars, mapVars, tracks, brokerVars, heard,
                 mishaps>>

\* The ticker finds no deliveries and sets up a channel and a new queue.
SetUp(r) ==
  /\ routine[r].at = "setup"
  /\ routine' = [routine EXCEPT ![r] = [@ EXCEPT !.at = "consuming", !.queue = <<>>]]
  /\ UNCHANGED <<watchVars, requestVars, eventVars, mapVars, tracks, brokerVars, heard,
                 mishaps>>

\* It tries again a second later.
SetUpFails(r) ==
  /\ routine[r].at = "setup"
  /\ failures < MaxFailures /\ failures' = failures + 1
  /\ UNCHANGED <<watchVars, requestVars, eventVars, mapVars, routine, tracks, publishes,
                 heard, mishaps>>

\* Mutant: the closed deliveries are kept, and the ticker passes them by.
ChannelBrokenKeeps(r) ==
  /\ routine[r].at = "broken" /\ UNCHANGED trackVars

\* What is still in the queue is given up.
ChannelBroken(r) ==
  /\ routine[r].at = "broken"
  /\ routine' = [routine EXCEPT ![r] = [@ EXCEPT !.at = "setup", !.queue = <<>>]]
  /\ UNCHANGED <<watchVars, requestVars, eventVars, mapVars, tracks, brokerVars, heard,
                 mishaps>>

Deliver(r) ==
  /\ routine[r].at \in {"consuming", "broken"} /\ routine[r].queue # <<>>
  /\ routine' = [routine EXCEPT ![r].queue = Tail(@)]
  /\ heard' = [heard EXCEPT ![routine[r].talk] = Append(@, Head(routine[r].queue))]
  /\ UNCHANGED <<watchVars, requestVars, eventVars, mapVars, tracks, brokerVars, mishaps>>

\* Mutant: the end of a routine is not reported.
ReportNothing(r) ==
  /\ routine[r].at = "stopping" /\ Move(r, "ended")
  /\ UNCHANGED <<watchVars, requestVars, eventVars, mapVars, tracks, brokerVars, heard,
                 mishaps>>

ReportStopped(r) ==
  /\ routine[r].at = "stopping" /\ Move(r, "ended")
  /\ IF HasRoom(stoppedEvents, EventCap)
     THEN stoppedEvents' = Append(stoppedEvents, routine[r].talk) /\ UNCHANGED mishaps
     ELSE Note("stoppedLost", routine[r].talk) /\ UNCHANGED stoppedEvents
  /\ UNCHANGED <<watchVars, requestVars, startedEvents, mapVars, tracks, brokerVars, heard>>

-----------------------------------------------------------------------------
\* The broker.

\* Somebody publishes to an exchange, and every queue bound to it gets a copy.
Publish(exchange) ==
  /\ publishes < MaxDeliveries /\ publishes' = publishes + 1
  /\ routine' = [r \in Routines |->
                   IF routine[r].at = "consuming" /\ routine[r].talk = exchange
                   THEN [routine[r] EXCEPT !.queue = Append(@, publishes + 1)]
                   ELSE routine[r]]
  /\ UNCHANGED <<watchVars, requestVars, eventVars, mapVars, tracks, failures, heard,
                 mishaps>>

BreakTrackChannel(r) ==
  /\ routine[r].at = "consuming"
  /\ failures < MaxFailures /\ failures' = failures + 1
  /\ Move(r, "broken")
  /\ UNCHANGED <<watchVars, requestVars, eventVars, mapVars, tracks, publishes, heard,
                 mishaps>>

-----------------------------------------------------------------------------
TrackMainStep == StartRequest \/ StopRequest \/ StartedEvent \/ StoppedEvent

TrackRoutineStep(r) ==
  \/ Announce(r) \/ ContextDone(r) \/ SetUp(r) \/ SetUpFails(r)
  \/ ChannelBroken(r) \/ Deliver(r) \/ ReportStopped(r)

TrackNext ==
  \/ \E w \in Watchers : InstallWatcher(w) \/ UninstallWatcher(w)
  \/ TrackMainStep
  \/ \E r \in Routines : TrackRoutineStep(r) \/ BreakTrackChannel(r)
  \/ \E exchange \in PublishedTo : Publish(exchange)

TrackSpec == TrackInit /\ [][TrackNext]_trackVars

\* A routine that left its channel open is never told that it broke, and the
\* broker's library, which tells one after the other, may wait for it forever.
NoneLeft == \A r \in Routines : ~routine[r].left

\* What a routine does next, if its context is not done; one of them at a time.
GoOn(r) ==
  Announce(r) \/ SetUp(r) \/ (NoneLeft /\ ChannelBroken(r)) \/ ReportStopped(r)

\* Every select is fair to its cases, which stay ready until they are taken, the
\* tickers fire again and again, and the broker, which fails finitely often, sets
\* a channel up in the end.  A stream need not come, nor leave.
TrackFairSpec ==
  /\ TrackSpec
  /\ WF_trackVars(StartRequest) /\ WF_trackVars(StopRequest)
  /\ WF_trackVars(StartedEvent) /\ WF_trackVars(StoppedEvent)
  /\ \A r \in Routines \ {Fixed} : WF_trackVars(GoOn(r)) /\ WF_trackVars(ContextDone(r))

-----------------------------------------------------------------------------
(***************************************************************************)
(* Properties.                                                             *)
(***************************************************************************)

Live(r) == routine[r].at \notin {"unused", "ended"}

\* The routines started for a talk, dead or alive.
RoutinesOf(t) == {r \in Routines : routine[r].at # "unused" /\ routine[r].talk = t}

\* A talk has at most one routine, also while one is being stopped and the next
\* stream asks: two would hand every message to the observer twice.
OneRoutine == \A r, q \in Routines :
  Live(r) /\ Live(q) /\ routine[r].talk = routine[q].talk => r = q

\* The map, which only the main routine knows, follows what the routines do: who
\* lives has an entry; an entry without a routine is about to be removed, or the
\* stopped event was lost; and the cancel function in an entry is that of the
\* last routine, never of one that was there before.
EntryExplained == \A t \in TrackedTalks :
  /\ (\E r \in RoutinesOf(t) : Live(r)) => t \in trackTalkMap
  /\ t \in trackTalkMap =>
       \/ \E r \in RoutinesOf(t) : Live(r)
       \/ t \in ToSet(stoppedEvents) \/ <<"stoppedLost", t>> \in mishaps
  /\ cancelOf[t] # 0 =>
       /\ t \in trackTalkMap
       /\ cancelOf[t] \in RoutinesOf(t) /\ \A r \in RoutinesOf(t) : r <= cancelOf[t]

\* Of one exchange, what is heard is heard once and in the order it was published,
\* whatever breaks, and whichever routine of the talk heard it.
HeardInOrder == \A e \in Exchanges : \A i, j \in DOMAIN heard[e] :
  i < j => heard[e][i] < heard[e][j]

\* As long as nobody of the talk leaves, its watchers hear it, and after every
\* failure they will again.  With a channel left open this may not be so.
WatchedIsTracked == \A w \in Watchers :
  watcher[w] = "installed" ~>
    \/ \E r \in RoutinesOf(talkOf[w]) : routine[r].at = "consuming"
    \/ \E v \in Watchers : talkOf[v] = talkOf[w] /\ watcher[v] = "gone"
    \/ ~NoneLeft

\* When all who came are gone the routine ends, unless a stop was lost: for want
\* of room, or because it overtook the start it was to undo.
UnwatchedIsFreed == \A t \in TrackedTalks :
  (\A w \in Watchers : talkOf[w] = t => watcher[w] = "gone") ~>
    \/ \A r \in RoutinesOf(t) : ~Live(r)
    \/ {<<"stopLost", t>>, <<"stopMissed", t>>} \cap mishaps # {}

-----------------------------------------------------------------------------
(***************************************************************************)
(* The inductive invariants behind OneRoutine, EntryExplained and          *)
(* HeardInOrder.  The main routine decides by its map, the routines live   *)
(* by themselves; what ties the two is what still travels between them.    *)
(***************************************************************************)

\* The routine of "C" is in no map, so nothing can cancel it.
FixedStays ==
  /\ routine[Fixed].talk = Shared /\ ~routine[Fixed].cancelled
  /\ routine[Fixed].at \in {"starting", "setup", "consuming", "broken"}
  /\ \A t \in TrackedTalks : cancelOf[t] # Fixed

\* Routines are started one after the other, for talks.
StartedInTurn == \A r \in Routines \ {Fixed} :
  /\ r > tracks => routine[r].at = "unused"
  /\ r <= tracks => routine[r].at # "unused" /\ routine[r].talk \in TrackedTalks

\* Who lives has an entry, and is the last that was started for its talk.
LivesInMap == \A r \in Routines : Live(r) =>
  /\ r # Fixed => routine[r].talk \in trackTalkMap
  /\ \A q \in RoutinesOf(routine[r].talk) : q <= r

\* A report of an end is about a talk that still has its entry, and nobody of the
\* talk lives; there are never two of one talk.
EndsReported ==
  /\ ToSet(stoppedEvents) \subseteq trackTalkMap
  /\ \A r \in Routines : Live(r) => routine[r].talk \notin ToSet(stoppedEvents)
  /\ \A i, j \in DOMAIN stoppedEvents : i # j => stoppedEvents[i] # stoppedEvents[j]

Tracking == FixedStays /\ StartedInTurn /\ LivesInMap /\ EndsReported

\* A routine that has still to be heard of cannot have been cancelled, so it
\* lives; and it is heard of once.
BeginsReported ==
  /\ \A r \in ToSet(startedEvents) : Live(r) /\ routine[r].at # "starting"
  /\ \A i, j \in DOMAIN startedEvents : i # j => startedEvents[i] # startedEvents[j]
  /\ \A r \in Routines :
       r \in ToSet(startedEvents) \/ routine[r].at \in {"unused", "starting"} =>
         /\ ~routine[r].cancelled /\ routine[r].at \notin {"stopping", "ended"}
         /\ \A t \in TrackedTalks : cancelOf[t] # r

Rising(s) == \A i, j \in DOMAIN s : i < j => s[i] < s[j]

\* What a queue holds was published after all that was heard of its exchange, and
\* only who has deliveries has a queue.
Delivering ==
  /\ \A e \in Exchanges :
       Rising(heard[e]) /\ \A i \in DOMAIN heard[e] : heard[e][i] <= publishes
  /\ \A r \in Routines : LET queue == routine[r].queue  talk == routine[r].talk IN
       /\ Rising(queue) /\ \A j \in DOMAIN queue : queue[j] <= publishes
       /\ \A i \in DOMAIN heard[talk], j \in DOMAIN queue : heard[talk][i] < queue[j]
       /\ routine[r].at \notin {"consuming", "broken"} => queue = <<>>
=============================================================================
