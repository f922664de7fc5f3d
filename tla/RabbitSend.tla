----------------------------- MODULE RabbitSend -----------------------------
(***************************************************************************)
(* How a process of the distributed server publishes: the routine that     *)
(* dials the broker, and the part of the main routine of rabbitMQImpl that *)
(* owns the send channel and the data cached while there is none.  The     *)
(* broker is external: a connection, or the channel alone, may break at    *)
(* any time, and both routines learn of it later, each by itself.          *)
(*                                                                         *)
(* External, too, is the library (streadway/amqp): a channel that is over  *)
(* hands its error, if there is one, to the notifier it was given and then *)
(* closes the notifier.  The notifier is unbuffered, only the main routine *)
(* reads it, and the library keeps the channel locked until it has: a call *)
(* of the main routine on that channel then waits for itself.  A notifier  *)
(* that is closed already makes the library panic, and the process ends.   *)
(*                                                                         *)
(* The two tickers fire within a second or within an hour; here, at any    *)
(* time.  What has been published and what was lost is kept in published   *)
(* and lost, which no action reads.                                        *)
(***************************************************************************)
EXTENDS Channels, Integers, SequencesExt

CONSTANTS
  TalkIds,          \* talk ids
  SharedChannel,    \* args.RabbitMQUseSharedChannel
  SendDataCap,      \* capacity of chSend
  DialCap,          \* capacity of chConnDialSuccess
  Kinds,            \* bound: the kinds of data that are sent
  MaxData,          \* bound: how many data are sent
  MaxBreaks         \* bound: how often the broker breaks off

ASSUME RabbitAssumption ==
  /\ SharedChannel \in BOOLEAN
  /\ {SendDataCap, DialCap} \subseteq Nat \ {0}
  /\ Kinds \subseteq {"message", "close", "create", "attach", "detach"}
  /\ MaxData \in Nat /\ MaxBreaks \in Nat

VARIABLES
  conn,              \* the connection of the dial routine, which others load
  dialed,            \* chConnDialSuccess: connections announced, unread
  channelSend,       \* the main routine's channel
  channelNotice,     \* sendChannelBrokenNotifier: the library has an error for it,
                     \* or has closed it
  chSend,            \* data accepted and not yet taken by the main routine
  cachedSendData,    \* data taken while there was no channel
  published,         \* what the broker was given: exchange and data
  lost,              \* data whose Publish returned an error
  sent, breaks,      \* counts of SendData calls and of failures
  halt               \* whether the main routine waits for itself, or the process
                     \* has panicked

mqVars == <<conn, dialed, channelSend, channelNotice, chSend, cachedSendData,
            published, lost, sent, breaks, halt>>

\* The nth datum sent.
Data == [n : 1..MaxData, talk : TalkIds, kind : Kinds]

SendExchanges == TalkIds \cup {"C", "servicerC"}

Publication == [exchange : SendExchanges, data : Data]

\* "none" is nil; what is broken is not known to be so by the routine that
\* holds it.
MqTypeOK ==
  /\ conn \in {"none", "up", "broken"} /\ channelSend \in {"none", "up", "broken"}
  /\ dialed \in 0..DialCap /\ channelNotice \in {"quiet", "error", "closed"}
  /\ chSend \in Seq(Data) /\ Len(chSend) <= SendDataCap
  /\ cachedSendData \in Seq(Data)
  /\ published \in Seq(Publication)
  /\ lost \subseteq Data
  /\ sent \in 0..MaxData /\ breaks \in 0..MaxBreaks
  /\ halt \in {"no", "stuck", "panic"}

MqInit ==
  /\ conn = "none" /\ dialed = 0 /\ channelSend = "none" /\ channelNotice = "quiet"
  /\ chSend = <<>> /\ cachedSendData = <<>>
  /\ published = <<>> /\ lost = {}
  /\ sent = 0 /\ breaks = 0 /\ halt = "no"

\* The main routine goes on; the process does, be the main routine stuck or not.
Running == halt = "no"
Alive   == halt # "panic"

-----------------------------------------------------------------------------
\* The ChannelID a datum is sent with; "" is the absence of one.
ChannelID(kind) ==
  CASE kind = "message" -> IF SharedChannel THEN "C" ELSE ""
    [] kind = "close"   -> "C"
    [] OTHER            -> "servicerC"

\* The exchange a datum is meant for: an empty channel id is the talk id.
AddressOf(d) == IF ChannelID(d.kind) = "" THEN d.talk ELSE ChannelID(d.kind)

PublishLive(d) == published' = Append(published, [exchange |-> AddressOf(d), data |-> d])

\* Data that had to wait for a channel go to the exchange of their talk.
Cached(ds) == [i \in DOMAIN ds |-> [exchange |-> ds[i].talk, data |-> ds[i]]]

-----------------------------------------------------------------------------
\* Any goroutine of the process: an observer call to be published.  With the
\* channel full the caller, which ignores the error, has lost it.
SendData(talk, kind) ==
  /\ Alive
  /\ sent < MaxData /\ sent' = sent + 1
  /\ LET d == [n |-> sent + 1, talk |-> talk, kind |-> kind] IN
     IF HasRoom(chSend, SendDataCap)
     THEN chSend' = Append(chSend, d) /\ UNCHANGED lost
     ELSE lost' = lost \cup {d} /\ UNCHANGED chSend
  /\ UNCHANGED <<conn, dialed, channelSend, channelNotice, cachedSendData, published,
                 breaks, halt>>

-----------------------------------------------------------------------------
\* The dial routine.

Dial ==
  /\ Alive /\ conn = "none" /\ conn' = "up"
  /\ dialed' = IF dialed < DialCap THEN dialed + 1 ELSE dialed
  /\ UNCHANGED <<channelSend, channelNotice, chSend, cachedSendData, published, lost,
                 sent, breaks, halt>>

\* Mutant: the broken connection is kept.
ConnBrokenIgnored == conn = "broken" /\ UNCHANGED mqVars

ConnBroken ==
  /\ Alive /\ conn = "broken" /\ conn' = "none"
  /\ UNCHANGED <<dialed, channelSend, channelNotice, chSend, cachedSendData, published,
                 lost, sent, breaks, halt>>

-----------------------------------------------------------------------------
\* The main routine.

\* A new connection: the channel, if there is one, is closed, be it of the old
\* connection or, opened meanwhile, of the new one.  Closing it closes the
\* notifier, which stays the one that the next channel is given.
ConnDialSuccess ==
  /\ Running /\ dialed > 0 /\ dialed' = dialed - 1
  /\ \/ channelSend = "none" /\ UNCHANGED <<channelSend, channelNotice, halt>>
     \/ /\ channelSend # "none" /\ channelNotice = "quiet"
        /\ channelSend' = "none" /\ channelNotice' = "closed" /\ UNCHANGED halt
     \/ /\ channelSend # "none" /\ channelNotice = "error"
        /\ halt' = "stuck" /\ UNCHANGED <<channelSend, channelNotice>>
     \/ /\ channelSend # "none" /\ channelNotice = "closed"
        /\ halt' = "panic" /\ UNCHANGED <<channelSend, channelNotice>>
  /\ UNCHANGED <<conn, chSend, cachedSendData, published, lost, sent, breaks>>

\* Mutant: what was cached is not removed.
OpenChannelKeepsCache ==
  /\ Running /\ channelSend = "none" /\ conn = "up"
  /\ published' = published \o Cached(cachedSendData)
  /\ channelSend' = "up"
  /\ UNCHANGED <<conn, dialed, channelNotice, chSend, cachedSendData, lost, sent,
                 breaks, halt>>

\* The ticker finds no channel and opens one, then publishes what was cached;
\* when the broker breaks off, the rest of it is given up, or never comes to its
\* turn.
OpenChannel ==
  /\ Running /\ channelSend = "none" /\ conn = "up"
  /\ \E done \in 0..Len(cachedSendData) :
     /\ published' = published \o Cached(SubSeq(cachedSendData, 1, done))
     /\ lost' = lost \cup ToSet(SubSeq(cachedSendData, done + 1, Len(cachedSendData)))
     /\ IF done = Len(cachedSendData)
        THEN channelSend' = "up" /\ UNCHANGED <<conn, channelNotice, breaks, halt>>
        ELSE /\ breaks < MaxBreaks /\ breaks' = breaks + 1
             /\ channelSend' = "broken" /\ conn' = "broken"
             /\ \/ UNCHANGED <<channelNotice, halt>>
                \/ /\ channelNotice = "quiet" /\ channelNotice' = "error"
                   /\ halt' = "stuck"
  /\ cachedSendData' = <<>>
  /\ UNCHANGED <<dialed, chSend, sent>>

\* The notifier is ready, with the error of the channel or closed.  The channel is
\* given up, and closed.  When the notifier was closed with an earlier channel, before
\* this one was given it, closing this one closes it again.
SendChannelBroken ==
  /\ Running /\ channelNotice # "quiet"
  /\ \/ /\ channelNotice = "error" \/ channelSend = "none"
        /\ channelSend' = "none" /\ channelNotice' = "quiet" /\ UNCHANGED halt
     \/ /\ channelNotice = "closed" /\ channelSend # "none"
        /\ halt' = "panic" /\ UNCHANGED <<channelSend, channelNotice>>
  /\ UNCHANGED <<conn, dialed, chSend, cachedSendData, published, lost, sent, breaks>>

\* Mutant: without a channel the datum is published to nobody.
TakeDataUncached ==
  /\ Running /\ chSend # <<>> /\ chSend' = Tail(chSend)
  /\ IF channelSend = "up" THEN PublishLive(Head(chSend)) ELSE UNCHANGED published
  /\ UNCHANGED <<conn, dialed, channelSend, channelNotice, cachedSendData, lost, sent,
                 breaks, halt>>

\* Publishing into a broken channel fails - or does not return, when the library
\* waits for its error to be read.
TakeData ==
  /\ Running /\ chSend # <<>> /\ chSend' = Tail(chSend)
  /\ \/ /\ channelSend = "none"
        /\ cachedSendData' = Append(cachedSendData, Head(chSend))
        /\ UNCHANGED <<published, lost, halt>>
     \/ /\ channelSend = "up"
        /\ PublishLive(Head(chSend))
        /\ UNCHANGED <<cachedSendData, lost, halt>>
     \/ /\ channelSend = "broken"
        /\ lost' = lost \cup {Head(chSend)}
        /\ \/ UNCHANGED halt
           \/ channelNotice = "error" /\ halt' = "stuck"
        /\ UNCHANGED <<cachedSendData, published>>
  /\ UNCHANGED <<conn, dialed, channelSend, channelNotice, sent, breaks>>

-----------------------------------------------------------------------------
\* The broker and the library.
BreakConnection ==
  /\ Alive /\ breaks < MaxBreaks /\ breaks' = breaks + 1
  /\ conn = "up" /\ conn' = "broken"
  /\ channelSend' = IF channelSend = "up" THEN "broken" ELSE channelSend
  /\ UNCHANGED <<dialed, channelNotice, chSend, cachedSendData, published, lost, sent,
                 halt>>

BreakChannel ==
  /\ Alive /\ breaks < MaxBreaks /\ breaks' = breaks + 1
  /\ channelSend = "up" /\ channelSend' = "broken"
  /\ UNCHANGED <<conn, dialed, channelNotice, chSend, cachedSendData, published, lost,
                 sent, halt>>

\* The library shuts a broken channel down.
ChannelShutdown ==
  /\ Alive /\ channelSend = "broken"
  /\ \/ channelNotice = "quiet" /\ channelNotice' = "error" /\ UNCHANGED halt
     \/ channelNotice = "closed" /\ halt' = "panic" /\ UNCHANGED channelNotice
  /\ UNCHANGED <<conn, dialed, channelSend, chSend, cachedSendData, published, lost, sent,
                 breaks>>

-----------------------------------------------------------------------------
MqMainStep == ConnDialSuccess \/ OpenChannel \/ SendChannelBroken \/ TakeData

MqNext ==
  \/ \E talk \in TalkIds, kind \in Kinds : SendData(talk, kind)
  \/ Dial \/ ConnBroken
  \/ MqMainStep
  \/ BreakConnection \/ BreakChannel \/ ChannelShutdown

MqSpec == MqInit /\ [][MqNext]_mqVars

\* The dial routine goes on trying, and the broker, which breaks off finitely
\* often, answers in the end.  The library shuts down what is broken: no listener
\* of the connection that it has to tell before keeps it waiting.  The select of the
\* main routine is fair to each of its cases; the ticker fires again and again.
MqFairSpec ==
  /\ MqSpec
  /\ WF_mqVars(Dial) /\ WF_mqVars(ConnBroken) /\ WF_mqVars(ChannelShutdown)
  /\ SF_mqVars(ConnDialSuccess) /\ SF_mqVars(OpenChannel)
  /\ SF_mqVars(SendChannelBroken) /\ SF_mqVars(TakeData)

-----------------------------------------------------------------------------
(***************************************************************************)
(* Properties.                                                             *)
(***************************************************************************)

Numbers(ds) == [i \in DOMAIN ds |-> ds[i].n]

\* Everything on its way through the process, from the broker back to the
\* callers.
Line == Numbers([i \in DOMAIN published |-> published[i].data])
          \o Numbers(cachedSendData) \o Numbers(chSend)

\* A datum is published at most once, and after everything that was sent
\* before it: what is cached while there is no channel is published before
\* anything that comes later, however often the connection breaks.
InOrder == \A i, j \in DOMAIN Line : i < j => Line[i] < Line[j]

\* No datum vanishes without an error: it waits, is cached, was published, or
\* its loss was reported (and ignored).
Accounted == 1..sent \subseteq ToSet(Line) \cup {d.n : d \in lost}

\* What is cached does not stay cached, whatever the broker does - unless the main
\* routine waits for itself in a call on a broken channel, or the process has panicked.
CacheIsFlushed == \A n \in 1..MaxData :
  n \in ToSet(Numbers(cachedSendData))
    ~> n \notin ToSet(Numbers(cachedSendData)) \/ ~Running

\* What the comment on mqData.ChannelID says (rabbitmq.go:91): a datum goes to
\* the channel it names, and only without one to that of its talk.
PublishedWhereAddressed == \A p \in ToSet(published) : p.exchange = AddressOf(p.data)

-----------------------------------------------------------------------------
(***************************************************************************)
(* The inductive invariant behind InOrder.                                 *)
(***************************************************************************)

\* Nothing is cached while there is a channel: opening one empties the cache,
\* and only what is taken without one enters it.
NoCacheWhileOpen == channelSend # "none" => cachedSendData = <<>>

PublishedData == [i \in DOMAIN published |-> published[i].data]

Increasing(ds) == \A i, j \in DOMAIN ds : i < j => ds[i].n < ds[j].n

Earlier(ds, es) == \A i \in DOMAIN ds, j \in DOMAIN es : ds[i].n < es[j].n

\* The three places a datum passes are each in order, and each is ahead of the
\* places behind it; no datum has a number above n.
InLine(pub, cached, waiting, n) ==
  /\ Increasing(pub) /\ Increasing(cached) /\ Increasing(waiting)
  /\ Earlier(pub, cached) /\ Earlier(pub, waiting) /\ Earlier(cached, waiting)
  /\ \A ds \in {pub, cached, waiting} : \A i \in DOMAIN ds : ds[i].n <= n

Queues == NoCacheWhileOpen /\ InLine(PublishedData, cachedSendData, chSend, sent)

-----------------------------------------------------------------------------
(***************************************************************************)
(* The refinement.  Both the channel and the cache hold what waits, and    *)
(* the cache is the older part; only its being empty while a channel is    *)
(* open keeps what is taken from the channel from overtaking it.           *)
(***************************************************************************)

Abstractly == INSTANCE Outbox WITH waiting <- cachedSendData \o chSend,
                                   out <- PublishedData

\* Connections, channels, notifiers and caches come to an outbox: first in, first
\* out, no datum twice, none lost without an error.
IsAnOutbox == Abstractly!OutSpec

-----------------------------------------------------------------------------
(***************************************************************************)
(* The one behind Accounted, datum by datum.                               *)
(***************************************************************************)

Known == ToSet(PublishedData) \cup ToSet(cachedSendData) \cup ToSet(chSend) \cup lost

NoneMissing == \A n \in 1..sent : \E d \in Known : d.n = n
=============================================================================
