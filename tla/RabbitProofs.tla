---------------------------- MODULE RabbitProofs ----------------------------
(***************************************************************************)
(* Proofs about rabbitmq.go, for any number of data, of failures, streams, *)
(* talks and tracks, and any capacities.  Of its publishing (RabbitSend):  *)
(* MqTypeOK, InOrder and Accounted, and that it implements Outbox, as      *)
(* every step of the publishing routines is a step of the outbox, or       *)
(* leaves it alone.  Of its tracking of talks (RabbitTrack): typing,       *)
(* OneRoutine, EntryExplained and HeardInOrder.                            *)
(***************************************************************************)
EXTENDS RabbitSend, RabbitTrack, ChannelProofs, SequenceTheorems

-----------------------------------------------------------------------------
(* MqTypeOK. *)

\* Every datum is addressed to an exchange there is.
LEMMA Addressed ==
  ASSUME NEW d \in Data
  PROVE  AddressOf(d) \in SendExchanges /\ d.talk \in SendExchanges
<1>1. d.talk \in TalkIds
  BY DEF Data
<1>2. ChannelID(d.kind) \in {"", "C", "servicerC"}
  BY DEF ChannelID
<1> QED  BY <1>1, <1>2 DEF AddressOf, SendExchanges

\* What was cached can be published: a datum of the talk's exchange each.
LEMMA CachedTyped ==
  ASSUME NEW ds \in Seq(Data)
  PROVE  /\ Cached(ds) \in Seq(Publication) /\ Len(Cached(ds)) = Len(ds)
         /\ \A i \in 1..Len(ds) : Cached(ds)[i].data = ds[i]
<1>1. \A i \in 1..Len(ds) : ds[i] \in Data
  OBVIOUS
<1>2. \A i \in 1..Len(ds) : [exchange |-> ds[i].talk, data |-> ds[i]] \in Publication
  BY <1>1, Addressed DEF Publication
<1>3. DOMAIN ds = 1..Len(ds) /\ Len(ds) \in Nat
  OBVIOUS
<1> QED  BY <1>2, <1>3 DEF Cached

LEMMA InitTyped == MqInit => MqTypeOK
<1> SUFFICES ASSUME MqInit PROVE MqTypeOK
  OBVIOUS
<1>1. <<>> \in Seq(Data) /\ <<>> \in Seq(Publication)
  OBVIOUS
<1>2. dialed \in 0..DialCap /\ sent \in 0..MaxData /\ breaks \in 0..MaxBreaks
  BY RabbitAssumption DEF MqInit, RabbitAssumption
<1>3. chSend \in Seq(Data) /\ Len(chSend) <= SendDataCap /\ cachedSendData \in Seq(Data)
  BY <1>1, RabbitAssumption DEF MqInit, RabbitAssumption
<1>4. published \in Seq(Publication) /\ lost \subseteq Data
  BY <1>1 DEF MqInit
<1>5. channelNotice \in {"quiet", "error", "closed"} /\ halt \in {"no", "stuck", "panic"}
  BY DEF MqInit
<1>6. conn \in {"none", "up", "broken"} /\ channelSend \in {"none", "up", "broken"}
  BY DEF MqInit
<1> QED  BY <1>2, <1>3, <1>4, <1>5, <1>6 DEF MqTypeOK

\* What the first part of a sequence of data is, and the rest of it.
LEMMA Prefix ==
  ASSUME NEW ds \in Seq(Data), NEW done \in 0..Len(ds)
  PROVE  /\ SubSeq(ds, 1, done) \in Seq(Data) /\ Len(SubSeq(ds, 1, done)) = done
         /\ \A i \in 1..done : SubSeq(ds, 1, done)[i] = ds[i]
OBVIOUS

LEMMA Rest ==
  ASSUME NEW ds \in Seq(Data), NEW done \in 0..Len(ds)
  PROVE  /\ ToSet(SubSeq(ds, done + 1, Len(ds))) \subseteq Data
         /\ \A i \in 1..Len(ds) : i > done => ds[i] \in ToSet(SubSeq(ds, done + 1, Len(ds)))
<1> DEFINE rest == SubSeq(ds, done + 1, Len(ds))
<1>1. /\ rest \in Seq(Data) /\ Len(rest) = Len(ds) - done /\ DOMAIN rest = 1..(Len(ds) - done)
      /\ \A i \in 1..(Len(ds) - done) : rest[i] = ds[done + i]
  OBVIOUS
<1>2. ToSet(rest) \subseteq Data
  BY <1>1 DEF ToSet
<1>3. ASSUME NEW i \in 1..Len(ds), i > done
      PROVE  ds[i] \in ToSet(rest)
  <2>1. i - done \in 1..(Len(ds) - done) /\ done + (i - done) = i
    BY <1>3
  <2>2. rest[i - done] = ds[i]
    BY <1>1, <2>1
  <2> QED  BY <1>1, <2>1, <2>2 DEF ToSet
<1> QED  BY <1>2, <1>3

LEMMA StepTyped == MqTypeOK /\ [MqNext]_mqVars => MqTypeOK'
<1> SUFFICES ASSUME MqTypeOK, [MqNext]_mqVars PROVE MqTypeOK'
  OBVIOUS
<1> USE RabbitAssumption DEF MqTypeOK, RabbitAssumption
<1>1. CASE UNCHANGED mqVars
  BY <1>1 DEF mqVars
<1>2. ASSUME NEW talk \in TalkIds, NEW kind \in Kinds, SendData(talk, kind)
      PROVE  MqTypeOK'
  <2> DEFINE d == [n |-> sent + 1, talk |-> talk, kind |-> kind]
  <2>1. d \in Data /\ sent + 1 \in 0..MaxData
    BY <1>2 DEF SendData, Data
  <2>2. CASE HasRoom(chSend, SendDataCap)
    <3>1. chSend' = Append(chSend, d) /\ UNCHANGED lost
      BY <1>2, <2>2 DEF SendData
    <3>2. chSend' \in Seq(Data) /\ Len(chSend') <= SendDataCap
      BY <2>1, <2>2, <3>1, SendTyped
    <3> QED  BY <1>2, <2>1, <3>1, <3>2 DEF SendData
  <2>3. CASE ~HasRoom(chSend, SendDataCap)
    BY <1>2, <2>1, <2>3 DEF SendData
  <2> QED  BY <2>2, <2>3
<1>3. CASE Dial
  BY <1>3 DEF Dial
<1>4. CASE ConnBroken
  BY <1>4 DEF ConnBroken
<1>5. CASE ConnDialSuccess
  BY <1>5 DEF ConnDialSuccess
<1>6. CASE OpenChannel
  <2>1. PICK done \in 0..Len(cachedSendData) :
          /\ published' = published \o Cached(SubSeq(cachedSendData, 1, done))
          /\ lost' = lost \cup
                       ToSet(SubSeq(cachedSendData, done + 1, Len(cachedSendData)))
    BY <1>6 DEF OpenChannel
  <2>2. published' \in Seq(Publication)
    <3>1. Cached(SubSeq(cachedSendData, 1, done)) \in Seq(Publication)
      BY Prefix, CachedTyped
    <3> QED  BY <2>1, <3>1
  <2>3. lost' \subseteq Data
    BY <2>1, Rest
  <2>4. <<>> \in Seq(Data)
    OBVIOUS
  <2>5. /\ \/ channelSend' = "up" /\ UNCHANGED <<conn, breaks>>
           \/ /\ channelSend' = "broken" /\ conn' = "broken"
              /\ breaks < MaxBreaks /\ breaks' = breaks + 1
        /\ \/ channelNotice' = channelNotice /\ halt' = halt
           \/ channelNotice' = "error" /\ halt' = "stuck"
    <3>1. \E upTo \in 0..Len(cachedSendData) :
            \/ /\ channelSend' = "up" /\ conn' = conn /\ breaks' = breaks
               /\ channelNotice' = channelNotice /\ halt' = halt
            \/ /\ breaks < MaxBreaks /\ breaks' = breaks + 1
               /\ channelSend' = "broken" /\ conn' = "broken"
               /\ \/ channelNotice' = channelNotice /\ halt' = halt
                  \/ channelNotice' = "error" /\ halt' = "stuck"
      BY <1>6, Zenon DEF OpenChannel
    <3> QED  BY <3>1, Zenon
  <2>6. cachedSendData' = <<>> /\ UNCHANGED <<dialed, chSend, sent>>
    BY <1>6 DEF OpenChannel
  <2>7. conn' \in {"none", "up", "broken"} /\ channelSend' \in {"none", "up", "broken"}
    BY <2>5
  <2>8. breaks' \in 0..MaxBreaks
    BY <2>5
  <2>9. /\ cachedSendData' \in Seq(Data) /\ dialed' \in 0..DialCap
        /\ chSend' \in Seq(Data) /\ Len(chSend') <= SendDataCap /\ sent' \in 0..MaxData
    BY <2>4, <2>6
  <2>10. /\ channelNotice' \in {"quiet", "error", "closed"}
         /\ halt' \in {"no", "stuck", "panic"}
    BY <2>5
  <2> QED  BY <2>2, <2>3, <2>7, <2>8, <2>9, <2>10
<1>7. CASE SendChannelBroken
  BY <1>7 DEF SendChannelBroken
<1>8. CASE TakeData
  <2>1. /\ Head(chSend) \in Data /\ Tail(chSend) \in Seq(Data)
        /\ Len(Tail(chSend)) <= SendDataCap
    <3>1. chSend # <<>>
      BY <1>8 DEF TakeData
    <3> QED  BY <3>1, HeadTailToSet
  <2>2. AddressOf(Head(chSend)) \in SendExchanges
    BY <2>1, Addressed
  <2>3. [exchange |-> AddressOf(Head(chSend)), data |-> Head(chSend)] \in Publication
    BY <2>1, <2>2 DEF Publication
  <2>4. published' \in Seq(Publication)
    <3>1. published \in Seq(Publication)
      OBVIOUS
    <3>2. \/ UNCHANGED published
          \/ published' = Append(published, [exchange |-> AddressOf(Head(chSend)),
                                             data |-> Head(chSend)])
      BY <1>8 DEF TakeData, PublishLive
    <3>3. \A e \in Publication : Append(published, e) \in Seq(Publication)
      BY <3>1
    <3> QED  BY <2>3, <3>1, <3>2, <3>3
  <2>5. /\ UNCHANGED cachedSendData
           \/ cachedSendData' = Append(cachedSendData, Head(chSend))
        /\ UNCHANGED lost \/ lost' = lost \cup {Head(chSend)}
    BY <1>8 DEF TakeData
  <2>6. cachedSendData' \in Seq(Data) /\ lost' \subseteq Data
    <3>1. \A e \in Data : Append(cachedSendData, e) \in Seq(Data)
      OBVIOUS
    <3>2. cachedSendData' \in Seq(Data)
      BY <2>1, <2>5, <3>1
    <3> QED  BY <2>1, <2>5, <3>2
  <2> QED  BY <1>8, <2>1, <2>4, <2>6 DEF TakeData
<1>9. CASE BreakConnection
  BY <1>9 DEF BreakConnection
<1>10. CASE BreakChannel
  BY <1>10 DEF BreakChannel
<1>11. CASE ChannelShutdown
  BY <1>11 DEF ChannelShutdown
<1> QED
  BY <1>1, <1>2, <1>3, <1>4, <1>5, <1>6, <1>7, <1>8, <1>9, <1>10, <1>11
  DEF MqNext, MqMainStep

\* The state of the publisher is always well-formed; chSend never holds more
\* than its capacity.
THEOREM MqTyped == MqSpec => []MqTypeOK
<1> QED  BY InitTyped, StepTyped, PTL DEF MqSpec

-----------------------------------------------------------------------------
(* What the steps do to the line: pub, cached and waiting are any sequences *)
(* of data, n is any bound of their numbers.                                *)

\* A datum with the next number joins the line, or is lost.
LEMMA JoinLine ==
  ASSUME NEW pub \in Seq(Data), NEW cached \in Seq(Data), NEW waiting \in Seq(Data),
         NEW n \in Nat, InLine(pub, cached, waiting, n), NEW d \in Data, d.n = n + 1
  PROVE  /\ InLine(pub, cached, Append(waiting, d), n + 1)
         /\ InLine(pub, cached, waiting, n + 1)
<1>1. \A e \in Data : e.n \in Nat
  BY DEF Data
<1>2. /\ \A i \in DOMAIN pub : pub[i] \in Data
      /\ \A i \in DOMAIN cached : cached[i] \in Data
      /\ \A i \in DOMAIN waiting : waiting[i] \in Data
  OBVIOUS
<1>3. /\ \A i \in DOMAIN pub : pub[i].n < n + 1
      /\ \A i \in DOMAIN cached : cached[i].n < n + 1
      /\ \A i \in DOMAIN waiting : waiting[i].n < n + 1
  BY <1>1, <1>2 DEF InLine
<1>4. /\ DOMAIN waiting = 1..Len(waiting) /\ Len(waiting) \in Nat
      /\ DOMAIN Append(waiting, d) = 1..(Len(waiting) + 1)
      /\ \A i \in 1..Len(waiting) : Append(waiting, d)[i] = waiting[i]
      /\ Append(waiting, d)[Len(waiting) + 1] = d
  OBVIOUS
<1>5. \A i \in DOMAIN Append(waiting, d) :
        \/ i \in DOMAIN waiting /\ Append(waiting, d)[i] = waiting[i]
        \/ i = Len(waiting) + 1 /\ Append(waiting, d)[i] = d
  BY <1>4
<1>6. Increasing(Append(waiting, d))
  BY <1>3, <1>4, <1>5 DEF Increasing, InLine
<1>7. Earlier(pub, Append(waiting, d)) /\ Earlier(cached, Append(waiting, d))
  BY <1>3, <1>5 DEF Earlier, InLine
<1>8. \A i \in DOMAIN Append(waiting, d) : Append(waiting, d)[i].n <= n + 1
  BY <1>1, <1>2, <1>3, <1>5
<1>9. /\ \A i \in DOMAIN pub : pub[i].n <= n + 1
      /\ \A i \in DOMAIN cached : cached[i].n <= n + 1
      /\ \A i \in DOMAIN waiting : waiting[i].n <= n + 1
  BY <1>1, <1>2, <1>3
<1> QED  BY <1>6, <1>7, <1>8, <1>9 DEF InLine

\* The first of a line leaves it.
LEMMA LeaveLine ==
  ASSUME NEW pub \in Seq(Data), NEW cached \in Seq(Data), NEW waiting \in Seq(Data),
         NEW n \in Nat, InLine(pub, cached, waiting, n), waiting # <<>>
  PROVE  InLine(pub, cached, Tail(waiting), n)
<1>1. /\ DOMAIN waiting = 1..Len(waiting) /\ Len(waiting) \in Nat
      /\ DOMAIN Tail(waiting) = 1..(Len(waiting) - 1)
      /\ \A i \in 1..(Len(waiting) - 1) : Tail(waiting)[i] = waiting[i + 1]
  OBVIOUS
<1>2. \A i \in DOMAIN Tail(waiting) :
        i + 1 \in DOMAIN waiting /\ Tail(waiting)[i] = waiting[i + 1]
  BY <1>1
<1>3. Increasing(Tail(waiting))
  BY <1>1, <1>2 DEF Increasing, InLine
<1>4. Earlier(pub, Tail(waiting)) /\ Earlier(cached, Tail(waiting))
  BY <1>2 DEF Earlier, InLine
<1>5. \A i \in DOMAIN Tail(waiting) : Tail(waiting)[i].n <= n
  BY <1>2 DEF InLine
<1> QED  BY <1>3, <1>4, <1>5 DEF InLine

\* The first datum that waits is ahead of the others and behind all the rest.
LEMMA HeadInLine ==
  ASSUME NEW pub \in Seq(Data), NEW cached \in Seq(Data), NEW waiting \in Seq(Data),
         NEW n \in Nat, InLine(pub, cached, waiting, n), waiting # <<>>
  PROVE  /\ Head(waiting).n <= n
         /\ \A i \in DOMAIN pub : pub[i].n < Head(waiting).n
         /\ \A i \in DOMAIN cached : cached[i].n < Head(waiting).n
         /\ \A i \in DOMAIN Tail(waiting) : Head(waiting).n < Tail(waiting)[i].n
<1>1. /\ DOMAIN waiting = 1..Len(waiting) /\ 1 \in DOMAIN waiting
      /\ Head(waiting) = waiting[1]
      /\ DOMAIN Tail(waiting) = 1..(Len(waiting) - 1)
      /\ \A i \in 1..(Len(waiting) - 1) : Tail(waiting)[i] = waiting[i + 1]
  OBVIOUS
<1>2. \A i \in DOMAIN Tail(waiting) :
        /\ i + 1 \in DOMAIN waiting /\ 1 < i + 1
        /\ Tail(waiting)[i] = waiting[i + 1]
  BY <1>1
<1>3. \A i \in DOMAIN Tail(waiting) : Head(waiting).n < Tail(waiting)[i].n
  BY <1>1, <1>2 DEF InLine, Increasing
<1> QED  BY <1>1, <1>3 DEF InLine, Earlier

\* Without a channel the first datum that waits is cached.
LEMMA CacheFirst ==
  ASSUME NEW pub \in Seq(Data), NEW cached \in Seq(Data), NEW waiting \in Seq(Data),
         NEW n \in Nat, InLine(pub, cached, waiting, n), waiting # <<>>
  PROVE  InLine(pub, Append(cached, Head(waiting)), Tail(waiting), n)
<1> DEFINE longer == Append(cached, Head(waiting))
<1>1. InLine(pub, cached, Tail(waiting), n)
  BY LeaveLine
<1>2. \A i \in DOMAIN longer :
        \/ i \in DOMAIN cached /\ longer[i] = cached[i]
        \/ i = Len(cached) + 1 /\ longer[i] = Head(waiting)
  OBVIOUS
<1>3. DOMAIN cached = 1..Len(cached) /\ Len(cached) \in Nat
  OBVIOUS
<1> HIDE DEF longer
<1>4. Increasing(longer)
  <2> SUFFICES ASSUME NEW i \in DOMAIN longer, NEW j \in DOMAIN longer, i < j
               PROVE  longer[i].n < longer[j].n
    BY DEF Increasing
  <2>1. i \in DOMAIN cached /\ longer[i] = cached[i]
    BY <1>2, <1>3
  <2>2. CASE j \in DOMAIN cached /\ longer[j] = cached[j]
    BY <2>1, <2>2 DEF InLine, Increasing
  <2>3. CASE longer[j] = Head(waiting)
    BY <2>1, <2>3, HeadInLine
  <2> QED  BY <1>2, <2>2, <2>3
<1>5. Earlier(pub, longer)
  BY <1>2, HeadInLine DEF InLine, Earlier
<1>6. Earlier(longer, Tail(waiting))
  BY <1>1, <1>2, HeadInLine DEF InLine, Earlier
<1>7. \A i \in DOMAIN longer : longer[i].n <= n
  BY <1>2, HeadInLine DEF InLine
<1> QED  BY <1>1, <1>4, <1>5, <1>6, <1>7 DEF InLine, longer

\* With a channel it is published.
LEMMA PublishFirst ==
  ASSUME NEW pub \in Seq(Data), NEW waiting \in Seq(Data),
         NEW n \in Nat, InLine(pub, <<>>, waiting, n), waiting # <<>>
  PROVE  InLine(Append(pub, Head(waiting)), <<>>, Tail(waiting), n)
<1> DEFINE longer == Append(pub, Head(waiting))
<1>4. <<>> \in Seq(Data)
  OBVIOUS
<1>1. InLine(pub, <<>>, Tail(waiting), n)
  BY <1>4, LeaveLine
<1>2. \A i \in DOMAIN longer :
        \/ i \in DOMAIN pub /\ longer[i] = pub[i]
        \/ i = Len(pub) + 1 /\ longer[i] = Head(waiting)
  OBVIOUS
<1>3. DOMAIN pub = 1..Len(pub) /\ Len(pub) \in Nat
  OBVIOUS
<1>5. /\ Head(waiting).n <= n
      /\ \A i \in DOMAIN pub : pub[i].n < Head(waiting).n
      /\ \A i \in DOMAIN Tail(waiting) : Head(waiting).n < Tail(waiting)[i].n
  BY <1>4, HeadInLine
<1> HIDE DEF longer
<1>6. Increasing(longer)
  <2> SUFFICES ASSUME NEW i \in DOMAIN longer, NEW j \in DOMAIN longer, i < j
               PROVE  longer[i].n < longer[j].n
    BY DEF Increasing
  <2>1. i \in DOMAIN pub /\ longer[i] = pub[i]
    BY <1>2, <1>3
  <2>2. CASE j \in DOMAIN pub /\ longer[j] = pub[j]
    BY <2>1, <2>2 DEF InLine, Increasing
  <2>3. CASE longer[j] = Head(waiting)
    BY <1>5, <2>1, <2>3
  <2> QED  BY <1>2, <2>2, <2>3
<1>7. Earlier(longer, <<>>)
  BY DEF Earlier
<1>8. Earlier(longer, Tail(waiting))
  BY <1>1, <1>2, <1>5 DEF InLine, Earlier
<1>9. \A i \in DOMAIN longer : longer[i].n <= n
  BY <1>2, <1>5 DEF InLine
<1> QED  BY <1>1, <1>6, <1>7, <1>8, <1>9 DEF InLine, longer

\* A new channel publishes a first part of the cache and empties it.
LEMMA FlushCache ==
  ASSUME NEW pub \in Seq(Data), NEW cached \in Seq(Data), NEW waiting \in Seq(Data),
         NEW n \in Nat, InLine(pub, cached, waiting, n), NEW done \in 0..Len(cached)
  PROVE  InLine(pub \o SubSeq(cached, 1, done), <<>>, waiting, n)
<1> DEFINE longer == pub \o SubSeq(cached, 1, done)
<1>1. /\ DOMAIN pub = 1..Len(pub) /\ Len(pub) \in Nat
      /\ DOMAIN cached = 1..Len(cached) /\ Len(cached) \in Nat
      /\ DOMAIN SubSeq(cached, 1, done) = 1..done
      /\ \A k \in 1..done : SubSeq(cached, 1, done)[k] = cached[k]
  OBVIOUS
<1>2. SubSeq(cached, 1, done) \in Seq(Data) /\ Len(SubSeq(cached, 1, done)) = done
  OBVIOUS
<1>3. /\ DOMAIN longer = 1..(Len(pub) + done)
      /\ \A i \in 1..Len(pub) : longer[i] = pub[i]
      /\ \A k \in 1..done : longer[Len(pub) + k] = SubSeq(cached, 1, done)[k]
  BY <1>2
<1>4. \A i \in DOMAIN longer :
        \/ i \in DOMAIN pub /\ longer[i] = pub[i]
        \/ /\ i - Len(pub) \in DOMAIN cached /\ longer[i] = cached[i - Len(pub)]
           /\ i > Len(pub)
  <2> SUFFICES ASSUME NEW i \in DOMAIN longer, i \notin DOMAIN pub
               PROVE  /\ i - Len(pub) \in DOMAIN cached
                      /\ longer[i] = cached[i - Len(pub)] /\ i > Len(pub)
    BY <1>1, <1>3
  <2>1. i - Len(pub) \in 1..done /\ i = Len(pub) + (i - Len(pub)) /\ i > Len(pub)
    BY <1>1, <1>3
  <2>2. longer[i] = SubSeq(cached, 1, done)[i - Len(pub)]
    BY <1>3, <2>1
  <2>3. i - Len(pub) \in DOMAIN cached
    BY <1>1, <2>1
  <2> QED  BY <1>1, <2>1, <2>2, <2>3
<1> HIDE DEF longer
<1>5. Increasing(longer)
  <2> SUFFICES ASSUME NEW i \in DOMAIN longer, NEW j \in DOMAIN longer, i < j
               PROVE  longer[i].n < longer[j].n
    BY DEF Increasing
  <2>1. i \in 1..(Len(pub) + done) /\ j \in 1..(Len(pub) + done)
    BY <1>3 DEF longer
  <2>2. CASE j \in DOMAIN pub /\ longer[j] = pub[j]
    <3>1. i \in DOMAIN pub /\ longer[i] = pub[i]
      BY <1>1, <1>4, <2>1, <2>2
    <3> QED  BY <2>2, <3>1 DEF InLine, Increasing
  <2>3. CASE j - Len(pub) \in DOMAIN cached /\ longer[j] = cached[j - Len(pub)]
    <3>1. CASE i \in DOMAIN pub /\ longer[i] = pub[i]
      BY <2>3, <3>1 DEF InLine, Earlier
    <3>2. CASE i - Len(pub) \in DOMAIN cached /\ longer[i] = cached[i - Len(pub)]
      <4>1. i - Len(pub) < j - Len(pub)
        BY <1>1, <2>1
      <4> QED  BY <2>3, <3>2, <4>1 DEF InLine, Increasing
    <3> QED  BY <1>4, <3>1, <3>2
  <2> QED  BY <1>4, <2>2, <2>3
<1>6. Increasing(<<>>) /\ Earlier(longer, <<>>) /\ Earlier(<<>>, waiting)
  BY DEF Increasing, Earlier
<1>7. Earlier(longer, waiting)
  BY <1>4 DEF InLine, Earlier
<1>8. \A i \in DOMAIN longer : longer[i].n <= n
  BY <1>4 DEF InLine
<1>9. \A i \in DOMAIN <<>> : <<>>[i].n <= n
  OBVIOUS
<1> QED  BY <1>5, <1>6, <1>7, <1>8, <1>9 DEF InLine, longer

-----------------------------------------------------------------------------
(* Queues: what each step does to the published data and to the line. *)

LEMMA PublishedTyped ==
  ASSUME MqTypeOK
  PROVE  PublishedData \in Seq(Data) /\ Len(PublishedData) = Len(published)
<1>1. published \in Seq(Publication)
  BY DEF MqTypeOK
<1>2. \A i \in 1..Len(published) : published[i] \in Publication
  BY <1>1
<1>3. \A i \in 1..Len(published) : published[i].data \in Data
  BY <1>2 DEF Publication
<1>4. DOMAIN published = 1..Len(published) /\ Len(published) \in Nat
  BY <1>1
<1> QED  BY <1>3, <1>4 DEF PublishedData

\* A live datum is the last that was published.
LEMMA PublishedOne ==
  ASSUME MqTypeOK, NEW d \in Data, PublishLive(d)
  PROVE  PublishedData' = Append(PublishedData, d)
<1>1. published \in Seq(Publication) /\ PublishedData \in Seq(Data)
      /\ Len(PublishedData) = Len(published)
  BY PublishedTyped DEF MqTypeOK
<1>2. [exchange |-> AddressOf(d), data |-> d] \in Publication
  BY Addressed DEF Publication
<1>3. published' = Append(published, [exchange |-> AddressOf(d), data |-> d])
  BY DEF PublishLive
<1>4. /\ DOMAIN published' = 1..(Len(published) + 1) /\ Len(published) \in Nat
      /\ DOMAIN published = 1..Len(published)
      /\ \A i \in 1..Len(published) : published'[i] = published[i]
      /\ published'[Len(published) + 1] = [exchange |-> AddressOf(d), data |-> d]
  BY <1>1, <1>2, <1>3
<1>5. /\ \A i \in 1..Len(published) : published'[i].data = published[i].data
      /\ published'[Len(published) + 1].data = d
  BY <1>4
<1>6. PublishedData' = [i \in 1..(Len(published) + 1) |->
                         IF i \in 1..Len(published) THEN published[i].data ELSE d]
  BY <1>4, <1>5 DEF PublishedData
<1>7. Append(PublishedData, d) = [i \in 1..(Len(published) + 1) |->
                         IF i \in 1..Len(published) THEN published[i].data ELSE d]
  BY <1>1, <1>4 DEF PublishedData
<1> QED  BY <1>6, <1>7

\* What was cached follows what had been published.
LEMMA PublishedMany ==
  ASSUME MqTypeOK, NEW ds \in Seq(Data), published' = published \o Cached(ds)
  PROVE  PublishedData' = PublishedData \o ds
<1>1. published \in Seq(Publication) /\ PublishedData \in Seq(Data)
      /\ Len(PublishedData) = Len(published)
  BY PublishedTyped DEF MqTypeOK
<1>2. /\ Cached(ds) \in Seq(Publication) /\ Len(Cached(ds)) = Len(ds)
      /\ \A i \in 1..Len(ds) : Cached(ds)[i].data = ds[i]
  BY CachedTyped
<1>3. /\ DOMAIN published' = 1..(Len(published) + Len(ds)) /\ Len(published) \in Nat
      /\ DOMAIN published = 1..Len(published) /\ Len(ds) \in Nat
      /\ \A i \in 1..Len(published) : published'[i] = published[i]
      /\ \A i \in 1..Len(ds) : published'[Len(published) + i] = Cached(ds)[i]
  <2> DEFINE more == Cached(ds)
  <2>1. more \in Seq(Publication) /\ Len(more) = Len(ds) /\ published' = published \o more
    BY <1>2
  <2> HIDE DEF more
  <2>2. \A u \in Seq(Publication) :
          /\ DOMAIN (published \o u) = 1..(Len(published) + Len(u))
          /\ Len(published) \in Nat /\ DOMAIN published = 1..Len(published)
          /\ \A i \in 1..Len(published) : (published \o u)[i] = published[i]
          /\ \A i \in 1..Len(u) : (published \o u)[Len(published) + i] = u[i]
    <3> SUFFICES ASSUME NEW u \in Seq(Publication)
                 PROVE  /\ DOMAIN (published \o u) = 1..(Len(published) + Len(u))
                        /\ Len(published) \in Nat /\ DOMAIN published = 1..Len(published)
                        /\ \A i \in 1..Len(published) : (published \o u)[i] = published[i]
                        /\ \A i \in 1..Len(u) : (published \o u)[Len(published) + i] = u[i]
      OBVIOUS
    <3>1. published \in Seq(Publication)
      BY <1>1
    <3>2. /\ DOMAIN (published \o u) = 1..(Len(published) + Len(u))
          /\ Len(published) \in Nat /\ DOMAIN published = 1..Len(published)
      BY <3>1, SMT
    <3>3. \A i \in 1..Len(published) : (published \o u)[i] = published[i]
      BY <3>1, SMT
    <3>4. \A i \in 1..Len(u) : (published \o u)[Len(published) + i] = u[i]
      BY <3>1, SMT
    <3> QED  BY <3>2, <3>3, <3>4
  <2>3. Len(ds) \in Nat
    OBVIOUS
  <2> QED  BY <2>1, <2>2, <2>3 DEF more
<1>4. \A i \in 1..(Len(published) + Len(ds)) :
        \/ i \in 1..Len(published)
        \/ i - Len(published) \in 1..Len(ds) /\ i = Len(published) + (i - Len(published))
  BY <1>3
<1>5. \A i \in 1..(Len(published) + Len(ds)) :
        published'[i].data = IF i \in 1..Len(published) THEN published[i].data
                             ELSE ds[i - Len(published)]
  BY <1>2, <1>3, <1>4
<1>6. PublishedData' = [i \in 1..(Len(published) + Len(ds)) |->
                         IF i \in 1..Len(published) THEN published[i].data
                         ELSE ds[i - Len(published)]]
  BY <1>3, <1>5 DEF PublishedData
<1>7. PublishedData \o ds = [i \in 1..(Len(published) + Len(ds)) |->
                         IF i \in 1..Len(published) THEN published[i].data
                         ELSE ds[i - Len(published)]]
  BY <1>1, <1>3 DEF PublishedData
<1> QED  BY <1>6, <1>7

LEMMA InitQueues == MqInit => Queues
<1> SUFFICES ASSUME MqInit PROVE Queues
  OBVIOUS
<1>1. PublishedData = <<>> /\ cachedSendData = <<>> /\ chSend = <<>>
  BY DEF MqInit, PublishedData
<1> QED  BY <1>1 DEF MqInit, Queues, NoCacheWhileOpen, InLine, Increasing, Earlier

LEMMA StepQueues == MqTypeOK /\ Queues /\ [MqNext]_mqVars => Queues'
<1> SUFFICES ASSUME MqTypeOK, Queues, [MqNext]_mqVars PROVE Queues'
  OBVIOUS
<1>1. /\ PublishedData \in Seq(Data) /\ cachedSendData \in Seq(Data)
      /\ chSend \in Seq(Data) /\ sent \in Nat
      /\ InLine(PublishedData, cachedSendData, chSend, sent) /\ NoCacheWhileOpen
  BY PublishedTyped DEF MqTypeOK, Queues
<1>2. UNCHANGED published => UNCHANGED PublishedData
  BY DEF PublishedData
<1>3. ASSUME UNCHANGED <<published, cachedSendData, chSend, sent>>, NoCacheWhileOpen'
      PROVE  Queues'
  BY <1>1, <1>2, <1>3 DEF Queues
<1>4. CASE UNCHANGED mqVars
  BY <1>1, <1>3, <1>4 DEF mqVars, NoCacheWhileOpen
<1>5. ASSUME NEW talk \in TalkIds, NEW kind \in Kinds, SendData(talk, kind)
      PROVE  Queues'
  <2> DEFINE d == [n |-> sent + 1, talk |-> talk, kind |-> kind]
  <2>1. d \in Data /\ d.n = sent + 1
    BY <1>5, RabbitAssumption DEF SendData, Data, MqTypeOK, RabbitAssumption
  <2>2. \/ chSend' = Append(chSend, d) \/ UNCHANGED chSend
    BY <1>5 DEF SendData
  <2>3. /\ sent' = sent + 1 /\ UNCHANGED <<channelSend, cachedSendData, published>>
    BY <1>5 DEF SendData
  <2> HIDE DEF d
  <2>4. InLine(PublishedData, cachedSendData, chSend', sent')
    BY <1>1, <2>1, <2>2, <2>3, JoinLine
  <2> QED  BY <1>1, <1>2, <2>3, <2>4 DEF Queues, NoCacheWhileOpen
<1>6. CASE Dial
  BY <1>1, <1>3, <1>6 DEF Dial, NoCacheWhileOpen
<1>7. CASE ConnBroken
  BY <1>1, <1>3, <1>7 DEF ConnBroken, NoCacheWhileOpen
<1>8. CASE ConnDialSuccess
  BY <1>1, <1>3, <1>8 DEF ConnDialSuccess, NoCacheWhileOpen
<1>9. CASE OpenChannel
  <2>1. PICK done \in 0..Len(cachedSendData) :
          published' = published \o Cached(SubSeq(cachedSendData, 1, done))
    BY <1>9 DEF OpenChannel
  <2>2. cachedSendData' = <<>> /\ UNCHANGED <<chSend, sent>>
    BY <1>9 DEF OpenChannel
  <2>3. PublishedData' = PublishedData \o SubSeq(cachedSendData, 1, done)
    BY <1>1, <2>1, Prefix, PublishedMany
  <2>4. InLine(PublishedData', <<>>, chSend, sent)
    BY <1>1, <2>3, FlushCache
  <2> QED  BY <2>2, <2>4 DEF Queues, NoCacheWhileOpen
<1>10. CASE SendChannelBroken
  BY <1>1, <1>3, <1>10 DEF SendChannelBroken, NoCacheWhileOpen
<1>11. CASE TakeData
  <2>1. /\ chSend # <<>> /\ chSend' = Tail(chSend) /\ UNCHANGED <<channelSend, sent>>
    BY <1>11 DEF TakeData
  <2>2. Head(chSend) \in Data
    BY <1>1, <2>1, HeadTailToSet
  <2>3. CASE /\ channelSend = "none" /\ UNCHANGED published
             /\ cachedSendData' = Append(cachedSendData, Head(chSend))
    <3>1. InLine(PublishedData, cachedSendData', chSend', sent)
      BY <1>1, <2>1, <2>3, CacheFirst
    <3> QED  BY <1>2, <2>1, <2>3, <3>1 DEF Queues, NoCacheWhileOpen
  <2>4. CASE /\ channelSend = "up" /\ UNCHANGED cachedSendData
             /\ PublishLive(Head(chSend))
    <3>1. cachedSendData = <<>>
      BY <1>1, <2>4 DEF NoCacheWhileOpen
    <3>2. PublishedData' = Append(PublishedData, Head(chSend))
      BY <2>2, <2>4, PublishedOne
    <3>3. InLine(PublishedData', <<>>, chSend', sent)
      BY <1>1, <2>1, <3>1, <3>2, PublishFirst
    <3> QED  BY <2>1, <2>4, <3>1, <3>3 DEF Queues, NoCacheWhileOpen
  <2>5. CASE UNCHANGED <<published, cachedSendData>>
    <3>1. InLine(PublishedData, cachedSendData, chSend', sent)
      BY <1>1, <2>1, LeaveLine
    <3> QED  BY <1>1, <1>2, <2>1, <2>5, <3>1 DEF Queues, NoCacheWhileOpen
  <2> QED  BY <1>11, <2>3, <2>4, <2>5 DEF TakeData
<1>12. CASE BreakConnection
  BY <1>1, <1>3, <1>12 DEF BreakConnection, NoCacheWhileOpen
<1>13. CASE BreakChannel
  BY <1>1, <1>3, <1>13 DEF BreakChannel, NoCacheWhileOpen
<1>14. CASE ChannelShutdown
  BY <1>1, <1>3, <1>14 DEF ChannelShutdown, NoCacheWhileOpen
<1> QED
  BY <1>4, <1>5, <1>6, <1>7, <1>8, <1>9, <1>10, <1>11, <1>12, <1>13, <1>14
  DEF MqNext, MqMainStep

-----------------------------------------------------------------------------
(* InOrder follows from Queues. *)

\* Where the numbers of a concatenation come from.
LEMMA NumbersPlaces ==
  \A s, u \in Seq(Nat) :
     /\ s \o u \in Seq(Nat) /\ Len(s \o u) = Len(s) + Len(u)
     /\ Len(s) \in Nat /\ Len(u) \in Nat
     /\ DOMAIN (s \o u) = 1..(Len(s) + Len(u))
     /\ \A i \in 1..Len(s) : (s \o u)[i] = s[i]
     /\ \A i \in 1..Len(u) : (s \o u)[Len(s) + i] = u[i]
<1> TAKE s, u \in Seq(Nat)
<1> QED  BY ConcatPlaces

\* Line, place by place.
LEMMA LinePlaces ==
  ASSUME MqTypeOK
  PROVE  LET a == Len(published)  b == Len(cachedSendData)  c == Len(chSend) IN
         /\ DOMAIN Line = 1..(a + b + c) /\ a \in Nat /\ b \in Nat /\ c \in Nat
         /\ \A i \in 1..a : Line[i] = PublishedData[i].n
         /\ \A i \in 1..b : Line[a + i] = cachedSendData[i].n
         /\ \A i \in 1..c : Line[a + b + i] = chSend[i].n
<1> DEFINE pub == Numbers(PublishedData)
           cached == Numbers(cachedSendData)
           waiting == Numbers(chSend)
<1>1. /\ PublishedData \in Seq(Data) /\ Len(PublishedData) = Len(published)
      /\ cachedSendData \in Seq(Data) /\ chSend \in Seq(Data)
  BY PublishedTyped DEF MqTypeOK
<1>2. \A ds \in Seq(Data) : /\ Numbers(ds) \in Seq(Nat) /\ Len(Numbers(ds)) = Len(ds)
                            /\ \A i \in 1..Len(ds) : Numbers(ds)[i] = ds[i].n
  <2> SUFFICES ASSUME NEW ds \in Seq(Data)
               PROVE  /\ Numbers(ds) \in Seq(Nat) /\ Len(Numbers(ds)) = Len(ds)
                      /\ \A i \in 1..Len(ds) : Numbers(ds)[i] = ds[i].n
    OBVIOUS
  <2>1. DOMAIN ds = 1..Len(ds) /\ Len(ds) \in Nat /\ \A i \in 1..Len(ds) : ds[i] \in Data
    OBVIOUS
  <2>2. \A i \in 1..Len(ds) : ds[i].n \in Nat
    BY <2>1 DEF Data
  <2> QED  BY <2>1, <2>2 DEF Numbers
<1>3. /\ pub \in Seq(Nat) /\ cached \in Seq(Nat) /\ waiting \in Seq(Nat)
      /\ Len(pub) = Len(published) /\ Len(cached) = Len(cachedSendData)
      /\ Len(waiting) = Len(chSend)
  BY <1>1, <1>2
<1>4. Line = pub \o cached \o waiting
  BY DEF Line, PublishedData
<1> HIDE DEF pub, cached, waiting
<1>5. /\ pub \o cached \in Seq(Nat) /\ Len(pub \o cached) = Len(pub) + Len(cached)
      /\ \A i \in 1..Len(pub) : (pub \o cached)[i] = pub[i]
      /\ \A i \in 1..Len(cached) : (pub \o cached)[Len(pub) + i] = cached[i]
      /\ Len(pub) \in Nat /\ Len(cached) \in Nat /\ Len(waiting) \in Nat
  BY <1>3, NumbersPlaces
<1>6. \A front \in Seq(Nat) :
        /\ DOMAIN (front \o waiting) = 1..(Len(front) + Len(waiting))
        /\ \A i \in 1..Len(front) : (front \o waiting)[i] = front[i]
        /\ \A i \in 1..Len(waiting) : (front \o waiting)[Len(front) + i] = waiting[i]
  BY <1>3, NumbersPlaces
<1>7. /\ DOMAIN Line = 1..(Len(pub) + Len(cached) + Len(waiting))
      /\ \A i \in 1..(Len(pub) + Len(cached)) : Line[i] = (pub \o cached)[i]
      /\ \A i \in 1..Len(waiting) : Line[Len(pub) + Len(cached) + i] = waiting[i]
  BY <1>4, <1>5, <1>6
<1>8. /\ \A i \in 1..Len(pub) : i \in 1..(Len(pub) + Len(cached))
      /\ \A i \in 1..Len(cached) : Len(pub) + i \in 1..(Len(pub) + Len(cached))
  BY <1>5
<1>9. /\ \A i \in 1..Len(pub) : Line[i] = pub[i]
      /\ \A i \in 1..Len(cached) : Line[Len(pub) + i] = cached[i]
  BY <1>5, <1>7, <1>8
<1>10. /\ \A i \in 1..Len(pub) : pub[i] = PublishedData[i].n
       /\ \A i \in 1..Len(cached) : cached[i] = cachedSendData[i].n
       /\ \A i \in 1..Len(waiting) : waiting[i] = chSend[i].n
  BY <1>1, <1>2, <1>3 DEF pub, cached, waiting
<1> QED  BY <1>3, <1>5, <1>7, <1>9, <1>10

LEMMA QueuesInOrder == MqTypeOK /\ Queues => InOrder
<1> SUFFICES ASSUME MqTypeOK, Queues,
                    NEW i \in DOMAIN Line, NEW j \in DOMAIN Line, i < j
             PROVE  Line[i] < Line[j]
  BY DEF InOrder
<1> DEFINE a == Len(published)
           b == Len(cachedSendData)
           c == Len(chSend)
<1>1. /\ DOMAIN Line = 1..(a + b + c) /\ a \in Nat /\ b \in Nat /\ c \in Nat
      /\ \A k \in 1..a : Line[k] = PublishedData[k].n
      /\ \A k \in 1..b : Line[a + k] = cachedSendData[k].n
      /\ \A k \in 1..c : Line[a + b + k] = chSend[k].n
  BY LinePlaces
<1>2. /\ DOMAIN PublishedData = 1..a /\ DOMAIN cachedSendData = 1..b
      /\ DOMAIN chSend = 1..c
  <2>1. PublishedData \in Seq(Data) /\ Len(PublishedData) = a
    BY PublishedTyped
  <2>2. cachedSendData \in Seq(Data) /\ chSend \in Seq(Data)
    BY DEF MqTypeOK
  <2> QED  BY <2>1, <2>2
<1> HIDE DEF a, b, c
<1>3. \A k \in DOMAIN Line :
        \/ k \in 1..a /\ Line[k] = PublishedData[k].n
        \/ k - a \in 1..b /\ Line[k] = cachedSendData[k - a].n
        \/ k - a - b \in 1..c /\ Line[k] = chSend[k - a - b].n
  <2> SUFFICES ASSUME NEW k \in DOMAIN Line
               PROVE  \/ k \in 1..a /\ Line[k] = PublishedData[k].n
                      \/ k - a \in 1..b /\ Line[k] = cachedSendData[k - a].n
                      \/ k - a - b \in 1..c /\ Line[k] = chSend[k - a - b].n
    OBVIOUS
  <2>1. \/ k \in 1..a
        \/ k - a \in 1..b /\ k = a + (k - a)
        \/ k - a - b \in 1..c /\ k = a + b + (k - a - b)
    BY <1>1
  <2> QED  BY <1>1, <2>1
<1>4. i \in Int /\ j \in Int
  BY <1>1
<1>5. CASE i \in 1..a /\ Line[i] = PublishedData[i].n
  <2>1. CASE j \in 1..a /\ Line[j] = PublishedData[j].n
    BY <1>2, <1>5, <2>1 DEF Queues, InLine, Increasing
  <2>2. CASE j - a \in 1..b /\ Line[j] = cachedSendData[j - a].n
    BY <1>2, <1>5, <2>2 DEF Queues, InLine, Earlier
  <2>3. CASE j - a - b \in 1..c /\ Line[j] = chSend[j - a - b].n
    BY <1>2, <1>5, <2>3 DEF Queues, InLine, Earlier
  <2> QED  BY <1>3, <2>1, <2>2, <2>3
<1>6. CASE i - a \in 1..b /\ Line[i] = cachedSendData[i - a].n
  <2>1. CASE j - a \in 1..b /\ Line[j] = cachedSendData[j - a].n
    <3>1. i - a < j - a
      BY <1>1, <1>4
    <3> QED  BY <1>2, <1>6, <2>1, <3>1 DEF Queues, InLine, Increasing
  <2>2. CASE j - a - b \in 1..c /\ Line[j] = chSend[j - a - b].n
    BY <1>2, <1>6, <2>2 DEF Queues, InLine, Earlier
  <2>3. j \notin 1..a
    BY <1>1, <1>4, <1>6
  <2> QED  BY <1>3, <2>1, <2>2, <2>3
<1>7. CASE i - a - b \in 1..c /\ Line[i] = chSend[i - a - b].n
  <2>1. j \notin 1..a /\ j - a \notin 1..b /\ i - a - b < j - a - b
    BY <1>1, <1>4, <1>7
  <2> QED  BY <1>2, <1>3, <1>7, <2>1 DEF Queues, InLine, Increasing
<1> QED  BY <1>3, <1>5, <1>6, <1>7

\* Whatever breaks and however often, data are published at most once and in
\* the order they were sent.
THEOREM InOrderInvariant == MqSpec => []InOrder
<1>1. MqTypeOK /\ Queues /\ [MqNext]_mqVars => (MqTypeOK /\ Queues)'
  BY StepTyped, StepQueues
<1> QED  BY InitTyped, InitQueues, <1>1, QueuesInOrder, PTL DEF MqSpec

-----------------------------------------------------------------------------
(* Accounted. *)

\* A prefix and the rest hold all that the whole holds.
LEMMA PrefixAndRest ==
  ASSUME NEW ds \in Seq(Data), NEW done \in 0..Len(ds)
  PROVE  ToSet(ds) \subseteq ToSet(SubSeq(ds, 1, done))
                               \cup ToSet(SubSeq(ds, done + 1, Len(ds)))
<1>1. DOMAIN ds = 1..Len(ds) /\ Len(ds) \in Nat
  OBVIOUS
<1>2. /\ DOMAIN SubSeq(ds, 1, done) = 1..done
      /\ \A i \in 1..done : SubSeq(ds, 1, done)[i] = ds[i]
  OBVIOUS
<1>3. \A i \in 1..done : ds[i] \in ToSet(SubSeq(ds, 1, done))
  BY <1>2 DEF ToSet
<1>4. \A i \in 1..Len(ds) : i \in 1..done \/ i > done
  BY <1>1
<1>5. \A i \in 1..Len(ds) : ds[i] \in ToSet(SubSeq(ds, 1, done))
                                      \cup ToSet(SubSeq(ds, done + 1, Len(ds)))
  BY <1>3, <1>4, Rest
<1> QED  BY <1>1, <1>5 DEF ToSet

\* No step but a call of SendData sends anything, and none forgets a datum.
LEMMA NothingForgotten ==
  ASSUME MqTypeOK, [MqNext]_mqVars
  PROVE  /\ Known \subseteq Known'
         /\ sent' # sent => sent' = sent + 1 /\ \E d \in Known' : d.n = sent + 1
<1>1. /\ PublishedData \in Seq(Data) /\ cachedSendData \in Seq(Data)
      /\ chSend \in Seq(Data) /\ sent \in Nat
  BY PublishedTyped DEF MqTypeOK
<1>2. UNCHANGED published => UNCHANGED PublishedData
  BY DEF PublishedData
<1>3. ASSUME UNCHANGED <<published, cachedSendData, chSend, lost>>
      PROVE  Known' = Known
  BY <1>2, <1>3 DEF Known
<1>4. CASE UNCHANGED mqVars
  BY <1>3, <1>4 DEF mqVars
<1>5. ASSUME NEW talk \in TalkIds, NEW kind \in Kinds, SendData(talk, kind)
      PROVE  Known \subseteq Known' /\ sent' = sent + 1 /\ \E d \in Known' : d.n = sent + 1
  <2> DEFINE d == [n |-> sent + 1, talk |-> talk, kind |-> kind]
  <2>1. d.n = sent + 1
    OBVIOUS
  <2>2. \/ chSend' = Append(chSend, d) /\ UNCHANGED lost
        \/ lost' = lost \cup {d} /\ UNCHANGED chSend
    BY <1>5 DEF SendData
  <2>3. sent' = sent + 1 /\ UNCHANGED <<published, cachedSendData>>
    BY <1>5 DEF SendData
  <2> HIDE DEF d
  <2>4. ToSet(Append(chSend, d)) = ToSet(chSend) \cup {d}
    BY <1>1, AppendToSet
  <2>5. Known' = Known \cup {d}
    BY <1>2, <2>2, <2>3, <2>4 DEF Known
  <2> QED  BY <2>1, <2>3, <2>5
<1>6. CASE Dial
  BY <1>3, <1>6 DEF Dial
<1>7. CASE ConnBroken
  BY <1>3, <1>7 DEF ConnBroken
<1>8. CASE ConnDialSuccess
  BY <1>3, <1>8 DEF ConnDialSuccess
<1>9. CASE OpenChannel
  <2>1. PICK done \in 0..Len(cachedSendData) :
          /\ published' = published \o Cached(SubSeq(cachedSendData, 1, done))
          /\ lost' = lost \cup
                       ToSet(SubSeq(cachedSendData, done + 1, Len(cachedSendData)))
    BY <1>9 DEF OpenChannel
  <2>2. UNCHANGED <<chSend, sent>>
    BY <1>9 DEF OpenChannel
  <2>3. SubSeq(cachedSendData, 1, done) \in Seq(Data)
    BY <1>1, Prefix
  <2>4. PublishedData' = PublishedData \o SubSeq(cachedSendData, 1, done)
    BY <2>1, <2>3, PublishedMany
  <2>5. ToSet(PublishedData') = ToSet(PublishedData)
                                  \cup ToSet(SubSeq(cachedSendData, 1, done))
    <3>1. PICK before, prefix : /\ before = PublishedData
                                /\ prefix = SubSeq(cachedSendData, 1, done)
      OBVIOUS
    <3>2. before \in Seq(Data) /\ prefix \in Seq(Data)
      BY <1>1, <2>3, <3>1
    <3>3. ToSet(before \o prefix) = ToSet(before) \cup ToSet(prefix)
      BY <3>2, ConcatToSet
    <3>4. PublishedData' = before \o prefix
      BY <2>4, <3>1
    <3> QED  BY <3>1, <3>3, <3>4
  <2>6. ToSet(cachedSendData) \subseteq
          ToSet(SubSeq(cachedSendData, 1, done))
            \cup ToSet(SubSeq(cachedSendData, done + 1, Len(cachedSendData)))
    BY <1>1, PrefixAndRest
  <2> QED  BY <2>1, <2>2, <2>5, <2>6 DEF Known
<1>10. CASE SendChannelBroken
  BY <1>3, <1>10 DEF SendChannelBroken
<1>11. CASE TakeData
  <2>1. chSend # <<>> /\ chSend' = Tail(chSend) /\ UNCHANGED sent
    BY <1>11 DEF TakeData
  <2>2. Head(chSend) \in Data /\ ToSet(chSend) = {Head(chSend)} \cup ToSet(chSend')
    BY <1>1, <2>1, HeadTailToSet, HeadOrTail
  <2>3. CASE cachedSendData' = Append(cachedSendData, Head(chSend))
             /\ UNCHANGED <<published, lost>>
    <3>1. ToSet(cachedSendData') = ToSet(cachedSendData) \cup {Head(chSend)}
      BY <1>1, <2>3, AppendToSet
    <3> QED  BY <1>2, <2>1, <2>2, <2>3, <3>1 DEF Known
  <2>4. CASE PublishLive(Head(chSend)) /\ UNCHANGED <<cachedSendData, lost>>
    <3>1. PublishedData' = Append(PublishedData, Head(chSend))
      BY <2>2, <2>4, PublishedOne
    <3>2. ToSet(PublishedData') = ToSet(PublishedData) \cup {Head(chSend)}
      BY <1>1, <3>1, AppendToSet
    <3> QED  BY <2>1, <2>2, <2>4, <3>2 DEF Known
  <2>5. CASE lost' = lost \cup {Head(chSend)} /\ UNCHANGED <<cachedSendData, published>>
    BY <1>2, <2>1, <2>2, <2>5 DEF Known
  <2> QED  BY <1>11, <2>3, <2>4, <2>5 DEF TakeData
<1>12. CASE BreakConnection
  BY <1>3, <1>12 DEF BreakConnection
<1>13. CASE BreakChannel
  BY <1>3, <1>13 DEF BreakChannel
<1>14. CASE ChannelShutdown
  BY <1>3, <1>14 DEF ChannelShutdown
<1> QED
  BY <1>4, <1>5, <1>6, <1>7, <1>8, <1>9, <1>10, <1>11, <1>12, <1>13, <1>14
  DEF MqNext, MqMainStep

LEMMA InitNoneMissing == MqInit => NoneMissing
BY DEF MqInit, NoneMissing

LEMMA StepNoneMissing == MqTypeOK /\ NoneMissing /\ [MqNext]_mqVars => NoneMissing'
<1> SUFFICES ASSUME MqTypeOK, NoneMissing, [MqNext]_mqVars, NEW n \in 1..sent'
             PROVE  \E d \in Known' : d.n = n
  BY DEF NoneMissing
<1>1. /\ Known \subseteq Known'
      /\ sent' # sent => sent' = sent + 1 /\ \E d \in Known' : d.n = sent + 1
  BY NothingForgotten
<1>2. n \in 1..sent \/ (sent' # sent /\ n = sent + 1)
  BY <1>1 DEF MqTypeOK
<1> QED  BY <1>1, <1>2 DEF NoneMissing

\* The number of whatever is on its way is in the line.
LEMMA KnownInLine ==
  ASSUME MqTypeOK, NEW d \in Known
  PROVE  d \in lost \/ d.n \in ToSet(Line)
<1> DEFINE a == Len(published)
           b == Len(cachedSendData)
           c == Len(chSend)
<1>1. /\ DOMAIN Line = 1..(a + b + c) /\ a \in Nat /\ b \in Nat /\ c \in Nat
      /\ \A k \in 1..a : Line[k] = PublishedData[k].n
      /\ \A k \in 1..b : Line[a + k] = cachedSendData[k].n
      /\ \A k \in 1..c : Line[a + b + k] = chSend[k].n
  BY LinePlaces
<1>2. /\ DOMAIN PublishedData = 1..a /\ DOMAIN cachedSendData = 1..b
      /\ DOMAIN chSend = 1..c
  <2>1. PublishedData \in Seq(Data) /\ Len(PublishedData) = a
    BY PublishedTyped
  <2>2. cachedSendData \in Seq(Data) /\ chSend \in Seq(Data)
    BY DEF MqTypeOK
  <2> QED  BY <2>1, <2>2
<1> HIDE DEF a, b, c
<1>3. /\ \A k \in 1..a : k \in 1..(a + b + c)
      /\ \A k \in 1..b : a + k \in 1..(a + b + c)
      /\ \A k \in 1..c : a + b + k \in 1..(a + b + c)
  BY <1>1
<1>4. \A k \in DOMAIN Line : Line[k] \in ToSet(Line)
  BY DEF ToSet
<1>5. CASE d \in ToSet(PublishedData)
  BY <1>1, <1>2, <1>3, <1>4, <1>5 DEF ToSet
<1>6. CASE d \in ToSet(cachedSendData)
  <2>1. PICK k \in DOMAIN cachedSendData : d = cachedSendData[k]
    BY <1>6 DEF ToSet
  <2>2. a + k \in DOMAIN Line /\ Line[a + k] = d.n
    BY <1>1, <1>2, <1>3, <2>1
  <2> QED  BY <1>4, <2>2
<1>7. CASE d \in ToSet(chSend)
  <2>1. PICK k \in DOMAIN chSend : d = chSend[k]
    BY <1>7 DEF ToSet
  <2>2. a + b + k \in DOMAIN Line /\ Line[a + b + k] = d.n
    BY <1>1, <1>2, <1>3, <2>1
  <2> QED  BY <1>4, <2>2
<1> QED  BY <1>5, <1>6, <1>7 DEF Known

LEMMA NoneMissingAccounted == MqTypeOK /\ NoneMissing => Accounted
<1> SUFFICES ASSUME MqTypeOK, NoneMissing, NEW n \in 1..sent
             PROVE  n \in ToSet(Line) \cup {d.n : d \in lost}
  BY DEF Accounted
<1>1. PICK d \in Known : d.n = n
  BY DEF NoneMissing
<1> QED  BY <1>1, KnownInLine

\* Every datum that was sent waits, is cached, was published or is known to be
\* lost, whatever breaks and however often.
THEOREM AccountedInvariant == MqSpec => []Accounted
<1>1. MqTypeOK /\ NoneMissing /\ [MqNext]_mqVars => (MqTypeOK /\ NoneMissing)'
  BY StepTyped, StepNoneMissing
<1> QED  BY InitTyped, InitNoneMissing, <1>1, NoneMissingAccounted, PTL DEF MqSpec

-----------------------------------------------------------------------------
(* The outbox.  What waits, as one sequence: the cache and then the channel. *)

\* What leaves the cache leaves the front of all that waits.
LEMMA FrontOfWaiting ==
  ASSUME NEW cached \in Seq(Data), NEW waiting \in Seq(Data),
         NEW done \in 0..Len(cached)
  PROVE  LET all == cached \o waiting  n == Len(cached) IN
         /\ SubSeq(all, 1, done) = SubSeq(cached, 1, done)
         /\ SubSeq(all, done + 1, n) = SubSeq(cached, done + 1, n)
         /\ SubSeq(all, n + 1, Len(all)) = waiting
<1> DEFINE all == cached \o waiting
           n == Len(cached)
<1>1. /\ all \in Seq(Data) /\ Len(all) = n + Len(waiting)
      /\ n \in Nat /\ Len(waiting) \in Nat
      /\ \A i \in 1..n : all[i] = cached[i]
      /\ \A i \in 1..Len(waiting) : all[n + i] = waiting[i]
  BY ConcatPlaces
<1> HIDE DEF all
<1>2. SubSeq(all, 1, done) = SubSeq(cached, 1, done)
  <2>1. /\ SubSeq(all, 1, done) \in Seq(Data) /\ Len(SubSeq(all, 1, done)) = done
        /\ \A i \in 1..done : SubSeq(all, 1, done)[i] = all[i]
    BY <1>1
  <2>2. /\ SubSeq(cached, 1, done) \in Seq(Data) /\ Len(SubSeq(cached, 1, done)) = done
        /\ \A i \in 1..done : SubSeq(cached, 1, done)[i] = cached[i]
    OBVIOUS
  <2>3. \A i \in 1..done : SubSeq(all, 1, done)[i] = SubSeq(cached, 1, done)[i]
    BY <1>1, <2>1, <2>2
  <2> QED  BY <2>1, <2>2, <2>3, SeqEqual
<1>3. SubSeq(all, done + 1, n) = SubSeq(cached, done + 1, n)
  <2>1. /\ SubSeq(all, done + 1, n) \in Seq(Data) /\ Len(SubSeq(all, done + 1, n)) = n - done
        /\ \A i \in 1..(n - done) : SubSeq(all, done + 1, n)[i] = all[done + i]
    BY <1>1
  <2>2. /\ SubSeq(cached, done + 1, n) \in Seq(Data)
        /\ Len(SubSeq(cached, done + 1, n)) = n - done
        /\ \A i \in 1..(n - done) : SubSeq(cached, done + 1, n)[i] = cached[done + i]
    OBVIOUS
  <2>3. \A i \in 1..(n - done) :
          SubSeq(all, done + 1, n)[i] = SubSeq(cached, done + 1, n)[i]
    BY <1>1, <2>1, <2>2
  <2> QED  BY <2>1, <2>2, <2>3, SeqEqual
<1>4. SubSeq(all, n + 1, Len(all)) = waiting
  <2>1. /\ SubSeq(all, n + 1, Len(all)) \in Seq(Data)
        /\ Len(SubSeq(all, n + 1, Len(all))) = Len(waiting)
        /\ \A i \in 1..Len(waiting) : SubSeq(all, n + 1, Len(all))[i] = all[n + i]
    BY <1>1
  <2> QED  BY <1>1, <2>1, SeqEqual
<1> QED  BY <1>2, <1>3, <1>4 DEF all

\* A datum that joins the channel joins the end of all that waits.
LEMMA EndOfWaiting ==
  ASSUME NEW cached \in Seq(Data), NEW waiting \in Seq(Data), NEW d \in Data
  PROVE  cached \o Append(waiting, d) = Append(cached \o waiting, d)
<1> DEFINE one == cached \o Append(waiting, d)
           other == Append(cached \o waiting, d)
<1>1. /\ cached \o waiting \in Seq(Data)
      /\ Len(cached \o waiting) = Len(cached) + Len(waiting)
      /\ Len(cached) \in Nat /\ Len(waiting) \in Nat
      /\ \A i \in 1..Len(cached) : (cached \o waiting)[i] = cached[i]
      /\ \A i \in 1..Len(waiting) : (cached \o waiting)[Len(cached) + i] = waiting[i]
  BY ConcatPlaces
<1>2. /\ other \in Seq(Data) /\ Len(other) = Len(cached) + Len(waiting) + 1
      /\ \A i \in 1..(Len(cached) + Len(waiting)) : other[i] = (cached \o waiting)[i]
      /\ other[Len(cached) + Len(waiting) + 1] = d
  BY <1>1, AppendProperties
<1>3. /\ Append(waiting, d) \in Seq(Data) /\ Len(Append(waiting, d)) = Len(waiting) + 1
      /\ \A i \in 1..Len(waiting) : Append(waiting, d)[i] = waiting[i]
      /\ Append(waiting, d)[Len(waiting) + 1] = d
  BY AppendProperties
<1>4. /\ one \in Seq(Data) /\ Len(one) = Len(cached) + Len(waiting) + 1
      /\ \A i \in 1..Len(cached) : one[i] = cached[i]
      /\ \A i \in 1..(Len(waiting) + 1) : one[Len(cached) + i] = Append(waiting, d)[i]
  BY <1>1, <1>3, ConcatPlaces
<1> HIDE DEF one, other
<1>5. \A i \in 1..Len(one) : one[i] = other[i]
  <2> SUFFICES ASSUME NEW i \in 1..Len(one) PROVE one[i] = other[i]
    OBVIOUS
  <2>1. CASE i \in 1..Len(cached)
    <3>1. i \in 1..(Len(cached) + Len(waiting))
      BY <1>1, <2>1
    <3>2. other[i] = cached[i]
      BY <1>1, <1>2, <2>1, <3>1
    <3> QED  BY <1>4, <2>1, <3>2
  <2>2. CASE i \notin 1..Len(cached)
    <3>1. i - Len(cached) \in 1..(Len(waiting) + 1) /\ i = Len(cached) + (i - Len(cached))
      BY <1>1, <1>4, <2>2
    <3>2. one[i] = Append(waiting, d)[i - Len(cached)]
      BY <1>4, <3>1
    <3>3. CASE i - Len(cached) \in 1..Len(waiting)
      <4>1. one[i] = waiting[i - Len(cached)]
        BY <1>3, <3>2, <3>3
      <4>2. (cached \o waiting)[i] = waiting[i - Len(cached)]
        BY <1>1, <3>1, <3>3
      <4>3. i \in 1..(Len(cached) + Len(waiting))
        BY <1>1, <3>1, <3>3
      <4> QED  BY <1>2, <4>1, <4>2, <4>3
    <3>4. CASE i - Len(cached) = Len(waiting) + 1
      <4>1. i = Len(cached) + Len(waiting) + 1
        BY <1>1, <3>1, <3>4
      <4> QED  BY <1>2, <1>3, <3>2, <3>4, <4>1
    <3> QED  BY <1>1, <3>1, <3>3, <3>4
  <2> QED  BY <2>1, <2>2
<1> QED  BY <1>2, <1>4, <1>5, SeqEqual DEF one, other

\* What passes from the channel into the cache stays where it was.
LEMMA MoveOfWaiting ==
  ASSUME NEW cached \in Seq(Data), NEW waiting \in Seq(Data), waiting # <<>>
  PROVE  Append(cached, Head(waiting)) \o Tail(waiting) = cached \o waiting
<1>1. /\ Head(waiting) \in Data /\ Tail(waiting) \in Seq(Data)
      /\ Head(waiting) = waiting[1] /\ Len(Tail(waiting)) = Len(waiting) - 1
      /\ Len(waiting) \in Nat \ {0} /\ Len(cached) \in Nat
      /\ \A i \in 1..(Len(waiting) - 1) : Tail(waiting)[i] = waiting[i + 1]
  OBVIOUS
<1> DEFINE longer == Append(cached, Head(waiting))
<1>2. /\ longer \in Seq(Data) /\ Len(longer) = Len(cached) + 1
      /\ \A i \in 1..Len(cached) : longer[i] = cached[i]
      /\ longer[Len(cached) + 1] = Head(waiting)
  BY <1>1, AppendProperties
<1> HIDE DEF longer
<1> DEFINE one == longer \o Tail(waiting)
           other == cached \o waiting
<1>3. /\ one \in Seq(Data) /\ Len(one) = Len(cached) + Len(waiting)
      /\ \A i \in 1..Len(longer) : one[i] = longer[i]
      /\ \A i \in 1..(Len(waiting) - 1) : one[Len(longer) + i] = Tail(waiting)[i]
  <2>1. /\ one \in Seq(Data) /\ Len(one) = Len(longer) + Len(Tail(waiting))
        /\ \A i \in 1..Len(longer) : one[i] = longer[i]
        /\ \A i \in 1..Len(Tail(waiting)) : one[Len(longer) + i] = Tail(waiting)[i]
    <3>1. longer \in Seq(Data) /\ Tail(waiting) \in Seq(Data)
      BY <1>1, <1>2
    <3> QED  BY <3>1, ConcatPlaces
  <2> HIDE DEF one
  <2> QED  BY <1>1, <1>2, <2>1
<1>4. /\ other \in Seq(Data) /\ Len(other) = Len(cached) + Len(waiting)
      /\ \A i \in 1..Len(cached) : other[i] = cached[i]
      /\ \A i \in 1..Len(waiting) : other[Len(cached) + i] = waiting[i]
  BY ConcatPlaces
<1> HIDE DEF one, other
<1>5. \A i \in 1..Len(one) : one[i] = other[i]
  <2> SUFFICES ASSUME NEW i \in 1..Len(one) PROVE one[i] = other[i]
    OBVIOUS
  <2>1. CASE i \in 1..Len(cached)
    BY <1>1, <1>2, <1>3, <1>4, <2>1
  <2>2. CASE i = Len(cached) + 1
    BY <1>1, <1>2, <1>3, <1>4, <2>2
  <2>3. CASE i > Len(cached) + 1
    <3>1. /\ i - Len(longer) \in 1..(Len(waiting) - 1)
          /\ i = Len(longer) + (i - Len(longer))
          /\ i - Len(longer) + 1 \in 1..Len(waiting)
          /\ i = Len(cached) + (i - Len(longer) + 1)
      BY <1>1, <1>2, <1>3, <2>3
    <3>2. one[i] = Tail(waiting)[i - Len(longer)]
      BY <1>3, <3>1
    <3>3. Tail(waiting)[i - Len(longer)] = waiting[i - Len(longer) + 1]
      BY <1>1, <3>1
    <3>4. other[i] = waiting[i - Len(longer) + 1]
      BY <1>4, <3>1
    <3> QED  BY <3>2, <3>3, <3>4
  <2>4. i \in Int
    OBVIOUS
  <2> QED  BY <1>1, <2>1, <2>2, <2>3, <2>4
<1> QED  BY <1>3, <1>4, <1>5, SeqEqual DEF one, other, longer

LEMMA FirstAlone ==
  ASSUME NEW s \in Seq(Data), Len(s) # 0
  PROVE  SubSeq(s, 1, 1) = <<Head(s)>>
<1>1. Len(s) \in Nat \ {0} /\ Head(s) = s[1] /\ s[1] \in Data
  OBVIOUS
<1>2. /\ SubSeq(s, 1, 1) \in Seq(Data) /\ Len(SubSeq(s, 1, 1)) = 1
      /\ SubSeq(s, 1, 1)[1] = s[1]
  BY <1>1, SubSeqProperties
<1>3. <<s[1]>> \in Seq(Data) /\ Len(<<s[1]>>) = 1 /\ <<s[1]>>[1] = s[1]
  BY <1>1
<1>4. ASSUME NEW i \in 1..Len(SubSeq(s, 1, 1))
      PROVE  SubSeq(s, 1, 1)[i] = <<s[1]>>[i]
  <2>1. i = 1
    BY <1>2
  <2> QED  BY <1>2, <1>3, <2>1
<1>5. SubSeq(s, 1, 1) = <<s[1]>>
  BY <1>2, <1>3, <1>4, SeqEqual
<1> QED  BY <1>1, <1>5

-----------------------------------------------------------------------------
(* The outbox's steps. *)

LEMMA InitIsOutbox == MqInit => Abstractly!OutInit
<1> SUFFICES ASSUME MqInit PROVE Abstractly!OutInit
  OBVIOUS
<1>1. cachedSendData = <<>> /\ chSend = <<>> /\ lost = {} /\ published = <<>>
  BY DEF MqInit
<1>2. PublishedData = <<>>
  BY <1>1 DEF PublishedData
<1>3. cachedSendData \o chSend = <<>>
  BY <1>1
<1> QED  BY <1>1, <1>2, <1>3 DEF Abstractly!OutInit

LEMMA StepIsOutbox ==
  ASSUME MqTypeOK, NoCacheWhileOpen, [MqNext]_mqVars
  PROVE  [Abstractly!OutNext]_Abstractly!outVars
<1> DEFINE all == cachedSendData \o chSend
<1>1. /\ PublishedData \in Seq(Data) /\ cachedSendData \in Seq(Data)
      /\ chSend \in Seq(Data)
  BY PublishedTyped DEF MqTypeOK
<1>2. UNCHANGED published => UNCHANGED PublishedData
  BY DEF PublishedData
<1>3. ASSUME UNCHANGED <<published, cachedSendData, chSend, lost>>
      PROVE  UNCHANGED Abstractly!outVars
  BY <1>2, <1>3 DEF Abstractly!outVars
<1>0. \A s : Abstractly!ToSet(s) = ToSet(s)
  BY DEF Abstractly!ToSet, ToSet
<1>4. CASE UNCHANGED mqVars
  BY <1>3, <1>4 DEF mqVars
<1>5. ASSUME NEW talk \in TalkIds, NEW kind \in Kinds, SendData(talk, kind)
      PROVE  Abstractly!OutNext
  <2> DEFINE d == [n |-> sent + 1, talk |-> talk, kind |-> kind]
  <2>1. d \in Data
    BY <1>5, RabbitAssumption DEF SendData, Data, MqTypeOK, RabbitAssumption
  <2>2. \/ chSend' = Append(chSend, d) /\ UNCHANGED lost
        \/ lost' = lost \cup {d} /\ UNCHANGED chSend
    BY <1>5 DEF SendData
  <2>3. UNCHANGED <<cachedSendData, published, PublishedData>>
    BY <1>2, <1>5 DEF SendData
  <2> HIDE DEF d
  <2>4. CASE chSend' = Append(chSend, d) /\ UNCHANGED lost
    <3>1. (cachedSendData \o chSend)' = Append(cachedSendData \o chSend, d)
      BY <1>1, <2>1, <2>3, <2>4, EndOfWaiting
    <3>2. Abstractly!Accept(d)
      BY <2>3, <2>4, <3>1 DEF Abstractly!Accept
    <3> QED  BY <2>1, <3>2 DEF Abstractly!OutNext
  <2>5. CASE lost' = lost \cup {d} /\ UNCHANGED chSend
    <3>1. Abstractly!Decline(d)
      BY <2>3, <2>5 DEF Abstractly!Decline
    <3> QED  BY <2>1, <3>1 DEF Abstractly!OutNext
  <2> QED  BY <2>2, <2>4, <2>5
<1>6. CASE Dial
  BY <1>3, <1>6 DEF Dial
<1>7. CASE ConnBroken
  BY <1>3, <1>7 DEF ConnBroken
<1>8. CASE ConnDialSuccess
  BY <1>3, <1>8 DEF ConnDialSuccess
<1>9. CASE OpenChannel
  <2> DEFINE n == Len(cachedSendData)
  <2>1. PICK done \in 0..n :
          /\ published' = published \o Cached(SubSeq(cachedSendData, 1, done))
          /\ lost' = lost \cup ToSet(SubSeq(cachedSendData, done + 1, n))
    BY <1>9 DEF OpenChannel
  <2>2. cachedSendData' = <<>> /\ UNCHANGED chSend
    BY <1>9 DEF OpenChannel
  <2>3. /\ SubSeq(all, 1, done) = SubSeq(cachedSendData, 1, done)
        /\ SubSeq(all, done + 1, n) = SubSeq(cachedSendData, done + 1, n)
        /\ SubSeq(all, n + 1, Len(all)) = chSend
    BY <1>1, FrontOfWaiting
  <2>4. PublishedData' = PublishedData \o SubSeq(cachedSendData, 1, done)
    <3>1. SubSeq(cachedSendData, 1, done) \in Seq(Data)
      BY <1>1, Prefix
    <3> QED  BY <2>1, <3>1, PublishedMany
  <2>5. <<>> \o chSend = chSend
    BY <1>1, ConcatEmptySeq
  <2>6. CASE n = 0
    <3>1. cachedSendData = <<>>
      BY <1>1, <2>6
    <3>2. SubSeq(cachedSendData, 1, done) = <<>> /\ SubSeq(cachedSendData, done + 1, n) = <<>>
      BY <1>1, <2>1, <2>6, <3>1
    <3>3. PublishedData \o <<>> = PublishedData /\ ToSet(<<>>) = {}
      BY <1>1, ConcatEmptySeq DEF ToSet
    <3> QED  BY <2>1, <2>2, <2>4, <3>1, <3>2, <3>3 DEF Abstractly!outVars
  <2>7. CASE n # 0
    <3>1. /\ n \in 1..Len(all) /\ done \in 0..n
          /\ Len(all) = n + Len(chSend)
      <4>1. Len(all) = n + Len(chSend) /\ n \in Nat /\ Len(chSend) \in Nat
        BY <1>1, ConcatPlaces
      <4> QED  BY <2>1, <2>7, <4>1
    <3>2. all' = SubSeq(all, n + 1, Len(all))
      BY <2>2, <2>3, <2>5
    <3>3. /\ PublishedData' = PublishedData \o SubSeq(all, 1, done)
          /\ lost' = lost \cup ToSet(SubSeq(all, done + 1, n))
      BY <2>1, <2>3, <2>4
    <3>4. Abstractly!Leave
      BY <1>0, <3>1, <3>2, <3>3 DEF Abstractly!Leave
    <3> QED  BY <3>4 DEF Abstractly!OutNext
  <2> QED  BY <2>6, <2>7
<1>10. CASE SendChannelBroken
  BY <1>3, <1>10 DEF SendChannelBroken
<1>11. CASE TakeData
  <2>1. chSend # <<>> /\ chSend' = Tail(chSend)
    BY <1>11 DEF TakeData
  <2>2. Head(chSend) \in Data
    BY <1>1, <2>1, HeadTailToSet
  <2>3. CASE /\ cachedSendData' = Append(cachedSendData, Head(chSend))
             /\ UNCHANGED <<published, lost>>
    <3>1. (cachedSendData \o chSend)' = cachedSendData \o chSend
      BY <1>1, <2>1, <2>3, MoveOfWaiting
    <3> QED  BY <1>2, <2>3, <3>1 DEF Abstractly!outVars
  <2>4. CASE channelSend # "none" /\ UNCHANGED cachedSendData
    <3>1. cachedSendData = <<>>
      BY <2>4 DEF NoCacheWhileOpen
    <3>2. all = chSend /\ all' = Tail(chSend)
      <4>1. <<>> \o chSend = chSend
        BY <1>1, ConcatEmptySeq
      <4>2. Tail(chSend) \in Seq(Data)
        BY <1>1, <2>1, HeadTailToSet
      <4>3. <<>> \o Tail(chSend) = Tail(chSend)
        BY <4>2, ConcatEmptySeq
      <4> QED  BY <2>1, <2>4, <3>1, <4>1, <4>3
    <3>3. /\ Len(chSend) \in Nat \ {0}
          /\ SubSeq(chSend, 2, Len(chSend)) = Tail(chSend)
          /\ SubSeq(chSend, 1, 1) = <<Head(chSend)>> /\ SubSeq(chSend, 2, 1) = <<>>
          /\ SubSeq(chSend, 1, 0) = <<>>
      <4>1. Len(chSend) \in Nat \ {0}
        BY <1>1, <2>1
      <4>2. SubSeq(chSend, 2, Len(chSend)) = Tail(chSend)
        BY <1>1, <2>1, TailIsSubSeq
      <4>3. SubSeq(chSend, 2, 1) = <<>> /\ SubSeq(chSend, 1, 0) = <<>>
        BY SubSeqEmpty
      <4>4. SubSeq(chSend, 1, 1) = <<Head(chSend)>>
        BY <1>1, <4>1, FirstAlone
      <4> QED  BY <4>1, <4>2, <4>3, <4>4
    <3>4. 1 \in 1..Len(all) /\ 0 \in 0..1 /\ 1 \in 0..1
      BY <3>2, <3>3
    <3>5. CASE PublishLive(Head(chSend)) /\ UNCHANGED lost
      <4>1. PublishedData' = Append(PublishedData, Head(chSend))
        BY <2>2, <3>5, PublishedOne
      <4>2. PublishedData' = PublishedData \o SubSeq(all, 1, 1)
        BY <1>1, <2>2, <3>2, <3>3, <4>1, AppendIsConcat
      <4>3. ToSet(<<>>) = {}
        BY DEF ToSet
      <4>4. lost' = lost \cup ToSet(SubSeq(all, 1 + 1, 1))
        <5>1. 1 + 1 = 2
          OBVIOUS
        <5>2. lost' = lost \cup {}
          BY <3>5
        <5> QED  BY <3>2, <3>3, <4>3, <5>1, <5>2
      <4>5. all' = SubSeq(all, 1 + 1, Len(all))
        BY <3>2, <3>3
      <4>6. Abstractly!Leave
        BY <1>0, <3>4, <4>2, <4>4, <4>5 DEF Abstractly!Leave
      <4> QED  BY <4>6 DEF Abstractly!OutNext
    <3>6. CASE lost' = lost \cup {Head(chSend)} /\ UNCHANGED published
      <4>1. PublishedData' = PublishedData \o SubSeq(all, 1, 0)
        <5>1. PublishedData \o <<>> = PublishedData
          BY <1>1, ConcatEmptySeq
        <5> QED  BY <1>2, <3>2, <3>3, <3>6, <5>1
      <4>2. ToSet(<<Head(chSend)>>) = {Head(chSend)}
        BY DEF ToSet
      <4>3. lost' = lost \cup ToSet(SubSeq(all, 0 + 1, 1))
        <5>1. 0 + 1 = 1
          OBVIOUS
        <5> QED  BY <3>2, <3>3, <3>6, <4>2, <5>1
      <4>4. all' = SubSeq(all, 1 + 1, Len(all))
        BY <3>2, <3>3
      <4>5. Abstractly!Leave
        BY <1>0, <3>4, <4>1, <4>3, <4>4 DEF Abstractly!Leave
      <4> QED  BY <4>5 DEF Abstractly!OutNext
    <3>7. \/ PublishLive(Head(chSend)) /\ UNCHANGED lost
          \/ lost' = lost \cup {Head(chSend)} /\ UNCHANGED published
          \/ channelSend = "none"
      BY <1>11 DEF TakeData
    <3> QED  BY <2>4, <3>5, <3>6, <3>7
  <2> QED  BY <1>11, <2>3, <2>4 DEF TakeData
<1>12. CASE BreakConnection
  BY <1>3, <1>12 DEF BreakConnection
<1>13. CASE BreakChannel
  BY <1>3, <1>13 DEF BreakChannel
<1>14. CASE ChannelShutdown
  BY <1>3, <1>14 DEF ChannelShutdown
<1> QED
  BY <1>4, <1>5, <1>6, <1>7, <1>8, <1>9, <1>10, <1>11, <1>12, <1>13, <1>14
  DEF MqNext, MqMainStep

\* For any data, capacities and failures, the publishing routines are an outbox:
\* what is cached while there is no channel and what waits in the channel leave as
\* one queue.
THEOREM OutboxImplemented == MqSpec => IsAnOutbox
<1>1. MqTypeOK /\ Queues /\ [MqNext]_mqVars => (MqTypeOK /\ Queues)'
  BY StepTyped, StepQueues
<1>2. MqTypeOK /\ Queues /\ [MqNext]_mqVars => [Abstractly!OutNext]_Abstractly!outVars
  BY StepIsOutbox DEF Queues
<1> QED
  BY InitTyped, InitQueues, InitIsOutbox, <1>1, <1>2, PTL
  DEF MqSpec, IsAnOutbox, Abstractly!OutSpec

-----------------------------------------------------------------------------
(***************************************************************************)
(* The tracking of talks.                                                  *)
(***************************************************************************)

\* The routine of the fixed exchange is one of the routines, and not of a talk.
LEMMA Constants ==
  /\ Fixed \in Routines /\ Routines \subseteq Nat /\ 0 \notin Routines
  /\ Shared \notin TrackedTalks /\ Shared \in Exchanges /\ TrackedTalks \subseteq Exchanges
  /\ RequestCap \in Nat \ {0} /\ EventCap \in Nat \ {0}
  /\ MaxTracks \in Nat /\ MaxDeliveries \in Nat /\ MaxFailures \in Nat
BY TrackAssumption DEF TrackAssumption, Fixed, Routines, Shared, Exchanges

\* Receiving from a channel gives an element of its kind.
LEMMA ReceiveTyped ==
  ASSUME NEW S, NEW s \in Seq(S), NEW cap \in Nat, Len(s) <= cap, s # <<>>
  PROVE  Head(s) \in S /\ Tail(s) \in Seq(S) /\ Len(Tail(s)) <= cap
OBVIOUS

\* A routine that lives and is not the fixed one belongs to a talk.
LEMMA LiveOfTalk ==
  ASSUME TrackTypeOK, Tracking, NEW r \in Routines, Live(r), r # Fixed
  PROVE  routine[r].talk \in TrackedTalks /\ routine[r].talk \in trackTalkMap /\ r <= tracks
<1>1. StartedInTurn /\ LivesInMap
  BY DEF Tracking
<1>2. routine[r].at # "unused" /\ r \in Routines \ {Fixed}
  BY DEF Live
<1>3. routine[r].talk \in trackTalkMap
  BY <1>1 DEF LivesInMap
<1>4. ~(r > tracks)
  BY <1>1, <1>2 DEF StartedInTurn
<1>5. r \in Nat /\ tracks \in Nat
  BY Constants DEF TrackTypeOK
<1>6. r <= tracks
  BY <1>4, <1>5
<1>7. routine[r].talk \in TrackedTalks
  BY <1>1, <1>2, <1>6 DEF StartedInTurn
<1> QED  BY <1>3, <1>6, <1>7

-----------------------------------------------------------------------------
(* Typing. *)

LEMMA NewRoutineTyped ==
  ASSUME NEW t \in Exchanges
  PROVE  NewRoutine(t) \in Routine
<1>1. <<>> \in Seq(Nat)
  OBVIOUS
<1> QED  BY <1>1 DEF NewRoutine, Routine

LEMMA TrackInitTyped == TrackInit => TrackTypeOK
<1> SUFFICES ASSUME TrackInit PROVE TrackTypeOK
  OBVIOUS
<1> USE Constants, TrackAssumption DEF TrackAssumption
<1>1. watcher \in [Watchers -> {"away", "installed", "refused", "gone"}]
  BY DEF TrackInit
<1>2. talkOf \in [Watchers -> TrackedTalks]
  BY DEF TrackInit
<1>3. /\ startRequests \in Seq(TrackedTalks) /\ Len(startRequests) <= RequestCap
      /\ stopRequests \in Seq(TrackedTalks) /\ Len(stopRequests) <= RequestCap
  BY DEF TrackInit
<1>4. startedEvents \in Seq(Routines) /\ Len(startedEvents) <= EventCap
  BY DEF TrackInit
<1>5. stoppedEvents \in Seq(TrackedTalks) /\ Len(stoppedEvents) <= EventCap
  BY DEF TrackInit
<1>6. trackTalkMap \subseteq TrackedTalks /\ cancelOf \in [TrackedTalks -> Routines \cup {0}]
  BY DEF TrackInit
<1>7. routine \in [Routines -> Routine]
  <2>1. NewRoutine(Shared) \in Routine
    BY NewRoutineTyped
  <2>2. [NewRoutine(Shared) EXCEPT !.at = "unused"] \in Routine
    BY <2>1 DEF Routine
  <2> QED  BY <2>1, <2>2 DEF TrackInit
<1>8. tracks \in 1..(1 + MaxTracks) /\ publishes \in Nat /\ failures \in Nat
  BY DEF TrackInit
<1>9. heard \in [Exchanges -> Seq(Nat)] /\ mishaps \subseteq Mishap
  <2>1. <<>> \in Seq(Nat)
    OBVIOUS
  <2> QED  BY <2>1 DEF TrackInit
<1> QED
  BY <1>1, <1>2, <1>3, <1>4, <1>5, <1>6, <1>7, <1>8, <1>9 DEF TrackTypeOK

\* A step of a routine that only changes what the routines are.
LEMMA RoutineTyped ==
  ASSUME TrackTypeOK, routine' \in [Routines -> Routine],
         UNCHANGED <<watchVars, requestVars, eventVars, mapVars, tracks, heard, mishaps>>,
         publishes' \in Nat, failures' \in Nat
  PROVE  TrackTypeOK'
BY DEF TrackTypeOK, watchVars, requestVars, eventVars, mapVars

\* Cancelling a routine, and a step of one routine, leave a routine.
LEMMA CancelTyped ==
  ASSUME routine \in [Routines -> Routine], NEW r \in Routines
  PROVE  [routine EXCEPT ![r].cancelled = TRUE] \in [Routines -> Routine]
<1>1. [routine[r] EXCEPT !.cancelled = TRUE] \in Routine
  BY DEF Routine
<1> QED  BY <1>1

LEMMA AtTyped ==
  ASSUME routine \in [Routines -> Routine], NEW r \in Routines,
         NEW at \in {"unused", "starting", "setup", "consuming", "broken", "stopping", "ended"},
         NEW left \in BOOLEAN
  PROVE  /\ [routine EXCEPT ![r].at = at] \in [Routines -> Routine]
         /\ [routine EXCEPT ![r] = [@ EXCEPT !.at = at, !.queue = <<>>]]
              \in [Routines -> Routine]
         /\ [routine EXCEPT ![r] = [@ EXCEPT !.at = at, !.queue = <<>>, !.left = left]]
              \in [Routines -> Routine]
<1>1. routine[r] \in Routine /\ <<>> \in Seq(Nat)
  OBVIOUS
<1>2. /\ [routine[r] EXCEPT !.at = at] \in Routine
      /\ [routine[r] EXCEPT !.at = at, !.queue = <<>>] \in Routine
      /\ [routine[r] EXCEPT !.at = at, !.queue = <<>>, !.left = left] \in Routine
  BY <1>1 DEF Routine
<1> QED  BY <1>2

LEMMA TrackStepTyped ==
  ASSUME TrackTypeOK, Tracking, [TrackNext]_trackVars
  PROVE  TrackTypeOK'
<1> USE Constants
<1>1. CASE UNCHANGED trackVars
  BY <1>1 DEF trackVars, TrackTypeOK
<1>2. ASSUME NEW w \in Watchers, InstallWatcher(w) PROVE TrackTypeOK'
  <2>1. watcher' \in [Watchers -> {"away", "installed", "refused", "gone"}]
    BY <1>2 DEF InstallWatcher, TrackTypeOK
  <2>2. startRequests' \in Seq(TrackedTalks) /\ Len(startRequests') <= RequestCap
    <3>1. talkOf[w] \in TrackedTalks
      BY DEF TrackTypeOK
    <3>2. startRequests \in Seq(TrackedTalks) /\ Len(startRequests) <= RequestCap
      BY DEF TrackTypeOK
    <3>3. \/ HasRoom(startRequests, RequestCap) /\ startRequests' = Append(startRequests, talkOf[w])
          \/ UNCHANGED startRequests
      BY <1>2 DEF InstallWatcher
    <3>4. CASE HasRoom(startRequests, RequestCap) /\ startRequests' = Append(startRequests, talkOf[w])
      <4>1. Append(startRequests, talkOf[w]) \in Seq(TrackedTalks) /\ Len(Append(startRequests, talkOf[w])) <= RequestCap
        BY <3>1, <3>2, <3>4, SendTyped
      <4> QED  BY <3>4, <4>1
    <3> QED  BY <3>2, <3>3, <3>4
  <2> QED  BY <1>2, <2>1, <2>2
           DEF InstallWatcher, TrackTypeOK, eventVars, mapVars, brokerVars
<1>3. ASSUME NEW w \in Watchers, UninstallWatcher(w) PROVE TrackTypeOK'
  <2>1. watcher' \in [Watchers -> {"away", "installed", "refused", "gone"}]
    BY <1>3 DEF UninstallWatcher, TrackTypeOK
  <2>2. talkOf[w] \in TrackedTalks
    BY DEF TrackTypeOK
  <2>3. stopRequests' \in Seq(TrackedTalks) /\ Len(stopRequests') <= RequestCap
    <3>2. stopRequests \in Seq(TrackedTalks) /\ Len(stopRequests) <= RequestCap
      BY DEF TrackTypeOK
    <3>3. \/ HasRoom(stopRequests, RequestCap) /\ stopRequests' = Append(stopRequests, talkOf[w])
          \/ UNCHANGED stopRequests
      BY <1>3 DEF UninstallWatcher
    <3>4. CASE HasRoom(stopRequests, RequestCap) /\ stopRequests' = Append(stopRequests, talkOf[w])
      <4>1. Append(stopRequests, talkOf[w]) \in Seq(TrackedTalks) /\ Len(Append(stopRequests, talkOf[w])) <= RequestCap
        BY <2>2, <3>2, <3>4, SendTyped
      <4> QED  BY <3>4, <4>1
    <3> QED  BY <3>2, <3>3, <3>4
  <2>4. mishaps' \subseteq Mishap
    BY <1>3, <2>2 DEF UninstallWatcher, TrackTypeOK, Note, Mishap
  <2> QED  BY <1>3, <2>1, <2>3, <2>4
           DEF UninstallWatcher, TrackTypeOK, eventVars, mapVars, brokerVars
<1>4. CASE StartRequest
  <2> DEFINE t == Head(startRequests)
  <2>1. /\ t \in TrackedTalks /\ startRequests' \in Seq(TrackedTalks)
        /\ Len(startRequests') <= RequestCap
    BY <1>4, ReceiveTyped DEF StartRequest, TrackTypeOK
  <2>2. CASE t \in trackTalkMap
    BY <1>4, <2>1, <2>2
    DEF StartRequest, TrackTypeOK, watchVars, eventVars, mapVars, brokerVars
  <2>3. CASE t \notin trackTalkMap
    <3>1. /\ tracks' = tracks + 1 /\ tracks < 1 + MaxTracks
          /\ trackTalkMap' = trackTalkMap \cup {t} /\ UNCHANGED cancelOf
          /\ routine' = [routine EXCEPT ![tracks + 1] = NewRoutine(t)]
      BY <1>4, <2>3 DEF StartRequest
    <3>2. NewRoutine(t) \in Routine
      BY <2>1, NewRoutineTyped
    <3>3. routine' \in [Routines -> Routine]
      BY <3>1, <3>2 DEF TrackTypeOK
    <3>4. tracks' \in 1..(1 + MaxTracks)
      BY <3>1 DEF TrackTypeOK
    <3> QED  BY <1>4, <2>1, <3>1, <3>3, <3>4
             DEF StartRequest, TrackTypeOK, watchVars, eventVars, brokerVars
  <2> QED  BY <2>2, <2>3
<1>5. CASE StopRequest
  <2> DEFINE t == Head(stopRequests)
  <2>1. /\ t \in TrackedTalks /\ stopRequests' \in Seq(TrackedTalks)
        /\ Len(stopRequests') <= RequestCap
    BY <1>5, ReceiveTyped DEF StopRequest, TrackTypeOK
  <2>2. mishaps' \subseteq Mishap
    <3>1. <<"stopMissed", t>> \in Mishap
      BY <2>1 DEF Mishap
    <3>2. mishaps' \in {mishaps, mishaps \cup {<<"stopMissed", t>>}}
      BY <1>5 DEF StopRequest, Note
    <3> QED  BY <3>1, <3>2 DEF TrackTypeOK
  <2>3. routine' \in [Routines -> Routine]
    <3>1. CASE t \in trackTalkMap /\ cancelOf[t] # 0
      <4>1. cancelOf[t] \in Routines
        BY <2>1, <3>1 DEF TrackTypeOK
      <4>2. routine' = [routine EXCEPT ![cancelOf[t]].cancelled = TRUE]
        BY <1>5, <3>1 DEF StopRequest
      <4> QED  BY <4>1, <4>2, CancelTyped DEF TrackTypeOK
    <3>2. CASE ~(t \in trackTalkMap /\ cancelOf[t] # 0)
      BY <1>5, <3>2 DEF StopRequest, TrackTypeOK
    <3> QED  BY <3>1, <3>2
  <2> QED  BY <1>5, <2>1, <2>2, <2>3
           DEF StopRequest, TrackTypeOK, watchVars, eventVars, mapVars, brokerVars
<1>6. CASE StartedEvent
  <2> DEFINE r == Head(startedEvents)
  <2>1. /\ r \in Routines /\ startedEvents' \in Seq(Routines)
        /\ Len(startedEvents') <= EventCap
    BY <1>6, ReceiveTyped DEF StartedEvent, TrackTypeOK
  <2>2. cancelOf' \in [TrackedTalks -> Routines \cup {0}]
    BY <1>6, <2>1 DEF StartedEvent, TrackTypeOK
  <2> QED  BY <1>6, <2>1, <2>2
           DEF StartedEvent, TrackTypeOK, watchVars, requestVars, brokerVars
<1>7. CASE StoppedEvent
  <2> DEFINE t == Head(stoppedEvents)
  <2>1. /\ t \in TrackedTalks /\ stoppedEvents' \in Seq(TrackedTalks)
        /\ Len(stoppedEvents') <= EventCap
    BY <1>7, ReceiveTyped DEF StoppedEvent, TrackTypeOK
  <2>2. routine' \in [Routines -> Routine]
    <3>1. CASE t \in trackTalkMap /\ cancelOf[t] # 0
      <4>1. cancelOf[t] \in Routines
        BY <2>1, <3>1 DEF TrackTypeOK
      <4>2. routine' = [routine EXCEPT ![cancelOf[t]].cancelled = TRUE]
        BY <1>7, <3>1 DEF StoppedEvent
      <4> QED  BY <4>1, <4>2, CancelTyped DEF TrackTypeOK
    <3>2. CASE ~(t \in trackTalkMap /\ cancelOf[t] # 0)
      BY <1>7, <3>2 DEF StoppedEvent, TrackTypeOK
    <3> QED  BY <3>1, <3>2
  <2>3. cancelOf' \in [TrackedTalks -> Routines \cup {0}] /\ trackTalkMap' \subseteq TrackedTalks
    BY <1>7, <2>1 DEF StoppedEvent, TrackTypeOK
  <2> QED  BY <1>7, <2>1, <2>2, <2>3
           DEF StoppedEvent, TrackTypeOK, watchVars, requestVars, brokerVars
<1>8. ASSUME NEW r \in Routines, Announce(r) PROVE TrackTypeOK'
  <2>1. startedEvents' \in Seq(Routines) /\ Len(startedEvents') <= EventCap
    BY <1>8, SendTyped DEF Announce, TrackTypeOK
  <2>2. routine' \in [Routines -> Routine]
    BY <1>8, AtTyped DEF Announce, Move, TrackTypeOK
  <2> QED  BY <1>8, <2>1, <2>2
           DEF Announce, TrackTypeOK, watchVars, requestVars, mapVars, brokerVars
<1>9. ASSUME NEW r \in Routines, ContextDone(r) PROVE TrackTypeOK'
  <2>1. (routine[r].at # "setup") \in BOOLEAN
    OBVIOUS
  <2>2. routine' \in [Routines -> Routine]
    BY <1>9, <2>1, AtTyped DEF ContextDone, TrackTypeOK
  <2> QED  BY <1>9, <2>2, RoutineTyped DEF ContextDone, brokerVars, TrackTypeOK
<1>10. ASSUME NEW r \in Routines, SetUp(r) PROVE TrackTypeOK'
  <2>2. routine' \in [Routines -> Routine]
    BY <1>10, AtTyped DEF SetUp, TrackTypeOK
  <2> QED  BY <1>10, <2>2, RoutineTyped DEF SetUp, brokerVars, TrackTypeOK
<1>11. ASSUME NEW r \in Routines, SetUpFails(r) PROVE TrackTypeOK'
  <2>1. failures' \in Nat /\ UNCHANGED publishes
    BY <1>11 DEF SetUpFails, TrackTypeOK
  <2> QED  BY <1>11, <2>1, RoutineTyped DEF SetUpFails, TrackTypeOK
<1>12. ASSUME NEW r \in Routines, ChannelBroken(r) PROVE TrackTypeOK'
  <2>2. routine' \in [Routines -> Routine]
    BY <1>12, AtTyped DEF ChannelBroken, TrackTypeOK
  <2> QED  BY <1>12, <2>2, RoutineTyped DEF ChannelBroken, brokerVars, TrackTypeOK
<1>13. ASSUME NEW r \in Routines, Deliver(r) PROVE TrackTypeOK'
  <2>1. /\ routine[r].talk \in Exchanges /\ routine[r].queue \in Seq(Nat)
        /\ routine[r].queue # <<>>
    BY <1>13 DEF Deliver, TrackTypeOK, Routine
  <2>2. Head(routine[r].queue) \in Nat /\ Tail(routine[r].queue) \in Seq(Nat)
    BY <2>1, HeadTailToSet
  <2>3. routine' \in [Routines -> Routine]
    <3>1. PICK new : new = [routine[r] EXCEPT !.queue = Tail(routine[r].queue)]
      OBVIOUS
    <3>2. routine[r] \in Routine
      BY DEF TrackTypeOK
    <3>3. new \in Routine
      BY <2>2, <3>1, <3>2 DEF Routine
    <3>4. routine' = [routine EXCEPT ![r] = new]
      BY <1>13, <3>1 DEF Deliver
    <3> QED  BY <3>3, <3>4 DEF TrackTypeOK
  <2>4. heard' \in [Exchanges -> Seq(Nat)]
    <3>1. Append(heard[routine[r].talk], Head(routine[r].queue)) \in Seq(Nat)
      BY <2>1, <2>2 DEF TrackTypeOK
    <3> QED  BY <1>13, <2>1, <3>1 DEF Deliver, TrackTypeOK
  <2> QED  BY <1>13, <2>3, <2>4
           DEF Deliver, TrackTypeOK, watchVars, requestVars, eventVars, mapVars, brokerVars
<1>14. ASSUME NEW r \in Routines, ReportStopped(r) PROVE TrackTypeOK'
  <2>1. r # Fixed /\ Live(r)
    BY <1>14 DEF ReportStopped, Tracking, FixedStays, Live
  <2>2. routine[r].talk \in TrackedTalks
    BY <2>1, LiveOfTalk
  <2>3. stoppedEvents' \in Seq(TrackedTalks) /\ Len(stoppedEvents') <= EventCap
    <3>2. stoppedEvents \in Seq(TrackedTalks) /\ Len(stoppedEvents) <= EventCap
      BY DEF TrackTypeOK
    <3>3. \/ HasRoom(stoppedEvents, EventCap) /\ stoppedEvents' = Append(stoppedEvents, routine[r].talk)
          \/ UNCHANGED stoppedEvents
      BY <1>14 DEF ReportStopped
    <3>4. CASE HasRoom(stoppedEvents, EventCap) /\ stoppedEvents' = Append(stoppedEvents, routine[r].talk)
      <4>1. Append(stoppedEvents, routine[r].talk) \in Seq(TrackedTalks) /\ Len(Append(stoppedEvents, routine[r].talk)) <= EventCap
        BY <2>2, <3>2, <3>4, SendTyped
      <4> QED  BY <3>4, <4>1
    <3> QED  BY <3>2, <3>3, <3>4
  <2>4. mishaps' \subseteq Mishap
    BY <1>14, <2>2 DEF ReportStopped, TrackTypeOK, Note, Mishap
  <2>5. routine' \in [Routines -> Routine]
    BY <1>14, AtTyped DEF ReportStopped, Move, TrackTypeOK
  <2> QED  BY <1>14, <2>3, <2>4, <2>5
           DEF ReportStopped, TrackTypeOK, watchVars, requestVars, mapVars, brokerVars
<1>15. ASSUME NEW exchange \in PublishedTo, Publish(exchange) PROVE TrackTypeOK'
  <2>1. publishes' = publishes + 1 /\ publishes + 1 \in Nat /\ UNCHANGED failures
    <3>1. publishes \in Nat
      BY DEF TrackTypeOK
    <3>2. publishes' = publishes + 1 /\ UNCHANGED failures
      BY <1>15 DEF Publish
    <3> QED  BY <3>1, <3>2
  <2>2. ASSUME NEW r \in Routines PROVE routine'[r] \in Routine
    <3>1. routine[r] \in Routine /\ routine[r].queue \in Seq(Nat)
      BY DEF TrackTypeOK, Routine
    <3>2. Append(routine[r].queue, publishes + 1) \in Seq(Nat)
      BY <2>1, <3>1
    <3>3. \/ routine'[r] = [routine[r] EXCEPT !.queue = Append(@, publishes + 1)]
          \/ routine'[r] = routine[r]
      BY <1>15 DEF Publish
    <3> QED  BY <3>1, <3>2, <3>3 DEF Routine
  <2>3. routine' \in [Routines -> Routine]
    BY <1>15, <2>2 DEF Publish
  <2> QED  BY <1>15, <2>1, <2>3, RoutineTyped DEF Publish, TrackTypeOK
<1>16. ASSUME NEW r \in Routines, BreakTrackChannel(r) PROVE TrackTypeOK'
  <2>1. failures' \in Nat /\ UNCHANGED publishes
    BY <1>16 DEF BreakTrackChannel, TrackTypeOK
  <2>2. routine' \in [Routines -> Routine]
    BY <1>16, AtTyped DEF BreakTrackChannel, Move, TrackTypeOK
  <2> QED  BY <1>16, <2>1, <2>2, RoutineTyped DEF BreakTrackChannel, TrackTypeOK
<1> QED
  BY <1>1, <1>2, <1>3, <1>4, <1>5, <1>6, <1>7, <1>8, <1>9, <1>10, <1>11, <1>12, <1>13,
     <1>14, <1>15, <1>16
  DEF TrackNext, TrackMainStep, TrackRoutineStep

-----------------------------------------------------------------------------
(* Tracking: OneRoutine. *)

\* Every routine is the same, alive or not, as before.
SameLife == \A r \in Routines :
  /\ routine'[r].talk = routine[r].talk
  /\ routine'[r].at = "unused" <=> routine[r].at = "unused"
  /\ routine'[r].at = "ended" <=> routine[r].at = "ended"

\* The fixed routine goes on, and still nobody can cancel it.
FixedGoesOn ==
  /\ ~routine'[Fixed].cancelled
  /\ routine'[Fixed].at \in {"starting", "setup", "consuming", "broken"}
  /\ \A t \in TrackedTalks : cancelOf'[t] # Fixed

LEMMA SameTracking ==
  ASSUME Tracking, SameLife, FixedGoesOn,
         UNCHANGED <<tracks, trackTalkMap, stoppedEvents>>
  PROVE  Tracking'
<1> USE Constants
<1>1. \A r \in Routines : Live(r)' <=> Live(r)
  BY DEF SameLife, Live
<1>2. \A t \in Exchanges : RoutinesOf(t)' = RoutinesOf(t)
  BY DEF SameLife, RoutinesOf
<1>3. FixedStays'
  BY DEF Tracking, FixedStays, FixedGoesOn, SameLife
<1>4. StartedInTurn'
  BY DEF Tracking, StartedInTurn, SameLife
<1>5. LivesInMap'
  <2>1. \A r \in Routines : \A q \in RoutinesOf(routine[r].talk)' : q \in RoutinesOf(routine[r].talk)
    BY DEF SameLife, RoutinesOf
  <2> QED  BY <1>1, <2>1 DEF Tracking, LivesInMap, SameLife
<1>6. EndsReported'
  BY <1>1 DEF Tracking, EndsReported, SameLife
<1> QED  BY <1>3, <1>4, <1>5, <1>6 DEF Tracking

LEMMA InitTracking == TrackInit => Tracking
<1> SUFFICES ASSUME TrackInit PROVE Tracking
  OBVIOUS
<1> USE Constants
<1>1. /\ routine[Fixed] = NewRoutine(Shared) /\ tracks = 1 /\ Fixed = 1
      /\ \A r \in Routines \ {Fixed} : routine[r].at = "unused"
  BY DEF TrackInit, Fixed, NewRoutine
<1>2. FixedStays
  BY <1>1 DEF TrackInit, FixedStays, NewRoutine
<1>3. StartedInTurn
  BY <1>1 DEF StartedInTurn, Routines
<1>4. LivesInMap
  <2>1. \A r \in Routines : Live(r) => r = Fixed
    BY <1>1 DEF Live
  <2>2. \A e \in Exchanges : RoutinesOf(e) \subseteq {Fixed}
    BY <1>1 DEF RoutinesOf
  <2>3. routine[Fixed].talk \in Exchanges /\ Fixed <= Fixed
    BY <1>1 DEF NewRoutine
  <2> QED  BY <2>1, <2>2, <2>3 DEF LivesInMap
<1>5. EndsReported
  <2>1. ToSet(<<>>) = {} /\ DOMAIN <<>> = {}
    BY DEF ToSet
  <2> QED  BY <2>1 DEF TrackInit, EndsReported
<1> QED  BY <1>2, <1>3, <1>4, <1>5 DEF Tracking

\* A channel without duplicates, when one is received and when one is sent.
LEMMA ReceivedOnce ==
  ASSUME NEW S, NEW s \in Seq(S), s # <<>>,
         \A i, j \in DOMAIN s : i # j => s[i] # s[j]
  PROVE  /\ Head(s) \notin ToSet(Tail(s))
         /\ \A i, j \in DOMAIN Tail(s) : i # j => Tail(s)[i] # Tail(s)[j]
<1>1. Len(s) \in Nat \ {0} /\ DOMAIN s = 1..Len(s) /\ Head(s) = s[1]
  OBVIOUS
<1>2. /\ DOMAIN Tail(s) = 1..(Len(s) - 1)
      /\ \A i \in 1..(Len(s) - 1) : Tail(s)[i] = s[i + 1]
  OBVIOUS
<1>3. \A i \in 1..(Len(s) - 1) : i + 1 \in DOMAIN s /\ i + 1 # 1
  BY <1>1
<1>4. 1 \in DOMAIN s
  BY <1>1
<1>5. Head(s) \notin ToSet(Tail(s))
  BY <1>1, <1>2, <1>3, <1>4 DEF ToSet
<1>6. ASSUME NEW i \in DOMAIN Tail(s), NEW j \in DOMAIN Tail(s), i # j
      PROVE  Tail(s)[i] # Tail(s)[j]
  <2>1. i + 1 \in DOMAIN s /\ j + 1 \in DOMAIN s /\ i + 1 # j + 1
    BY <1>2, <1>3, <1>6
  <2> QED  BY <1>2, <2>1
<1> QED  BY <1>5, <1>6

LEMMA SentOnce ==
  ASSUME NEW S, NEW s \in Seq(S), NEW e, e \notin ToSet(s),
         \A i, j \in DOMAIN s : i # j => s[i] # s[j]
  PROVE  LET u == Append(s, e) IN \A i, j \in DOMAIN u : i # j => u[i] # u[j]
<1>1. /\ DOMAIN Append(s, e) = 1..(Len(s) + 1) /\ DOMAIN s = 1..Len(s) /\ Len(s) \in Nat
      /\ \A i \in 1..Len(s) : Append(s, e)[i] = s[i]
      /\ Append(s, e)[Len(s) + 1] = e
  OBVIOUS
<1>2. \A i \in 1..Len(s) : s[i] # e
  BY <1>1 DEF ToSet
<1>3. \A i \in 1..(Len(s) + 1) : i \in 1..Len(s) \/ i = Len(s) + 1
  BY <1>1
<1> QED  BY <1>1, <1>2, <1>3

LEMMA StepTracking ==
  ASSUME TrackTypeOK, Tracking, [TrackNext]_trackVars
  PROVE  Tracking'
<1> USE Constants
<1>0. FixedStays
  BY DEF Tracking
<1>1. CASE UNCHANGED trackVars
  <2>1. SameLife /\ FixedGoesOn
    BY <1>0, <1>1 DEF trackVars, SameLife, FixedGoesOn, FixedStays
  <2> QED  BY <1>1, <2>1, SameTracking DEF trackVars
<1>2. ASSUME UNCHANGED <<stoppedEvents, trackTalkMap, cancelOf, routine, tracks>>
      PROVE  Tracking'
  <2>1. SameLife /\ FixedGoesOn
    BY <1>0, <1>2 DEF SameLife, FixedGoesOn, FixedStays
  <2> QED  BY <1>2, <2>1, SameTracking
<1>3. ASSUME NEW w \in Watchers, InstallWatcher(w) PROVE Tracking'
  BY <1>2, <1>3 DEF InstallWatcher, eventVars, mapVars
<1>4. ASSUME NEW w \in Watchers, UninstallWatcher(w) PROVE Tracking'
  BY <1>2, <1>4 DEF UninstallWatcher, eventVars, mapVars
<1>5. ASSUME NEW r \in Routines, SetUpFails(r) PROVE Tracking'
  BY <1>2, <1>5 DEF SetUpFails, eventVars, mapVars
\* One routine goes from one place to another, alive before and after.
<1>6. ASSUME NEW r \in Routines, NEW c,
             routine' = [routine EXCEPT ![r] = c],
             Live(r), c.talk = routine[r].talk, c.at \notin {"unused", "ended"},
             r = Fixed => ~c.cancelled
                          /\ c.at \in {"starting", "setup", "consuming", "broken"},
             UNCHANGED <<stoppedEvents, trackTalkMap, cancelOf, tracks>>
      PROVE  Tracking'
  <2>1. routine'[r] = c /\ \A q \in Routines \ {r} : routine'[q] = routine[q]
    BY <1>6 DEF TrackTypeOK
  <2>2. SameLife
    BY <1>6, <2>1 DEF SameLife, Live
  <2>3. FixedGoesOn
    BY <1>0, <1>6, <2>1 DEF FixedGoesOn, FixedStays
  <2> QED  BY <1>6, <2>2, <2>3, SameTracking
<1>7. ASSUME NEW r \in Routines, Announce(r) PROVE Tracking'
  <2> DEFINE c == [routine[r] EXCEPT !.at = "setup"]
  <2>1. routine' = [routine EXCEPT ![r] = c] /\ routine[r] \in Routine
    BY <1>7 DEF Announce, Move, TrackTypeOK
  <2>2. c.talk = routine[r].talk /\ c.at = "setup" /\ c.cancelled = routine[r].cancelled
    BY <2>1 DEF Routine
  <2>3. Live(r)
    BY <1>7 DEF Announce, Live
  <2> HIDE DEF c
  <2> QED  BY <1>0, <1>6, <1>7, <2>1, <2>2, <2>3 DEF Announce, mapVars, FixedStays
<1>8. ASSUME NEW r \in Routines, ContextDone(r) PROVE Tracking'
  <2> DEFINE c == [routine[r] EXCEPT !.at = "stopping", !.queue = <<>>,
                                     !.left = routine[r].at # "setup"]
  <2>1. routine' = [routine EXCEPT ![r] = c] /\ routine[r] \in Routine
    BY <1>8 DEF ContextDone, TrackTypeOK
  <2>2. c.talk = routine[r].talk /\ c.at = "stopping"
    BY <2>1 DEF Routine
  <2>3. Live(r) /\ r # Fixed
    BY <1>0, <1>8 DEF ContextDone, Live, FixedStays
  <2> HIDE DEF c
  <2> QED  BY <1>6, <1>8, <2>1, <2>2, <2>3 DEF ContextDone, mapVars, eventVars
<1>9. ASSUME NEW r \in Routines, SetUp(r) PROVE Tracking'
  <2> DEFINE c == [routine[r] EXCEPT !.at = "consuming", !.queue = <<>>]
  <2>1. routine' = [routine EXCEPT ![r] = c] /\ routine[r] \in Routine
    BY <1>9 DEF SetUp, TrackTypeOK
  <2>2. c.talk = routine[r].talk /\ c.at = "consuming" /\ c.cancelled = routine[r].cancelled
    BY <2>1 DEF Routine
  <2>3. Live(r)
    BY <1>9 DEF SetUp, Live
  <2> HIDE DEF c
  <2> QED  BY <1>0, <1>6, <1>9, <2>1, <2>2, <2>3 DEF SetUp, mapVars, eventVars, FixedStays
<1>10. ASSUME NEW r \in Routines, ChannelBroken(r) PROVE Tracking'
  <2> DEFINE c == [routine[r] EXCEPT !.at = "setup", !.queue = <<>>]
  <2>1. routine' = [routine EXCEPT ![r] = c] /\ routine[r] \in Routine
    BY <1>10 DEF ChannelBroken, TrackTypeOK
  <2>2. c.talk = routine[r].talk /\ c.at = "setup" /\ c.cancelled = routine[r].cancelled
    BY <2>1 DEF Routine
  <2>3. Live(r)
    BY <1>10 DEF ChannelBroken, Live
  <2> HIDE DEF c
  <2> QED  BY <1>0, <1>6, <1>10, <2>1, <2>2, <2>3
           DEF ChannelBroken, mapVars, eventVars, FixedStays
<1>11. ASSUME NEW r \in Routines, Deliver(r) PROVE Tracking'
  <2> DEFINE c == [routine[r] EXCEPT !.queue = Tail(@)]
  <2>1. routine' = [routine EXCEPT ![r] = c] /\ routine[r] \in Routine
    BY <1>11 DEF Deliver, TrackTypeOK
  <2>2. /\ c.talk = routine[r].talk /\ c.at = routine[r].at
        /\ c.cancelled = routine[r].cancelled
    BY <2>1 DEF Routine
  <2>3. Live(r) /\ routine[r].at \in {"consuming", "broken"}
    BY <1>11 DEF Deliver, Live
  <2> HIDE DEF c
  <2> QED  BY <1>0, <1>6, <1>11, <2>1, <2>2, <2>3 DEF Deliver, mapVars, eventVars, FixedStays
<1>12. ASSUME NEW r \in Routines, BreakTrackChannel(r) PROVE Tracking'
  <2> DEFINE c == [routine[r] EXCEPT !.at = "broken"]
  <2>1. routine' = [routine EXCEPT ![r] = c] /\ routine[r] \in Routine
    BY <1>12 DEF BreakTrackChannel, Move, TrackTypeOK
  <2>2. c.talk = routine[r].talk /\ c.at = "broken" /\ c.cancelled = routine[r].cancelled
    BY <2>1 DEF Routine
  <2>3. Live(r)
    BY <1>12 DEF BreakTrackChannel, Live
  <2> HIDE DEF c
  <2> QED  BY <1>0, <1>6, <1>12, <2>1, <2>2, <2>3
           DEF BreakTrackChannel, mapVars, eventVars, FixedStays
<1>13. ASSUME NEW exchange \in PublishedTo, Publish(exchange) PROVE Tracking'
  <2>1. ASSUME NEW r \in Routines
        PROVE  /\ routine'[r].talk = routine[r].talk /\ routine'[r].at = routine[r].at
               /\ routine'[r].cancelled = routine[r].cancelled
    <3>1. routine[r] \in Routine
      BY DEF TrackTypeOK
    <3>2. \/ routine'[r] = [routine[r] EXCEPT !.queue = Append(@, publishes + 1)]
          \/ routine'[r] = routine[r]
      BY <1>13 DEF Publish
    <3> QED  BY <3>1, <3>2 DEF Routine
  <2>2. UNCHANGED <<stoppedEvents, trackTalkMap, cancelOf, tracks>>
    BY <1>13 DEF Publish, eventVars, mapVars
  <2>3. SameLife /\ FixedGoesOn
    BY <1>0, <2>1, <2>2 DEF SameLife, FixedGoesOn, FixedStays
  <2> QED  BY <2>2, <2>3, SameTracking
<1>14. CASE StartRequest
  <2> DEFINE t == Head(startRequests)
             n == tracks + 1
  <2>1. t \in TrackedTalks
    BY <1>14, ReceiveTyped DEF StartRequest, TrackTypeOK
  <2>2. CASE t \in trackTalkMap
    BY <1>2, <1>14, <2>2 DEF StartRequest, mapVars, eventVars
  <2>3. CASE t \notin trackTalkMap
    <3>1. /\ tracks' = n /\ tracks < 1 + MaxTracks /\ trackTalkMap' = trackTalkMap \cup {t}
          /\ routine' = [routine EXCEPT ![n] = NewRoutine(t)]
          /\ UNCHANGED <<cancelOf, stoppedEvents>>
      BY <1>14, <2>3 DEF StartRequest, eventVars
    <3>2. tracks \in 1..(1 + MaxTracks) /\ n \in Routines \ {Fixed}
      BY <3>1 DEF TrackTypeOK, Routines, Fixed
    <3>3. /\ \A q \in Routines \ {n} : routine'[q] = routine[q]
          /\ routine'[n].talk = t /\ routine'[n].at = "starting"
      BY <3>1, <3>2 DEF TrackTypeOK, NewRoutine
    <3>4. FixedStays'
      BY <1>0, <3>1, <3>2, <3>3 DEF FixedStays
    <3>5. StartedInTurn'
      <4>1. ASSUME NEW q \in Routines \ {Fixed}, q # n
            PROVE  /\ q > n => routine'[q].at = "unused"
                   /\ q <= n => routine'[q].at # "unused" /\ routine'[q].talk \in TrackedTalks
        <5>1. (q > n => q > tracks) /\ (q <= n => q <= tracks)
          BY <3>2, <4>1
        <5> QED  BY <3>3, <4>1, <5>1 DEF Tracking, StartedInTurn
      <4>2. ~(n > n)
        BY <3>2
      <4> QED  BY <2>1, <3>1, <3>3, <4>1, <4>2 DEF StartedInTurn
    <3>6. LivesInMap'
      <4>1. ASSUME NEW e, NEW q \in RoutinesOf(e)' PROVE q <= n
        <5>1. q \in Routines /\ routine'[q].at # "unused"
          BY DEF RoutinesOf
        <5>2. q # Fixed => ~(q > n)
          BY <3>1, <3>5, <5>1 DEF StartedInTurn
        <5>3. q \in Nat /\ n \in Nat /\ 1 <= n
          BY <3>2, <5>1 DEF Routines
        <5>4. q = 1 => q <= n
          BY <5>3
        <5>5. ~(q > n) => q <= n
          BY <5>3
        <5> QED  BY <5>2, <5>4, <5>5 DEF Fixed
      <4>2. ASSUME NEW r \in Routines, r # n, Live(r)'
            PROVE  /\ r # Fixed => routine'[r].talk \in trackTalkMap'
                   /\ \A q \in RoutinesOf(routine[r].talk)' : q <= r
        <5>1. Live(r) /\ routine'[r].talk = routine[r].talk
          BY <3>3, <4>2 DEF Live
        <5>2. routine[r].talk # t
          BY <1>0, <2>1, <2>3, <5>1 DEF Tracking, LivesInMap, FixedStays
        <5>3. RoutinesOf(routine[r].talk)' \subseteq RoutinesOf(routine[r].talk)
          BY <3>3, <5>1, <5>2 DEF RoutinesOf
        <5> QED  BY <3>1, <5>1, <5>3 DEF Tracking, LivesInMap
      <4>3. \A r \in Routines : \A q \in RoutinesOf(routine[r].talk)' : q <= n
        BY <4>1 DEF RoutinesOf
      <4>4. n # Fixed /\ routine'[n].talk \in trackTalkMap'
        BY <3>1, <3>2, <3>3
      <4> HIDE DEF n
      <4>5. ASSUME NEW r \in Routines, Live(r)'
            PROVE  /\ r # Fixed => routine'[r].talk \in trackTalkMap'
                   /\ \A q \in RoutinesOf(routine[r].talk)' : q <= r
        <5>1. CASE r = n
          BY <4>3, <4>4, <5>1
        <5>2. CASE r # n
          BY <4>2, <4>5, <5>2
        <5> QED  BY <5>1, <5>2
      <4> QED  BY <4>5 DEF LivesInMap
    <3>7. EndsReported'
      <4>1. ToSet(stoppedEvents) \subseteq trackTalkMap'
        BY <3>1 DEF Tracking, EndsReported
      <4>2. ASSUME NEW r \in Routines, Live(r)' PROVE routine'[r].talk \notin ToSet(stoppedEvents)
        <5>1. CASE r = n
          BY <2>3, <3>3, <5>1 DEF Tracking, EndsReported
        <5>2. CASE r # n
          BY <3>3, <4>2, <5>2 DEF Tracking, EndsReported, Live
        <5> QED  BY <5>1, <5>2
      <4> QED  BY <3>1, <4>1, <4>2 DEF Tracking, EndsReported
    <3> QED  BY <3>4, <3>5, <3>6, <3>7 DEF Tracking
  <2> QED  BY <2>2, <2>3
\* A cancelled routine goes on until it looks.
<1>15. ASSUME NEW r \in Routines, r # Fixed, routine' = [routine EXCEPT ![r].cancelled = TRUE]
       PROVE  /\ SameLife
              /\ \A q \in Routines : routine'[q].at = routine[q].at
              /\ routine'[Fixed] = routine[Fixed]
  <2>1. routine[r] \in Routine
    BY DEF TrackTypeOK
  <2>2. \A q \in Routines : routine'[q].talk = routine[q].talk /\ routine'[q].at = routine[q].at
    BY <1>15, <2>1 DEF TrackTypeOK, Routine
  <2>3. routine'[Fixed] = routine[Fixed]
    BY <1>15 DEF TrackTypeOK
  <2> QED  BY <2>2, <2>3 DEF SameLife
<1>16. CASE StopRequest
  <2> DEFINE t == Head(stopRequests)
  <2>1. t \in TrackedTalks
    BY <1>16, ReceiveTyped DEF StopRequest, TrackTypeOK
  <2>2. UNCHANGED <<tracks, trackTalkMap, stoppedEvents, cancelOf>>
    BY <1>16 DEF StopRequest, mapVars, eventVars
  <2>3. CASE UNCHANGED routine
    BY <1>2, <2>2, <2>3
  <2>4. CASE cancelOf[t] # 0 /\ routine' = [routine EXCEPT ![cancelOf[t]].cancelled = TRUE]
    <3>1. cancelOf[t] \in Routines /\ cancelOf[t] # Fixed
      BY <1>0, <2>1, <2>4 DEF TrackTypeOK, FixedStays
    <3>2. SameLife /\ FixedGoesOn
      BY <1>0, <1>15, <2>2, <2>4, <3>1 DEF FixedGoesOn, FixedStays
    <3> QED  BY <2>2, <3>2, SameTracking
  <2> QED  BY <1>16, <2>3, <2>4 DEF StopRequest
<1>17. CASE StartedEvent
  <2> DEFINE r == Head(startedEvents)
  <2>1. r \in Routines
    BY <1>17, ReceiveTyped DEF StartedEvent, TrackTypeOK
  <2>2. UNCHANGED <<tracks, trackTalkMap, stoppedEvents, routine>>
    BY <1>17 DEF StartedEvent
  <2>3. cancelOf' = IF routine[r].talk \in trackTalkMap
                    THEN [cancelOf EXCEPT ![routine[r].talk] = r] ELSE cancelOf
    BY <1>17 DEF StartedEvent
  <2>4. routine[r].talk \in trackTalkMap => r # Fixed
    BY <1>0 DEF FixedStays, TrackTypeOK
  <2>5. SameLife
    BY <2>2 DEF SameLife
  <2>6. FixedGoesOn
    BY <1>0, <2>2, <2>3, <2>4 DEF FixedGoesOn, FixedStays, TrackTypeOK
  <2> QED  BY <2>2, <2>5, <2>6, SameTracking
<1>18. CASE StoppedEvent
  <2> DEFINE t == Head(stoppedEvents)
  <2>1. /\ stoppedEvents \in Seq(TrackedTalks) /\ stoppedEvents # <<>>
        /\ stoppedEvents' = Tail(stoppedEvents)
    BY <1>18 DEF StoppedEvent, TrackTypeOK
  <2>2. t \in TrackedTalks /\ t \in ToSet(stoppedEvents)
    BY <2>1, HeadTailToSet
  <2>3. /\ trackTalkMap' = trackTalkMap \ {t} /\ cancelOf' = [cancelOf EXCEPT ![t] = 0]
        /\ UNCHANGED tracks
    BY <1>18 DEF StoppedEvent
  <2>4. SameLife /\ routine'[Fixed] = routine[Fixed]
    <3>1. CASE UNCHANGED routine
      BY <3>1 DEF SameLife
    <3>2. CASE cancelOf[t] # 0 /\ routine' = [routine EXCEPT ![cancelOf[t]].cancelled = TRUE]
      <4>1. cancelOf[t] \in Routines /\ cancelOf[t] # Fixed
        BY <1>0, <2>2, <3>2 DEF TrackTypeOK, FixedStays
      <4> QED  BY <1>15, <3>2, <4>1
    <3> QED  BY <1>18, <3>1, <3>2 DEF StoppedEvent
  <2>5. \A q \in Routines : Live(q)' <=> Live(q)
    BY <2>4 DEF SameLife, Live
  <2>6. FixedStays'
    <3>1. \A u \in TrackedTalks : cancelOf'[u] \in {0, cancelOf[u]}
      BY <2>3 DEF TrackTypeOK
    <3> QED  BY <1>0, <2>4, <3>1 DEF FixedStays
  <2>7. StartedInTurn'
    BY <2>3, <2>4 DEF Tracking, StartedInTurn, SameLife
  <2>8. \A q \in Routines : Live(q) => routine[q].talk # t
    BY <2>2 DEF Tracking, EndsReported
  <2>9. LivesInMap'
    <3>1. \A r \in Routines : RoutinesOf(routine[r].talk)' \subseteq RoutinesOf(routine[r].talk)
      BY <2>4 DEF SameLife, RoutinesOf
    <3>2. \A r \in Routines : routine'[r].talk = routine[r].talk
      BY <2>4 DEF SameLife
    <3> QED  BY <2>3, <2>5, <2>8, <3>1, <3>2 DEF Tracking, LivesInMap
  <2>10. EndsReported'
    <3>1. /\ t \notin ToSet(Tail(stoppedEvents))
          /\ LET u == Tail(stoppedEvents) IN \A i, j \in DOMAIN u : i # j => u[i] # u[j]
      BY <2>1, ReceivedOnce DEF Tracking, EndsReported
    <3>2. ToSet(Tail(stoppedEvents)) \subseteq ToSet(stoppedEvents)
      BY <2>1, HeadTailToSet
    <3>3. \A r \in Routines : routine'[r].talk = routine[r].talk
      BY <2>4 DEF SameLife
    <3> QED  BY <2>1, <2>3, <2>5, <3>1, <3>2, <3>3 DEF Tracking, EndsReported
  <2> QED  BY <2>6, <2>7, <2>9, <2>10 DEF Tracking
<1>19. ASSUME NEW r \in Routines, ReportStopped(r) PROVE Tracking'
  <2> DEFINE t == routine[r].talk
  <2>1. r # Fixed /\ Live(r) /\ routine[r].at = "stopping"
    BY <1>0, <1>19 DEF ReportStopped, FixedStays, Live
  <2>2. /\ t \in TrackedTalks /\ t \in trackTalkMap /\ r \in RoutinesOf(t)
    BY <2>1, LiveOfTalk DEF RoutinesOf
  <2>3. UNCHANGED <<tracks, trackTalkMap, cancelOf>>
    BY <1>19 DEF ReportStopped, mapVars
  <2>4. /\ \A q \in Routines \ {r} : routine'[q] = routine[q]
        /\ routine'[r].talk = t /\ routine'[r].at = "ended"
    BY <1>19 DEF ReportStopped, Move, TrackTypeOK, Routine
  <2>5. FixedStays'
    BY <1>0, <2>1, <2>3, <2>4 DEF FixedStays
  <2>6. StartedInTurn'
    BY <2>1, <2>3, <2>4 DEF Tracking, StartedInTurn
  <2>7. \A q \in Routines : Live(q)' => Live(q) /\ q # r
    BY <2>4 DEF Live
  <2>8. LivesInMap'
    <3>1. \A q \in Routines : RoutinesOf(routine[q].talk)' \subseteq RoutinesOf(routine[q].talk)
      BY <2>1, <2>4 DEF RoutinesOf
    <3>2. \A q \in Routines : routine'[q].talk = routine[q].talk
      BY <2>4
    <3> QED  BY <2>3, <2>7, <3>1, <3>2 DEF Tracking, LivesInMap
  <2>9. ASSUME NEW q \in Routines, Live(q)' PROVE routine[q].talk # t
    <3>1. SUFFICES ASSUME routine[q].talk = t PROVE FALSE
      OBVIOUS
    <3>2. Live(q) /\ q # r
      BY <2>7, <2>9
    <3>3. q \in RoutinesOf(t) /\ r \in RoutinesOf(routine[q].talk)
      BY <2>2, <3>1, <3>2 DEF RoutinesOf, Live
    <3>4. q <= r /\ r <= q
      BY <2>1, <3>2, <3>3 DEF Tracking, LivesInMap
    <3> QED  BY <3>2, <3>4
  <2>10. EndsReported'
    <3>1. \A q \in Routines : routine'[q].talk = routine[q].talk
      BY <2>4
    <3>2. CASE UNCHANGED stoppedEvents
      BY <2>3, <2>7, <3>1, <3>2 DEF Tracking, EndsReported
    <3>3. CASE stoppedEvents' = Append(stoppedEvents, t)
      <4>1. stoppedEvents \in Seq(TrackedTalks) /\ t \notin ToSet(stoppedEvents)
        BY <2>1 DEF TrackTypeOK, Tracking, EndsReported
      <4>2. ToSet(Append(stoppedEvents, t)) = ToSet(stoppedEvents) \cup {t}
        BY <4>1, AppendToSet
      <4>3. LET u == Append(stoppedEvents, t) IN \A i, j \in DOMAIN u : i # j => u[i] # u[j]
        BY <4>1, SentOnce DEF Tracking, EndsReported
      <4> QED  BY <2>2, <2>3, <2>7, <2>9, <3>1, <3>3, <4>2, <4>3 DEF Tracking, EndsReported
    <3> QED  BY <1>19, <3>2, <3>3 DEF ReportStopped
  <2> QED  BY <2>5, <2>6, <2>8, <2>10 DEF Tracking
<1> QED
  BY <1>1, <1>3, <1>4, <1>5, <1>7, <1>8, <1>9, <1>10, <1>11, <1>12, <1>13, <1>14, <1>16,
     <1>17, <1>18, <1>19
  DEF TrackNext, TrackMainStep, TrackRoutineStep

\* For any number of streams, talks, tracks and failures: every variable keeps its
\* type, and none of the four channels holds more than its capacity.
THEOREM TrackTyped == TrackSpec => []TrackTypeOK
<1>1. TrackTypeOK /\ Tracking /\ [TrackNext]_trackVars => (TrackTypeOK /\ Tracking)'
  BY TrackStepTyped, StepTracking
<1> QED  BY TrackInitTyped, InitTracking, <1>1, PTL DEF TrackSpec

LEMMA TrackingIsOneRoutine == TrackTypeOK /\ Tracking => OneRoutine
<1> SUFFICES ASSUME TrackTypeOK, Tracking, NEW r \in Routines, NEW q \in Routines,
                    Live(r), Live(q), routine[r].talk = routine[q].talk
             PROVE  r = q
  BY DEF OneRoutine
<1>1. r \in RoutinesOf(routine[q].talk) /\ q \in RoutinesOf(routine[r].talk)
  BY DEF RoutinesOf, Live
<1>2. r <= q /\ q <= r
  BY <1>1 DEF Tracking, LivesInMap
<1> QED  BY <1>2, Constants

\* However starts, stops, cancellations and reports interleave, and however many of
\* them are lost, no talk is ever consumed by two routines.
THEOREM OneRoutineInvariant == TrackSpec => []OneRoutine
<1>1. TrackTypeOK /\ Tracking /\ [TrackNext]_trackVars => (TrackTypeOK /\ Tracking)'
  BY TrackStepTyped, StepTracking
<1> QED  BY TrackInitTyped, InitTracking, <1>1, TrackingIsOneRoutine, PTL DEF TrackSpec

-----------------------------------------------------------------------------
(* EntryExplained. *)

\* What any step does to a routine: it never goes back, it ends only when it has
\* been cancelled, and only the main routine cancels it, by an entry.
Onward == \A r \in Routines :
  /\ routine'[r].at \in {"unused", "starting"} => routine[r].at \in {"unused", "starting"}
  /\ routine'[r].at \in {"stopping", "ended"} =>
       routine[r].cancelled \/ routine[r].at \in {"stopping", "ended"}
  /\ routine'[r].cancelled =>
       routine[r].cancelled \/ \E t \in TrackedTalks : cancelOf[t] = r
  /\ routine[r].at # "unused" =>
       routine'[r].at # "unused" /\ routine'[r].talk = routine[r].talk
  /\ routine[r].at = "ended" => routine'[r].at = "ended"

LEMMA StepOnward ==
  ASSUME TrackTypeOK, Tracking, [TrackNext]_trackVars
  PROVE  Onward
<1> USE Constants
<1>1. ASSUME UNCHANGED routine PROVE Onward
  BY <1>1 DEF Onward
<1>2. ASSUME NEW r \in Routines, NEW c, routine' = [routine EXCEPT ![r] = c],
             Live(r), c.talk = routine[r].talk, c.cancelled = routine[r].cancelled,
             c.at \notin {"unused", "starting"},
             c.at \in {"stopping", "ended"} =>
               routine[r].cancelled \/ routine[r].at = "stopping"
      PROVE  Onward
  <2>1. routine'[r] = c /\ \A q \in Routines \ {r} : routine'[q] = routine[q]
    BY <1>2 DEF TrackTypeOK
  <2> QED  BY <1>2, <2>1 DEF Onward, Live
<1>3. ASSUME NEW t \in TrackedTalks, cancelOf[t] # 0,
             routine' = [routine EXCEPT ![cancelOf[t]].cancelled = TRUE]
      PROVE  Onward
  <2>1. cancelOf[t] \in Routines
    BY <1>3 DEF TrackTypeOK
  <2>2. \A q \in Routines \ {cancelOf[t]} : routine'[q] = routine[q]
    BY <1>3 DEF TrackTypeOK
  <2>3. LET r == cancelOf[t] IN
        routine'[r].at = routine[r].at /\ routine'[r].talk = routine[r].talk
    BY <1>3, <2>1 DEF TrackTypeOK, Routine
  <2> QED  BY <2>1, <2>2, <2>3 DEF Onward
<1>4. ASSUME NEW r \in Routines, Announce(r) PROVE Onward
  <2> DEFINE c == [routine[r] EXCEPT !.at = "setup"]
  <2>1. routine' = [routine EXCEPT ![r] = c] /\ routine[r] \in Routine /\ Live(r)
    BY <1>4 DEF Announce, Move, Live, TrackTypeOK
  <2>2. c.talk = routine[r].talk /\ c.at = "setup" /\ c.cancelled = routine[r].cancelled
    BY <2>1 DEF Routine
  <2> HIDE DEF c
  <2> QED  BY <1>2, <2>1, <2>2
<1>5. ASSUME NEW r \in Routines, ContextDone(r) PROVE Onward
  <2> DEFINE c == [routine[r] EXCEPT !.at = "stopping", !.queue = <<>>,
                                     !.left = routine[r].at # "setup"]
  <2>1. /\ routine' = [routine EXCEPT ![r] = c] /\ routine[r] \in Routine /\ Live(r)
        /\ routine[r].cancelled
    BY <1>5 DEF ContextDone, Live, TrackTypeOK
  <2>2. c.talk = routine[r].talk /\ c.at = "stopping" /\ c.cancelled = routine[r].cancelled
    BY <2>1 DEF Routine
  <2> HIDE DEF c
  <2> QED  BY <1>2, <2>1, <2>2
<1>6. ASSUME NEW r \in Routines, SetUp(r) PROVE Onward
  <2> DEFINE c == [routine[r] EXCEPT !.at = "consuming", !.queue = <<>>]
  <2>1. routine' = [routine EXCEPT ![r] = c] /\ routine[r] \in Routine /\ Live(r)
    BY <1>6 DEF SetUp, Live, TrackTypeOK
  <2>2. c.talk = routine[r].talk /\ c.at = "consuming" /\ c.cancelled = routine[r].cancelled
    BY <2>1 DEF Routine
  <2> HIDE DEF c
  <2> QED  BY <1>2, <2>1, <2>2
<1>7. ASSUME NEW r \in Routines, SetUpFails(r) PROVE Onward
  BY <1>1, <1>7 DEF SetUpFails
<1>8. ASSUME NEW r \in Routines, ChannelBroken(r) PROVE Onward
  <2> DEFINE c == [routine[r] EXCEPT !.at = "setup", !.queue = <<>>]
  <2>1. routine' = [routine EXCEPT ![r] = c] /\ routine[r] \in Routine /\ Live(r)
    BY <1>8 DEF ChannelBroken, Live, TrackTypeOK
  <2>2. c.talk = routine[r].talk /\ c.at = "setup" /\ c.cancelled = routine[r].cancelled
    BY <2>1 DEF Routine
  <2> HIDE DEF c
  <2> QED  BY <1>2, <2>1, <2>2
<1>9. ASSUME NEW r \in Routines, Deliver(r) PROVE Onward
  <2> DEFINE c == [routine[r] EXCEPT !.queue = Tail(@)]
  <2>1. /\ routine' = [routine EXCEPT ![r] = c] /\ routine[r] \in Routine /\ Live(r)
        /\ routine[r].at \in {"consuming", "broken"}
    BY <1>9 DEF Deliver, Live, TrackTypeOK
  <2>2. /\ c.talk = routine[r].talk /\ c.at = routine[r].at
        /\ c.cancelled = routine[r].cancelled
    BY <2>1 DEF Routine
  <2> HIDE DEF c
  <2> QED  BY <1>2, <2>1, <2>2
<1>10. ASSUME NEW r \in Routines, ReportStopped(r) PROVE Onward
  <2> DEFINE c == [routine[r] EXCEPT !.at = "ended"]
  <2>1. /\ routine' = [routine EXCEPT ![r] = c] /\ routine[r] \in Routine /\ Live(r)
        /\ routine[r].at = "stopping"
    BY <1>10 DEF ReportStopped, Move, Live, TrackTypeOK
  <2>2. c.talk = routine[r].talk /\ c.at = "ended" /\ c.cancelled = routine[r].cancelled
    BY <2>1 DEF Routine
  <2> HIDE DEF c
  <2> QED  BY <1>2, <2>1, <2>2
<1>11. ASSUME NEW r \in Routines, BreakTrackChannel(r) PROVE Onward
  <2> DEFINE c == [routine[r] EXCEPT !.at = "broken"]
  <2>1. routine' = [routine EXCEPT ![r] = c] /\ routine[r] \in Routine /\ Live(r)
    BY <1>11 DEF BreakTrackChannel, Move, Live, TrackTypeOK
  <2>2. c.talk = routine[r].talk /\ c.at = "broken" /\ c.cancelled = routine[r].cancelled
    BY <2>1 DEF Routine
  <2> HIDE DEF c
  <2> QED  BY <1>2, <2>1, <2>2
<1>12. ASSUME NEW exchange \in PublishedTo, Publish(exchange) PROVE Onward
  <2>1. ASSUME NEW r \in Routines
        PROVE  /\ routine'[r].talk = routine[r].talk /\ routine'[r].at = routine[r].at
               /\ routine'[r].cancelled = routine[r].cancelled
    <3>1. routine[r] \in Routine
      BY DEF TrackTypeOK
    <3>2. \/ routine'[r] = [routine[r] EXCEPT !.queue = Append(@, publishes + 1)]
          \/ routine'[r] = routine[r]
      BY <1>12 DEF Publish
    <3> QED  BY <3>1, <3>2 DEF Routine
  <2> QED  BY <2>1 DEF Onward
<1>13. CASE StartRequest
  <2>1. CASE UNCHANGED routine
    BY <1>1, <2>1
  <2>2. CASE /\ tracks < 1 + MaxTracks
             /\ routine' = [routine EXCEPT ![tracks + 1] = NewRoutine(Head(startRequests))]
    <3>1. tracks + 1 \in Routines \ {Fixed} /\ tracks + 1 > tracks
      BY <2>2 DEF TrackTypeOK, Routines, Fixed
    <3>2. routine[tracks + 1].at = "unused"
      BY <3>1 DEF Tracking, StartedInTurn
    <3>3. \A q \in Routines \ {tracks + 1} : routine'[q] = routine[q]
      BY <2>2 DEF TrackTypeOK
    <3>4. routine'[tracks + 1].at = "starting" /\ ~routine'[tracks + 1].cancelled
      BY <2>2, <3>1 DEF TrackTypeOK, NewRoutine
    <3> QED  BY <3>2, <3>3, <3>4 DEF Onward
  <2> QED  BY <1>13, <2>1, <2>2 DEF StartRequest
<1>14. CASE StopRequest
  <2>1. Head(stopRequests) \in TrackedTalks
    BY <1>14, ReceiveTyped DEF StopRequest, TrackTypeOK
  <2> QED  BY <1>1, <1>3, <1>14, <2>1 DEF StopRequest
<1>15. CASE StoppedEvent
  <2>1. Head(stoppedEvents) \in TrackedTalks
    BY <1>15, ReceiveTyped DEF StoppedEvent, TrackTypeOK
  <2> QED  BY <1>1, <1>3, <1>15, <2>1 DEF StoppedEvent
<1>16. CASE StartedEvent
  BY <1>1, <1>16 DEF StartedEvent
<1>17. CASE UNCHANGED trackVars
  BY <1>1, <1>17 DEF trackVars
<1>18. ASSUME NEW w \in Watchers, InstallWatcher(w) \/ UninstallWatcher(w) PROVE Onward
  BY <1>1, <1>18 DEF InstallWatcher, UninstallWatcher
<1> QED
  BY <1>4, <1>5, <1>6, <1>7, <1>8, <1>9, <1>10, <1>11, <1>12, <1>13, <1>14, <1>15, <1>16,
     <1>17, <1>18
  DEF TrackNext, TrackMainStep, TrackRoutineStep

LEMMA InitBegins == TrackInit => BeginsReported
<1> SUFFICES ASSUME TrackInit PROVE BeginsReported
  OBVIOUS
<1>1. startedEvents = <<>> /\ ToSet(startedEvents) = {} /\ DOMAIN startedEvents = {}
  BY DEF TrackInit, ToSet
<1>2. \A r \in Routines : ~routine[r].cancelled /\ routine[r].at \in {"unused", "starting"}
  BY DEF TrackInit, NewRoutine
<1>3. \A r \in Routines, t \in TrackedTalks : cancelOf[t] # r
  BY Constants DEF TrackInit
<1> QED  BY <1>1, <1>2, <1>3 DEF BeginsReported

\* As long as no event is sent or taken and no entry gets a cancel function.
LEMMA SameBegins ==
  ASSUME BeginsReported, Onward, UNCHANGED startedEvents,
         \A t \in TrackedTalks : cancelOf'[t] \in {0, cancelOf[t]},
         ToSet(startedEvents) \subseteq Routines
  PROVE  BeginsReported'
<1> USE Constants
<1>1. ASSUME NEW r \in ToSet(startedEvents)
      PROVE  Live(r)' /\ routine'[r].at # "starting"
  <2>1. /\ r \in Routines /\ routine[r].at \notin {"unused", "starting", "stopping", "ended"}
        /\ ~routine[r].cancelled
    BY DEF BeginsReported, Live
  <2> QED  BY <2>1 DEF Onward, Live
<1>2. ASSUME NEW r \in Routines,
             r \in ToSet(startedEvents) \/ routine'[r].at \in {"unused", "starting"}
      PROVE  /\ ~routine'[r].cancelled /\ routine'[r].at \notin {"stopping", "ended"}
             /\ \A t \in TrackedTalks : cancelOf'[t] # r
  <2>1. r \in ToSet(startedEvents) \/ routine[r].at \in {"unused", "starting"}
    BY <1>2 DEF Onward
  <2>2. /\ ~routine[r].cancelled /\ routine[r].at \notin {"stopping", "ended"}
        /\ \A t \in TrackedTalks : cancelOf[t] # r
    BY <2>1 DEF BeginsReported
  <2> QED  BY <2>2 DEF Onward
<1> QED  BY <1>1, <1>2 DEF BeginsReported

LEMMA StepBegins ==
  ASSUME TrackTypeOK, Tracking, BeginsReported, [TrackNext]_trackVars
  PROVE  BeginsReported'
<1> USE Constants
<1>1. Onward
  BY StepOnward
<1>2. startedEvents \in Seq(Routines) /\ ToSet(startedEvents) \subseteq Routines
  BY DEF TrackTypeOK, ToSet
<1>3. ASSUME UNCHANGED <<startedEvents, cancelOf>> PROVE BeginsReported'
  BY <1>1, <1>2, <1>3, SameBegins
<1>4. CASE UNCHANGED trackVars
  BY <1>3, <1>4 DEF trackVars
<1>5. ASSUME NEW w \in Watchers, InstallWatcher(w) \/ UninstallWatcher(w) PROVE BeginsReported'
  BY <1>3, <1>5 DEF InstallWatcher, UninstallWatcher, eventVars, mapVars
<1>6. CASE StartRequest
  BY <1>3, <1>6 DEF StartRequest, eventVars, mapVars
<1>7. CASE StopRequest
  BY <1>3, <1>7 DEF StopRequest, eventVars, mapVars
<1>8. CASE StoppedEvent
  <2>1. Head(stoppedEvents) \in TrackedTalks
    BY <1>8, ReceiveTyped DEF StoppedEvent, TrackTypeOK
  <2>2. \A t \in TrackedTalks : cancelOf'[t] \in {0, cancelOf[t]}
    BY <1>8, <2>1 DEF StoppedEvent, TrackTypeOK
  <2> QED  BY <1>1, <1>2, <1>8, <2>2, SameBegins DEF StoppedEvent
<1>9. CASE StartedEvent
  <2> DEFINE r == Head(startedEvents)
  <2>1. /\ startedEvents # <<>> /\ startedEvents' = Tail(startedEvents) /\ UNCHANGED routine
        /\ \A t \in TrackedTalks : cancelOf'[t] \in {r, cancelOf[t]}
    BY <1>9 DEF StartedEvent, TrackTypeOK
  <2>2. /\ r \in ToSet(startedEvents) /\ r \notin ToSet(Tail(startedEvents))
        /\ ToSet(Tail(startedEvents)) \subseteq ToSet(startedEvents)
        /\ LET u == Tail(startedEvents) IN \A i, j \in DOMAIN u : i # j => u[i] # u[j]
    BY <1>2, <2>1, HeadTailToSet, ReceivedOnce DEF BeginsReported
  <2>3. routine[r].at \notin {"unused", "starting"}
    BY <2>2 DEF BeginsReported, Live
  <2>4. ASSUME NEW q \in Routines,
               q \in ToSet(Tail(startedEvents)) \/ routine[q].at \in {"unused", "starting"}
        PROVE  /\ ~routine[q].cancelled /\ routine[q].at \notin {"stopping", "ended"}
               /\ \A t \in TrackedTalks : cancelOf'[t] # q
    <3>1. q # r
      BY <2>2, <2>3, <2>4
    <3> QED  BY <2>1, <2>2, <2>4, <3>1 DEF BeginsReported
  <2>5. \A q \in ToSet(Tail(startedEvents)) : Live(q) /\ routine[q].at # "starting"
    BY <2>2 DEF BeginsReported
  <2> HIDE DEF r
  <2> QED  BY <2>1, <2>2, <2>4, <2>5 DEF BeginsReported, Live
<1>10. ASSUME NEW r \in Routines, Announce(r) PROVE BeginsReported'
  <2>1. /\ routine[r].at = "starting" /\ UNCHANGED cancelOf
        /\ startedEvents' \in {startedEvents, Append(startedEvents, r)}
    BY <1>10 DEF Announce, mapVars
  <2>2. /\ r \notin ToSet(startedEvents) /\ ~routine[r].cancelled
        /\ \A t \in TrackedTalks : cancelOf[t] # r
    BY <2>1 DEF BeginsReported
  <2>3. /\ \A q \in Routines \ {r} : routine'[q] = routine[q]
        /\ routine'[r].at = "setup" /\ ~routine'[r].cancelled
    <3>1. routine[r] \in Routine
      BY DEF TrackTypeOK
    <3>2. routine' = [routine EXCEPT ![r].at = "setup"]
      BY <1>10 DEF Announce, Move
    <3> QED  BY <2>2, <3>1, <3>2 DEF TrackTypeOK, Routine
  <2>4. /\ ToSet(startedEvents') \subseteq ToSet(startedEvents) \cup {r}
        /\ \A i, j \in DOMAIN startedEvents' : i # j => startedEvents'[i] # startedEvents'[j]
    <3>1. \A i, j \in DOMAIN startedEvents : i # j => startedEvents[i] # startedEvents[j]
      BY DEF BeginsReported
    <3>2. CASE startedEvents' = startedEvents
      BY <3>1, <3>2
    <3>3. CASE startedEvents' = Append(startedEvents, r)
      <4>1. ToSet(Append(startedEvents, r)) = ToSet(startedEvents) \cup {r}
        BY <1>2, AppendToSet
      <4>2. LET u == Append(startedEvents, r) IN \A i, j \in DOMAIN u : i # j => u[i] # u[j]
        BY <1>2, <2>2, <3>1, SentOnce
      <4> QED  BY <3>3, <4>1, <4>2
    <3> QED  BY <2>1, <3>2, <3>3
  <2>5. ASSUME NEW q \in ToSet(startedEvents)' PROVE Live(q)' /\ routine'[q].at # "starting"
    <3>1. CASE q = r
      BY <2>3, <3>1 DEF Live
    <3>2. CASE q # r
      <4>1. q \in ToSet(startedEvents) /\ q \in Routines
        BY <1>2, <2>4, <2>5, <3>2
      <4> QED  BY <2>3, <3>2, <4>1 DEF BeginsReported, Live
    <3> QED  BY <3>1, <3>2
  <2>6. ASSUME NEW q \in Routines,
               q \in ToSet(startedEvents)' \/ routine'[q].at \in {"unused", "starting"}
        PROVE  /\ ~routine'[q].cancelled /\ routine'[q].at \notin {"stopping", "ended"}
               /\ \A t \in TrackedTalks : cancelOf'[t] # q
    <3>1. CASE q = r
      BY <2>1, <2>2, <2>3, <3>1
    <3>2. CASE q # r
      BY <2>1, <2>3, <2>4, <2>6, <3>2 DEF BeginsReported
    <3> QED  BY <3>1, <3>2
  <2> QED  BY <2>4, <2>5, <2>6 DEF BeginsReported
<1>11. ASSUME NEW r \in Routines,
              \/ ContextDone(r) \/ SetUp(r) \/ SetUpFails(r) \/ ChannelBroken(r) \/ Deliver(r)
              \/ ReportStopped(r) \/ BreakTrackChannel(r)
       PROVE  BeginsReported'
  BY <1>3, <1>11
  DEF ContextDone, SetUp, SetUpFails, ChannelBroken, Deliver, ReportStopped,
      BreakTrackChannel, eventVars, mapVars
<1>12. ASSUME NEW exchange \in PublishedTo, Publish(exchange) PROVE BeginsReported'
  BY <1>3, <1>12 DEF Publish, eventVars, mapVars
<1> QED
  BY <1>4, <1>5, <1>6, <1>7, <1>8, <1>9, <1>10, <1>11, <1>12
  DEF TrackNext, TrackMainStep, TrackRoutineStep

\* EntryExplained, in parts.
HasReason == \A t \in trackTalkMap :
  \/ \E r \in RoutinesOf(t) : Live(r)
  \/ t \in ToSet(stoppedEvents) \/ <<"stoppedLost", t>> \in mishaps

CancelOfLast == \A t \in TrackedTalks : cancelOf[t] # 0 =>
  /\ t \in trackTalkMap
  /\ cancelOf[t] \in RoutinesOf(t) /\ \A r \in RoutinesOf(t) : r <= cancelOf[t]

LEMMA PartsExplain ==
  ASSUME TrackTypeOK, Tracking
  PROVE  EntryExplained <=> HasReason /\ CancelOfLast
<1>1. ASSUME NEW t \in TrackedTalks, NEW r \in RoutinesOf(t), Live(r)
      PROVE  t \in trackTalkMap
  <2>1. r \in Routines /\ routine[r].talk = t
    BY DEF RoutinesOf
  <2>2. r # Fixed
    BY <2>1, Constants DEF Tracking, FixedStays
  <2> QED  BY <1>1, <2>1, <2>2 DEF Tracking, LivesInMap
<1>2. trackTalkMap \subseteq TrackedTalks
  BY DEF TrackTypeOK
<1> QED  BY <1>1, <1>2 DEF EntryExplained, HasReason, CancelOfLast

\* While no routine is started, a talk has the routines it had.
LEMMA SameRoutines ==
  ASSUME TrackTypeOK, Tracking, Tracking', Onward, UNCHANGED tracks
  PROVE  \A t : RoutinesOf(t)' = RoutinesOf(t)
<1>1. ASSUME NEW r \in Routines
      PROVE  /\ routine'[r].at = "unused" <=> routine[r].at = "unused"
             /\ routine[r].at # "unused" => routine'[r].talk = routine[r].talk
  <2>1. CASE r = Fixed
    BY <2>1 DEF Tracking, FixedStays
  <2>2. CASE r # Fixed
    <3>1. r > tracks \/ r <= tracks
      BY Constants DEF TrackTypeOK
    <3> QED  BY <2>2, <3>1 DEF Tracking, StartedInTurn, Onward
  <2> QED  BY <2>1, <2>2 DEF Onward
<1> QED  BY <1>1 DEF RoutinesOf

\* As long as the main routine does not touch an entry, and no routine ends.
LEMMA SameEntries ==
  ASSUME TrackTypeOK, Tracking, Tracking', Onward, HasReason, CancelOfLast,
         UNCHANGED <<tracks, stoppedEvents, mapVars>>, mishaps \subseteq mishaps',
         \A r \in Routines : Live(r) => routine'[r].at # "ended"
  PROVE  HasReason' /\ CancelOfLast'
<1>1. \A t : RoutinesOf(t)' = RoutinesOf(t)
  BY SameRoutines
<1>2. \A t : \A r \in RoutinesOf(t) : Live(r) => Live(r)'
  BY DEF RoutinesOf, Onward, Live
<1>3. HasReason'
  BY <1>1, <1>2 DEF HasReason, mapVars
<1>4. CancelOfLast'
  BY <1>1 DEF CancelOfLast, mapVars
<1> QED  BY <1>3, <1>4

LEMMA InitEntries == TrackInit => HasReason /\ CancelOfLast
BY DEF TrackInit, HasReason, CancelOfLast

LEMMA StepEntries ==
  ASSUME TrackTypeOK, Tracking, Tracking', BeginsReported, HasReason, CancelOfLast,
         [TrackNext]_trackVars
  PROVE  HasReason' /\ CancelOfLast'
<1> USE Constants
<1>1. Onward
  BY StepOnward
<1>2. \A t : \A r \in RoutinesOf(t) : r \in RoutinesOf(t)'
  BY <1>1 DEF RoutinesOf, Onward
<1>3. ASSUME UNCHANGED <<tracks, stoppedEvents, mapVars>>, mishaps \subseteq mishaps',
             \A r \in Routines : Live(r) => routine'[r].at # "ended"
      PROVE  HasReason' /\ CancelOfLast'
  BY <1>1, <1>3, SameEntries
<1>4. ASSUME UNCHANGED <<tracks, stoppedEvents, mapVars, routine>>, mishaps \subseteq mishaps'
      PROVE  HasReason' /\ CancelOfLast'
  BY <1>3, <1>4 DEF Live
<1>5. CASE UNCHANGED trackVars
  BY <1>4, <1>5 DEF trackVars, mapVars
<1>6. ASSUME NEW w \in Watchers, InstallWatcher(w) \/ UninstallWatcher(w)
      PROVE  HasReason' /\ CancelOfLast'
  BY <1>4, <1>6 DEF InstallWatcher, UninstallWatcher, eventVars, Note
<1>7. CASE StartRequest
  <2> DEFINE t == Head(startRequests)
             n == tracks + 1
  <2>1. t \in TrackedTalks
    BY <1>7, ReceiveTyped DEF StartRequest, TrackTypeOK
  <2>2. CASE t \in trackTalkMap
    BY <1>4, <1>7, <2>2 DEF StartRequest, eventVars
  <2>3. CASE t \notin trackTalkMap
    <3>1. /\ tracks < 1 + MaxTracks /\ trackTalkMap' = trackTalkMap \cup {t}
          /\ routine' = [routine EXCEPT ![n] = NewRoutine(t)]
          /\ UNCHANGED <<cancelOf, stoppedEvents, mishaps>>
      BY <1>7, <2>3 DEF StartRequest, eventVars
    <3>2. n \in Routines
      BY <3>1 DEF TrackTypeOK, Routines
    <3>3. /\ \A q \in Routines \ {n} : routine'[q] = routine[q]
          /\ routine'[n].talk = t /\ routine'[n].at = "starting"
      BY <3>1, <3>2 DEF TrackTypeOK, NewRoutine
    <3> HIDE DEF n, t
    <3>4. ASSUME NEW u \in trackTalkMap
          PROVE  \/ \E r \in RoutinesOf(u)' : Live(r)'
                 \/ u \in ToSet(stoppedEvents)' \/ <<"stoppedLost", u>> \in mishaps'
      <4>1. ASSUME NEW r \in RoutinesOf(u), Live(r)
            PROVE  r \in RoutinesOf(u)' /\ Live(r)'
        <5>1. r \in Routines /\ routine[r].at \notin {"unused", "ended"}
          BY <4>1 DEF RoutinesOf, Live
        <5>2. Live(r)'
          BY <3>3, <5>1 DEF Live
        <5> QED  BY <1>2, <5>2
      <4> QED  BY <3>1, <4>1 DEF HasReason
    <3>5. HasReason'
      <4>1. \E r \in Routines : routine'[r].talk = t /\ routine'[r].at = "starting"
        BY <3>2, <3>3
      <4>2. ASSUME NEW u \in trackTalkMap'
            PROVE  \/ \E r \in RoutinesOf(u)' : Live(r)'
                   \/ u \in ToSet(stoppedEvents)' \/ <<"stoppedLost", u>> \in mishaps'
        <5>1. CASE u \in trackTalkMap
          BY <3>4, <5>1
        <5>2. CASE u = t
          BY <4>1, <5>2 DEF RoutinesOf, Live
        <5> QED  BY <3>1, <4>2, <5>1, <5>2
      <4> QED  BY <4>2 DEF HasReason
    <3>6. CancelOfLast'
      <4>1. ASSUME NEW u \in TrackedTalks, cancelOf[u] # 0
            PROVE  /\ u \in trackTalkMap' /\ cancelOf[u] \in RoutinesOf(u)'
                   /\ \A r \in RoutinesOf(u)' : r <= cancelOf[u]
        <5>1. u \in trackTalkMap /\ u # t /\ cancelOf[u] \in RoutinesOf(u)
          BY <2>3, <4>1 DEF CancelOfLast
        <5>2. \A r \in RoutinesOf(u)' : r \in RoutinesOf(u)
          BY <3>3, <5>1 DEF RoutinesOf
        <5> QED  BY <1>2, <3>1, <4>1, <5>1, <5>2 DEF CancelOfLast
      <4> QED  BY <3>1, <4>1 DEF CancelOfLast
    <3> QED  BY <3>5, <3>6
  <2> QED  BY <2>2, <2>3
\* A cancelled routine has not ended yet.
<1>8. ASSUME NEW t \in TrackedTalks, cancelOf[t] # 0,
             routine' = [routine EXCEPT ![cancelOf[t]].cancelled = TRUE]
      PROVE  \A r \in Routines : routine'[r].at = routine[r].at
  <2>1. cancelOf[t] \in Routines /\ routine[cancelOf[t]] \in Routine
    BY <1>8 DEF TrackTypeOK
  <2> QED  BY <1>8, <2>1 DEF TrackTypeOK, Routine
<1>9. CASE StopRequest
  <2>1. Head(stopRequests) \in TrackedTalks
    BY <1>9, ReceiveTyped DEF StopRequest, TrackTypeOK
  <2>2. \A r \in Routines : routine'[r].at = routine[r].at
    BY <1>8, <1>9, <2>1 DEF StopRequest
  <2>3. UNCHANGED <<tracks, stoppedEvents, mapVars>> /\ mishaps \subseteq mishaps'
    BY <1>9 DEF StopRequest, eventVars, Note
  <2> QED  BY <1>3, <2>2, <2>3 DEF Live
<1>10. CASE StartedEvent
  <2> DEFINE r == Head(startedEvents)
  <2>1. /\ r \in Routines /\ r \in ToSet(startedEvents)
        /\ UNCHANGED <<trackTalkMap, routine, stoppedEvents, mishaps, tracks>>
    BY <1>10, HeadTailToSet DEF StartedEvent, TrackTypeOK
  <2>2. cancelOf' = IF routine[r].talk \in trackTalkMap
                    THEN [cancelOf EXCEPT ![routine[r].talk] = r] ELSE cancelOf
    BY <1>10 DEF StartedEvent
  <2>3. /\ Live(r) /\ r \in RoutinesOf(routine[r].talk)
        /\ \A q \in RoutinesOf(routine[r].talk) : q <= r
    BY <2>1 DEF BeginsReported, Tracking, LivesInMap, RoutinesOf, Live
  <2> HIDE DEF r
  <2>4. \A t : RoutinesOf(t)' = RoutinesOf(t)
    BY <2>1 DEF RoutinesOf
  <2>5. HasReason'
    BY <2>1, <2>4 DEF HasReason, Live
  <2>6. ASSUME NEW t \in TrackedTalks, cancelOf'[t] # 0
        PROVE  /\ t \in trackTalkMap /\ cancelOf'[t] \in RoutinesOf(t)
               /\ \A q \in RoutinesOf(t) : q <= cancelOf'[t]
    <3>1. CASE cancelOf'[t] = cancelOf[t]
      BY <2>6, <3>1 DEF CancelOfLast
    <3>2. CASE cancelOf'[t] # cancelOf[t]
      <4>1. t = routine[r].talk /\ t \in trackTalkMap /\ cancelOf'[t] = r
        BY <2>2, <3>2 DEF TrackTypeOK
      <4> QED  BY <2>3, <4>1
    <3> QED  BY <3>1, <3>2
  <2>7. CancelOfLast'
    BY <2>1, <2>4, <2>6 DEF CancelOfLast
  <2> QED  BY <2>5, <2>7
<1>11. CASE StoppedEvent
  <2> DEFINE t == Head(stoppedEvents)
  <2>1. /\ stoppedEvents \in Seq(TrackedTalks) /\ stoppedEvents # <<>>
        /\ stoppedEvents' = Tail(stoppedEvents)
        /\ trackTalkMap' = trackTalkMap \ {t} /\ cancelOf' = [cancelOf EXCEPT ![t] = 0]
        /\ UNCHANGED <<tracks, mishaps>>
    BY <1>11 DEF StoppedEvent, TrackTypeOK
  <2>2. t \in TrackedTalks /\ ToSet(stoppedEvents) = {t} \cup ToSet(Tail(stoppedEvents))
    BY <2>1, HeadTailToSet, HeadOrTail
  <2>3. \A r \in Routines : routine'[r].at = routine[r].at
    BY <1>8, <1>11, <2>2 DEF StoppedEvent
  <2>4. \A u : RoutinesOf(u)' = RoutinesOf(u)
    BY <1>1, <2>1, SameRoutines
  <2>5. \A u : \A r \in RoutinesOf(u) : Live(r)' <=> Live(r)
    BY <2>3 DEF RoutinesOf, Live
  <2>6. HasReason'
    BY <2>1, <2>2, <2>4, <2>5 DEF HasReason
  <2>7. \A u \in TrackedTalks : cancelOf'[u] # 0 => u # t /\ cancelOf'[u] = cancelOf[u]
    BY <2>1, <2>2 DEF TrackTypeOK
  <2> HIDE DEF t
  <2>8. CancelOfLast'
    BY <2>1, <2>4, <2>7 DEF CancelOfLast
  <2> QED  BY <2>6, <2>8
<1>12. ASSUME NEW r \in Routines, ReportStopped(r) PROVE HasReason' /\ CancelOfLast'
  <2> DEFINE t == routine[r].talk
  <2>1. UNCHANGED <<tracks, mapVars>> /\ mishaps \subseteq mishaps'
    BY <1>12 DEF ReportStopped, Note
  <2>2. /\ \A q \in Routines \ {r} : routine'[q] = routine[q]
    BY <1>12 DEF ReportStopped, Move, TrackTypeOK
  <2>3. \A u : RoutinesOf(u)' = RoutinesOf(u)
    BY <1>1, <2>1, SameRoutines
  <2>4. /\ t \in ToSet(stoppedEvents)' \/ <<"stoppedLost", t>> \in mishaps'
        /\ ToSet(stoppedEvents) \subseteq ToSet(stoppedEvents)'
    <3>1. Live(r) /\ r # Fixed
      BY <1>12 DEF ReportStopped, Live, Tracking, FixedStays
    <3>2. t \in TrackedTalks /\ stoppedEvents \in Seq(TrackedTalks)
      BY <3>1, LiveOfTalk DEF TrackTypeOK
    <3>3. CASE stoppedEvents' = Append(stoppedEvents, t)
      <4>1. ToSet(Append(stoppedEvents, t)) = ToSet(stoppedEvents) \cup {t}
        BY <3>2, AppendToSet
      <4> QED  BY <3>3, <4>1
    <3>4. CASE Note("stoppedLost", t) /\ UNCHANGED stoppedEvents
      BY <3>4 DEF Note
    <3> QED  BY <1>12, <3>3, <3>4 DEF ReportStopped
  <2>5. ASSUME NEW u \in trackTalkMap
        PROVE  \/ \E q \in RoutinesOf(u)' : Live(q)'
               \/ u \in ToSet(stoppedEvents)' \/ <<"stoppedLost", u>> \in mishaps'
    <3>1. CASE u = t
      BY <2>4, <3>1
    <3>2. CASE \E q \in RoutinesOf(u) : Live(q) /\ u # t
      <4>1. PICK q \in RoutinesOf(u) : Live(q) /\ u # t
        BY <3>2
      <4>2. q \in Routines \ {r}
        BY <4>1 DEF RoutinesOf
      <4>3. Live(q)'
        BY <2>2, <4>1, <4>2 DEF Live
      <4> QED  BY <2>3, <4>1, <4>3
    <3>3. CASE u \in ToSet(stoppedEvents) \/ <<"stoppedLost", u>> \in mishaps
      BY <2>1, <2>4, <3>3
    <3> QED  BY <3>1, <3>2, <3>3 DEF HasReason
  <2>6. HasReason'
    BY <2>1, <2>5 DEF HasReason, mapVars
  <2>7. CancelOfLast'
    BY <2>1, <2>3 DEF CancelOfLast, mapVars
  <2> QED  BY <2>6, <2>7
<1>13. ASSUME NEW r \in Routines,
              \/ Announce(r) \/ ContextDone(r) \/ SetUp(r) \/ SetUpFails(r)
              \/ ChannelBroken(r) \/ Deliver(r) \/ BreakTrackChannel(r)
       PROVE  HasReason' /\ CancelOfLast'
  <2>1. UNCHANGED <<tracks, stoppedEvents, mapVars, mishaps>>
    BY <1>13 DEF Announce, ContextDone, SetUp, SetUpFails, ChannelBroken, Deliver,
                 BreakTrackChannel, eventVars
  <2>2. \A q \in Routines : routine'[q].at # "ended" \/ routine'[q].at = routine[q].at
    <3>1. routine[r] \in Routine
      BY DEF TrackTypeOK
    <3>2. CASE Announce(r)
      BY <3>1, <3>2 DEF Announce, Move, TrackTypeOK, Routine
    <3>7. CASE BreakTrackChannel(r)
      BY <3>1, <3>7 DEF BreakTrackChannel, Move, TrackTypeOK, Routine
    <3>3. CASE ContextDone(r)
      BY <3>1, <3>3 DEF ContextDone, TrackTypeOK, Routine
    <3>4. CASE SetUp(r)
      BY <3>1, <3>4 DEF SetUp, TrackTypeOK, Routine
    <3>8. CASE SetUpFails(r)
      BY <3>8 DEF SetUpFails
    <3>5. CASE ChannelBroken(r)
      BY <3>1, <3>5 DEF ChannelBroken, TrackTypeOK, Routine
    <3>6. CASE Deliver(r)
      BY <3>1, <3>6 DEF Deliver, TrackTypeOK, Routine
    <3> QED  BY <1>13, <3>2, <3>3, <3>4, <3>5, <3>6, <3>7, <3>8
  <2> QED  BY <1>3, <2>1, <2>2 DEF Live
<1>14. ASSUME NEW exchange \in PublishedTo, Publish(exchange) PROVE HasReason' /\ CancelOfLast'
  <2>1. UNCHANGED <<tracks, stoppedEvents, mapVars, mishaps>>
    BY <1>14 DEF Publish, eventVars
  <2>2. ASSUME NEW r \in Routines PROVE routine'[r].at = routine[r].at
    <3>1. routine[r] \in Routine
      BY DEF TrackTypeOK
    <3>2. \/ routine'[r] = [routine[r] EXCEPT !.queue = Append(@, publishes + 1)]
          \/ routine'[r] = routine[r]
      BY <1>14 DEF Publish
    <3> QED  BY <3>1, <3>2 DEF Routine
  <2> QED  BY <1>3, <2>1, <2>2 DEF Live
<1> QED
  BY <1>5, <1>6, <1>7, <1>9, <1>10, <1>11, <1>12, <1>13, <1>14
  DEF TrackNext, TrackMainStep, TrackRoutineStep

\* The map of the main routine agrees with the routines up to the events that are on
\* their way or were lost, and never holds the cancel function of an earlier routine.
THEOREM EntryExplainedInvariant == TrackSpec => []EntryExplained
<1> DEFINE Inv == TrackTypeOK /\ Tracking /\ BeginsReported /\ HasReason /\ CancelOfLast
<1>1. TrackInit => Inv
  BY TrackInitTyped, InitTracking, InitBegins, InitEntries
<1>2. Inv /\ [TrackNext]_trackVars => Inv'
  BY TrackStepTyped, StepTracking, StepBegins, StepEntries
<1>3. Inv => EntryExplained
  BY PartsExplain
<1> QED  BY <1>1, <1>2, <1>3, PTL DEF TrackSpec

-----------------------------------------------------------------------------
(* HeardInOrder. *)

LEMMA RisingTail ==
  ASSUME NEW s \in Seq(Nat), s # <<>>, Rising(s)
  PROVE  /\ Rising(Tail(s)) /\ Head(s) = s[1] /\ 1 \in DOMAIN s
         /\ \A i \in DOMAIN Tail(s) :
              i + 1 \in DOMAIN s /\ Tail(s)[i] = s[i + 1] /\ Head(s) < Tail(s)[i]
<1>1. Len(s) \in Nat \ {0} /\ DOMAIN s = 1..Len(s) /\ Head(s) = s[1]
  OBVIOUS
<1>2. /\ DOMAIN Tail(s) = 1..(Len(s) - 1)
      /\ \A i \in 1..(Len(s) - 1) : Tail(s)[i] = s[i + 1]
  OBVIOUS
<1>3. \A i \in 1..(Len(s) - 1) : i + 1 \in DOMAIN s /\ 1 < i + 1
  BY <1>1
<1>4. 1 \in DOMAIN s
  BY <1>1
<1>5. \A i \in DOMAIN Tail(s) : Head(s) < Tail(s)[i]
  BY <1>1, <1>2, <1>3, <1>4 DEF Rising
<1>6. ASSUME NEW i \in DOMAIN Tail(s), NEW j \in DOMAIN Tail(s), i < j
      PROVE  Tail(s)[i] < Tail(s)[j]
  <2>1. i + 1 < j + 1
    BY <1>2, <1>6
  <2> QED  BY <1>2, <1>3, <2>1 DEF Rising
<1>7. Rising(Tail(s))
  BY <1>6 DEF Rising
<1> QED  BY <1>1, <1>2, <1>3, <1>4, <1>5, <1>7

LEMMA RisingAppend ==
  ASSUME NEW s \in Seq(Nat), NEW n \in Nat, Rising(s), \A i \in DOMAIN s : s[i] < n
  PROVE  /\ Rising(Append(s, n))
         /\ \A i \in DOMAIN Append(s, n) :
              Append(s, n)[i] = n \/ (i \in DOMAIN s /\ Append(s, n)[i] = s[i])
<1>1. /\ DOMAIN Append(s, n) = 1..(Len(s) + 1) /\ DOMAIN s = 1..Len(s) /\ Len(s) \in Nat
      /\ \A i \in 1..Len(s) : Append(s, n)[i] = s[i]
      /\ Append(s, n)[Len(s) + 1] = n
  OBVIOUS
<1>2. \A i \in 1..(Len(s) + 1) : i \in 1..Len(s) \/ i = Len(s) + 1
  BY <1>1
<1>3. ASSUME NEW i \in DOMAIN Append(s, n), NEW j \in DOMAIN Append(s, n), i < j
      PROVE  Append(s, n)[i] < Append(s, n)[j]
  <2>1. i \in 1..Len(s)
    BY <1>1, <1>3
  <2>2. CASE j \in 1..Len(s)
    BY <1>1, <1>3, <2>1, <2>2 DEF Rising
  <2>3. CASE j = Len(s) + 1
    BY <1>1, <2>1, <2>3
  <2> QED  BY <1>1, <1>2, <2>2, <2>3
<1>4. Rising(Append(s, n))
  BY <1>3 DEF Rising
<1> QED  BY <1>1, <1>2, <1>4

LEMMA InitDelivering == TrackInit => Delivering
<1> SUFFICES ASSUME TrackInit PROVE Delivering
  OBVIOUS
<1>1. DOMAIN <<>> = {}
  OBVIOUS
<1>2. \A r \in Routines : routine[r].queue = <<>>
  BY DEF TrackInit, NewRoutine
<1>3. \A e \in Exchanges : heard[e] = <<>>
  BY DEF TrackInit
<1> QED  BY <1>1, <1>2, <1>3 DEF Delivering, Rising

\* A step that neither publishes nor delivers empties some queues at most.
LEMMA QuietDelivering ==
  ASSUME Delivering, UNCHANGED <<heard, publishes>>,
         \A r \in Routines :
           \/ routine'[r].queue = <<>>
           \/ /\ routine'[r].queue = routine[r].queue /\ routine'[r].talk = routine[r].talk
              /\ routine'[r].at \in {"consuming", "broken"}
  PROVE  Delivering'
<1>1. DOMAIN <<>> = {}
  OBVIOUS
<1>2. ASSUME NEW r \in Routines
      PROVE  LET queue == routine'[r].queue  talk == routine'[r].talk IN
             /\ Rising(queue) /\ \A j \in DOMAIN queue : queue[j] <= publishes
             /\ \A i \in DOMAIN heard[talk], j \in DOMAIN queue : heard[talk][i] < queue[j]
             /\ routine'[r].at \notin {"consuming", "broken"} => queue = <<>>
  <2>1. CASE routine'[r].queue = <<>>
    BY <1>1, <2>1 DEF Rising
  <2>2. CASE routine'[r].queue # <<>>
    BY <2>2 DEF Delivering
  <2> QED  BY <2>1, <2>2
<1> QED  BY <1>2 DEF Delivering, Rising

LEMMA StepDelivering ==
  ASSUME TrackTypeOK, Tracking, Delivering, [TrackNext]_trackVars
  PROVE  Delivering'
<1> USE Constants
<1>1. \A r \in Routines : routine[r].at \notin {"consuming", "broken"} => routine[r].queue = <<>>
  BY DEF Delivering
<1>2. ASSUME UNCHANGED <<heard, publishes>>,
             \A r \in Routines :
                /\ routine'[r].queue = routine[r].queue /\ routine'[r].talk = routine[r].talk
                /\ routine'[r].at = routine[r].at
      PROVE  Delivering'
  BY <1>1, <1>2, QuietDelivering
<1>3. ASSUME UNCHANGED <<heard, publishes, routine>> PROVE Delivering'
  BY <1>2, <1>3
<1>4. CASE UNCHANGED trackVars
  BY <1>3, <1>4 DEF trackVars
<1>5. ASSUME NEW w \in Watchers, InstallWatcher(w) \/ UninstallWatcher(w) PROVE Delivering'
  BY <1>3, <1>5 DEF InstallWatcher, UninstallWatcher, brokerVars
<1>6. CASE StartRequest
  <2>1. UNCHANGED <<heard, publishes>>
    BY <1>6 DEF StartRequest, brokerVars
  <2>2. CASE UNCHANGED routine
    BY <1>3, <2>1, <2>2
  <2>3. CASE routine' = [routine EXCEPT ![tracks + 1] = NewRoutine(Head(startRequests))]
    <3>1. \A r \in Routines : routine'[r] = routine[r] \/ routine'[r].queue = <<>>
      BY <2>3 DEF TrackTypeOK, NewRoutine
    <3> QED  BY <1>1, <2>1, <3>1, QuietDelivering
  <2> QED  BY <1>6, <2>2, <2>3 DEF StartRequest
<1>7. ASSUME NEW t \in TrackedTalks, cancelOf[t] # 0, UNCHANGED <<heard, publishes>>,
             routine' = [routine EXCEPT ![cancelOf[t]].cancelled = TRUE]
      PROVE  Delivering'
  <2>1. cancelOf[t] \in Routines /\ routine[cancelOf[t]] \in Routine
    BY <1>7 DEF TrackTypeOK
  <2>2. \A r \in Routines \ {cancelOf[t]} : routine'[r] = routine[r]
    BY <1>7 DEF TrackTypeOK
  <2>3. LET r == cancelOf[t] IN
        /\ routine'[r].queue = routine[r].queue /\ routine'[r].talk = routine[r].talk
        /\ routine'[r].at = routine[r].at
    BY <1>7, <2>1 DEF TrackTypeOK, Routine
  <2> QED  BY <1>2, <1>7, <2>2, <2>3
<1>8. CASE StopRequest
  <2>1. Head(stopRequests) \in TrackedTalks
    BY <1>8, ReceiveTyped DEF StopRequest, TrackTypeOK
  <2> QED  BY <1>3, <1>7, <1>8, <2>1 DEF StopRequest, brokerVars
<1>9. CASE StartedEvent
  BY <1>3, <1>9 DEF StartedEvent, brokerVars
<1>10. CASE StoppedEvent
  <2>1. Head(stoppedEvents) \in TrackedTalks
    BY <1>10, ReceiveTyped DEF StoppedEvent, TrackTypeOK
  <2> QED  BY <1>3, <1>7, <1>10, <2>1 DEF StoppedEvent, brokerVars
\* One routine moves.
<1>11. ASSUME NEW r \in Routines, NEW c, routine' = [routine EXCEPT ![r] = c],
              UNCHANGED <<heard, publishes>>,
              \/ c.queue = <<>>
              \/ /\ c.queue = routine[r].queue /\ c.talk = routine[r].talk
                 /\ c.at \in {"consuming", "broken"}
       PROVE  Delivering'
  <2>1. routine'[r] = c /\ \A q \in Routines \ {r} : routine'[q] = routine[q]
    BY <1>11 DEF TrackTypeOK
  <2> QED  BY <1>1, <1>11, <2>1, QuietDelivering
<1>12. ASSUME NEW r \in Routines, Announce(r) PROVE Delivering'
  <2> DEFINE c == [routine[r] EXCEPT !.at = "setup"]
  <2>1. routine' = [routine EXCEPT ![r] = c] /\ routine[r] \in Routine /\ routine[r].queue = <<>>
    BY <1>1, <1>12 DEF Announce, Move, TrackTypeOK
  <2>2. c.queue = <<>>
    BY <2>1 DEF Routine
  <2> HIDE DEF c
  <2> QED  BY <1>11, <1>12, <2>1, <2>2 DEF Announce, brokerVars
<1>13. ASSUME NEW r \in Routines, ContextDone(r) PROVE Delivering'
  <2> DEFINE c == [routine[r] EXCEPT !.at = "stopping", !.queue = <<>>,
                                     !.left = routine[r].at # "setup"]
  <2>1. routine' = [routine EXCEPT ![r] = c] /\ routine[r] \in Routine
    BY <1>13 DEF ContextDone, TrackTypeOK
  <2>2. c.queue = <<>>
    BY <2>1 DEF Routine
  <2> HIDE DEF c
  <2> QED  BY <1>11, <1>13, <2>1, <2>2 DEF ContextDone, brokerVars
<1>14. ASSUME NEW r \in Routines, SetUp(r) PROVE Delivering'
  <2> DEFINE c == [routine[r] EXCEPT !.at = "consuming", !.queue = <<>>]
  <2>1. routine' = [routine EXCEPT ![r] = c] /\ routine[r] \in Routine
    BY <1>14 DEF SetUp, TrackTypeOK
  <2>2. c.queue = <<>>
    BY <2>1 DEF Routine
  <2> HIDE DEF c
  <2> QED  BY <1>11, <1>14, <2>1, <2>2 DEF SetUp, brokerVars
<1>15. ASSUME NEW r \in Routines, SetUpFails(r) PROVE Delivering'
  BY <1>3, <1>15 DEF SetUpFails
<1>16. ASSUME NEW r \in Routines, ChannelBroken(r) PROVE Delivering'
  <2> DEFINE c == [routine[r] EXCEPT !.at = "setup", !.queue = <<>>]
  <2>1. routine' = [routine EXCEPT ![r] = c] /\ routine[r] \in Routine
    BY <1>16 DEF ChannelBroken, TrackTypeOK
  <2>2. c.queue = <<>>
    BY <2>1 DEF Routine
  <2> HIDE DEF c
  <2> QED  BY <1>11, <1>16, <2>1, <2>2 DEF ChannelBroken, brokerVars
<1>17. ASSUME NEW r \in Routines, ReportStopped(r) PROVE Delivering'
  <2> DEFINE c == [routine[r] EXCEPT !.at = "ended"]
  <2>1. routine' = [routine EXCEPT ![r] = c] /\ routine[r] \in Routine /\ routine[r].queue = <<>>
    BY <1>1, <1>17 DEF ReportStopped, Move, TrackTypeOK
  <2>2. c.queue = <<>>
    BY <2>1 DEF Routine
  <2> HIDE DEF c
  <2> QED  BY <1>11, <1>17, <2>1, <2>2 DEF ReportStopped, brokerVars
<1>18. ASSUME NEW r \in Routines, BreakTrackChannel(r) PROVE Delivering'
  <2> DEFINE c == [routine[r] EXCEPT !.at = "broken"]
  <2>1. routine' = [routine EXCEPT ![r] = c] /\ routine[r] \in Routine
    BY <1>18 DEF BreakTrackChannel, Move, TrackTypeOK
  <2>2. c.queue = routine[r].queue /\ c.talk = routine[r].talk /\ c.at = "broken"
    BY <2>1 DEF Routine
  <2> HIDE DEF c
  <2> QED  BY <1>11, <1>18, <2>1, <2>2 DEF BreakTrackChannel
<1>19. ASSUME NEW exchange \in PublishedTo, Publish(exchange) PROVE Delivering'
  <2> DEFINE n == publishes + 1
  <2>1. /\ publishes \in Nat /\ n \in Nat /\ publishes' = n /\ UNCHANGED heard
        /\ \A i \in Nat : i <= publishes => i < n /\ i <= n
    <3>1. publishes \in Nat
      BY DEF TrackTypeOK
    <3>2. publishes' = n /\ UNCHANGED heard
      BY <1>19 DEF Publish
    <3>3. n \in Nat /\ \A i \in Nat : i <= publishes => i < n /\ i <= n
      BY <3>1
    <3> QED  BY <3>1, <3>2, <3>3
  <2>2. ASSUME NEW e \in Exchanges
        PROVE  /\ heard[e] \in Seq(Nat) /\ Rising(heard[e])
               /\ \A i \in DOMAIN heard[e] : heard[e][i] < n /\ heard[e][i] <= n
    <3>1. heard[e] \in Seq(Nat) /\ \A i \in DOMAIN heard[e] : heard[e][i] \in Nat
      BY DEF TrackTypeOK
    <3> QED  BY <2>1, <3>1 DEF Delivering
  <2> HIDE DEF n
  <2>3. ASSUME NEW r \in Routines
        PROVE  LET queue == routine'[r].queue  talk == routine'[r].talk IN
               /\ Rising(queue) /\ \A j \in DOMAIN queue : queue[j] <= n
               /\ \A i \in DOMAIN heard[talk], j \in DOMAIN queue : heard[talk][i] < queue[j]
               /\ routine'[r].at \notin {"consuming", "broken"} => queue = <<>>
    <3>1. /\ routine[r] \in Routine /\ routine[r].queue \in Seq(Nat)
          /\ routine[r].talk \in Exchanges
          /\ \A j \in DOMAIN routine[r].queue : routine[r].queue[j] \in Nat
      <4>1. routine[r] \in Routine
        BY DEF TrackTypeOK
      <4>2. routine[r].queue \in Seq(Nat) /\ routine[r].talk \in Exchanges
        BY <4>1 DEF Routine
      <4> QED  BY <4>1, <4>2
    <3>2. /\ Rising(routine[r].queue)
          /\ \A j \in DOMAIN routine[r].queue :
               routine[r].queue[j] < n /\ routine[r].queue[j] <= n
      <4>1. /\ Rising(routine[r].queue)
            /\ \A j \in DOMAIN routine[r].queue : routine[r].queue[j] <= publishes
        BY DEF Delivering
      <4> QED  BY <2>1, <3>1, <4>1
    <3>3. CASE routine'[r] = routine[r]
      BY <3>2, <3>3 DEF Delivering
    <3>4. CASE /\ routine[r].at = "consuming"
               /\ routine'[r] = [routine[r] EXCEPT !.queue = Append(@, n)]
      <4>1. /\ routine'[r].queue = Append(routine[r].queue, n)
            /\ routine'[r].talk = routine[r].talk /\ routine'[r].at = "consuming"
        BY <3>1, <3>4 DEF Routine
      <4>2. /\ Rising(Append(routine[r].queue, n))
            /\ \A j \in DOMAIN Append(routine[r].queue, n) :
                 \/ Append(routine[r].queue, n)[j] = n
                 \/ /\ j \in DOMAIN routine[r].queue
                    /\ Append(routine[r].queue, n)[j] = routine[r].queue[j]
        BY <2>1, <3>1, <3>2, RisingAppend
      <4>3. n <= n
        BY <2>1
      <4>4. \A j \in DOMAIN Append(routine[r].queue, n) : Append(routine[r].queue, n)[j] <= n
        BY <3>2, <4>2, <4>3
      <4>5. \A i \in DOMAIN heard[routine[r].talk], j \in DOMAIN Append(routine[r].queue, n) :
              heard[routine[r].talk][i] < Append(routine[r].queue, n)[j]
        BY <2>2, <3>1, <4>2 DEF Delivering
      <4> QED  BY <4>1, <4>2, <4>4, <4>5
    <3> QED  BY <1>19, <3>3, <3>4 DEF Publish, n
  <2> QED  BY <2>1, <2>2, <2>3 DEF Delivering, Rising
<1>20. ASSUME NEW r \in Routines, Deliver(r) PROVE Delivering'
  <2> DEFINE t == routine[r].talk
             s == routine[r].queue
             d == Head(s)
  <2>1. /\ routine[r] \in Routine /\ t \in Exchanges /\ s \in Seq(Nat) /\ s # <<>>
        /\ routine[r].at \in {"consuming", "broken"} /\ heard[t] \in Seq(Nat)
    BY <1>20 DEF Deliver, TrackTypeOK, Routine
  <2>2. UNCHANGED publishes /\ heard' = [heard EXCEPT ![t] = Append(@, d)]
    BY <1>20 DEF Deliver, brokerVars
  <2>3. /\ \A q \in Routines \ {r} : routine'[q] = routine[q]
        /\ routine'[r].talk = t /\ routine'[r].queue = Tail(s)
        /\ routine'[r].at = routine[r].at
    BY <1>20, <2>1 DEF Deliver, TrackTypeOK, Routine
  <2>4. /\ Rising(s) /\ Rising(heard[t]) /\ \A j \in DOMAIN s : s[j] <= publishes
        /\ \A i \in DOMAIN heard[t] : heard[t][i] <= publishes
        /\ \A i \in DOMAIN heard[t], j \in DOMAIN s : heard[t][i] < s[j]
    BY <2>1 DEF Delivering
  <2>5. /\ Rising(Tail(s)) /\ d = s[1] /\ 1 \in DOMAIN s
        /\ \A j \in DOMAIN Tail(s) :
             j + 1 \in DOMAIN s /\ Tail(s)[j] = s[j + 1] /\ d < Tail(s)[j]
    BY <2>1, <2>4, RisingTail
  <2>6. d \in Nat /\ d <= publishes /\ \A i \in DOMAIN heard[t] : heard[t][i] < d
    BY <2>1, <2>4, <2>5
  <2>7. /\ heard'[t] = Append(heard[t], d)
        /\ \A e \in Exchanges \ {t} : heard'[e] = heard[e]
    BY <2>1, <2>2 DEF TrackTypeOK
  <2>8. ASSUME NEW q \in Routines, q # r, routine[q].talk = t PROVE routine[q].queue = <<>>
    <3>1. Live(r) /\ OneRoutine
      BY <2>1, TrackingIsOneRoutine DEF Live
    <3>2. ~Live(q)
      BY <2>8, <3>1 DEF OneRoutine
    <3> QED  BY <1>1, <3>2 DEF Live
  <2> HIDE DEF t, s, d
  <2>9. /\ Rising(Append(heard[t], d))
        /\ \A i \in DOMAIN Append(heard[t], d) :
             \/ Append(heard[t], d)[i] = d
             \/ i \in DOMAIN heard[t] /\ Append(heard[t], d)[i] = heard[t][i]
    BY <2>1, <2>4, <2>6, RisingAppend
  <2>10. \A i \in DOMAIN Append(heard[t], d) : Append(heard[t], d)[i] <= publishes
    BY <2>4, <2>6, <2>9
  <2>11. ASSUME NEW e \in Exchanges
         PROVE  Rising(heard'[e]) /\ \A i \in DOMAIN heard'[e] : heard'[e][i] <= publishes
    BY <2>7, <2>9, <2>10 DEF Delivering
  <2>12. ASSUME NEW i \in DOMAIN Append(heard[t], d), NEW j \in DOMAIN Tail(s)
         PROVE  Append(heard[t], d)[i] < Tail(s)[j]
    BY <2>4, <2>5, <2>9
  <2>13. \A j \in DOMAIN Tail(s) : Tail(s)[j] <= publishes
    BY <2>4, <2>5
  <2>14. ASSUME NEW q \in Routines
         PROVE  LET queue == routine'[q].queue  talk == routine'[q].talk IN
                /\ Rising(queue) /\ \A j \in DOMAIN queue : queue[j] <= publishes
                /\ \A i \in DOMAIN heard'[talk], j \in DOMAIN queue : heard'[talk][i] < queue[j]
                /\ routine'[q].at \notin {"consuming", "broken"} => queue = <<>>
    <3>1. CASE q = r
      <4>1. /\ routine'[q].talk = t /\ routine'[q].queue = Tail(s)
            /\ routine'[q].at \in {"consuming", "broken"} /\ heard'[t] = Append(heard[t], d)
        BY <2>1, <2>3, <2>7, <3>1
      <4>2. /\ Rising(Tail(s)) /\ \A j \in DOMAIN Tail(s) : Tail(s)[j] <= publishes
            /\ \A i \in DOMAIN Append(heard[t], d), j \in DOMAIN Tail(s) :
                 Append(heard[t], d)[i] < Tail(s)[j]
        BY <2>5, <2>12, <2>13
      <4> QED  BY <4>1, <4>2
    <3>2. CASE q # r /\ routine[q].talk = t
      <4>1. routine'[q].queue = <<>>
        BY <2>3, <2>8, <3>2
      <4>2. DOMAIN <<>> = {}
        OBVIOUS
      <4> QED  BY <4>1, <4>2 DEF Rising
    <3>3. CASE q # r /\ routine[q].talk # t
      <4>1. routine[q].talk \in Exchanges \ {t}
        BY <3>3 DEF TrackTypeOK, Routine
      <4>2. routine'[q] = routine[q] /\ heard'[routine[q].talk] = heard[routine[q].talk]
        BY <2>3, <2>7, <3>3, <4>1
      <4> QED  BY <4>2 DEF Delivering
    <3> QED  BY <3>1, <3>2, <3>3
  <2> QED  BY <2>2, <2>11, <2>14 DEF Delivering, Rising
<1> QED
  BY <1>4, <1>5, <1>6, <1>8, <1>9, <1>10, <1>12, <1>13, <1>14, <1>15, <1>16, <1>17, <1>18,
     <1>19, <1>20
  DEF TrackNext, TrackMainStep, TrackRoutineStep

\* Whatever breaks and whoever comes and goes, the data of an exchange are heard at
\* most once, in the order they were published.
THEOREM HeardInOrderInvariant == TrackSpec => []HeardInOrder
<1> DEFINE Inv == TrackTypeOK /\ Tracking /\ Delivering
<1>1. TrackInit => Inv
  BY TrackInitTyped, InitTracking, InitDelivering
<1>2. Inv /\ [TrackNext]_trackVars => Inv'
  BY TrackStepTyped, StepTracking, StepDelivering
<1>3. Inv => HeardInOrder
  BY DEF Delivering, Rising, HeardInOrder
<1> QED  BY <1>1, <1>2, <1>3, PTL DEF TrackSpec
=============================================================================
