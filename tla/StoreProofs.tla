---------------------------- MODULE StoreProofs ----------------------------
(***************************************************************************)
(* Lemmas about the operations of the talk store, for the proofs about     *)
(* both halves of the server.                                              *)
(***************************************************************************)
EXTENDS TalkStore, ChannelProofs

\* A talk that is opened or closed is a talk.
LEMMA StatusTyped ==
  ASSUME StoreTypeOK, NEW t \in Talks, NEW acts, NEW bizs,
         OpenTalk(acts, bizs, t) \/ CloseTalk(acts, bizs, t)
  PROVE  StoreTypeOK'
<1>1. PICK to \in {"opened", "closed"} :
        t \in DOMAIN talks /\ talks' = [talks EXCEPT ![t].status = to]
  BY DEF OpenTalk, CloseTalk, InScope
<1>2. PICK new : new = [talks[t] EXCEPT !.status = to]
  OBVIOUS
<1>3. talks[t] \in TalkInfo
  BY <1>1 DEF StoreTypeOK
<1>4. new \in TalkInfo
  BY <1>2, <1>3 DEF TalkInfo
<1>5. talks' = [talks EXCEPT ![t] = new]
  BY <1>1, <1>2
<1> QED  BY <1>1, <1>4, <1>5 DEF StoreTypeOK

\* The store keeps its shape: CreateTalk, OpenTalk, CloseTalk, AddTalkMessage
\* and UpdateTalkServiceID leave every talk a talk, and forget none.
LEMMA StoreTyped ==
  ASSUME StoreTypeOK,
         NEW t \in Talks, NEW act \in Acts, NEW biz \in Bizs, NEW m \in Message,
         NEW user \in Users \cup {NoOne}, NEW acts, NEW bizs,
         \/ CreateTalk(t, act, biz)
         \/ OpenTalk(acts, bizs, t)
         \/ CloseTalk(acts, bizs, t)
         \/ AddTalkMessage(t, m)
         \/ UpdateTalkServiceID(acts, bizs, t, user)
  PROVE  StoreTypeOK' /\ DOMAIN talks \subseteq DOMAIN talks' /\ t \in DOMAIN talks'
<1> USE DEF StoreTypeOK
<1>1. CASE CreateTalk(t, act, biz)
  <2> DEFINE new == [ status |-> "opened", act |-> act, biz |-> biz,
                      service |-> NoOne, messages |-> <<>> ]
  <2>1. new \in TalkInfo
    BY DEF TalkInfo
  <2>2. talks' = [u \in DOMAIN talks \cup {t} |-> IF u = t THEN new ELSE talks[u]]
    BY <1>1 DEF CreateTalk
  <2> QED  BY <2>1, <2>2
<1>2. CASE OpenTalk(acts, bizs, t)
  BY <1>2, StatusTyped DEF OpenTalk, InScope
<1>3. CASE CloseTalk(acts, bizs, t)
  BY <1>3, StatusTyped DEF CloseTalk, InScope
<1>4. CASE AddTalkMessage(t, m)
  <2>1. talks[t] \in TalkInfo /\ t \in DOMAIN talks
    BY <1>4 DEF AddTalkMessage
  <2>2. Append(talks[t].messages, m) \in Seq(Message)
    BY <2>1 DEF TalkInfo
  <2>3. [talks[t] EXCEPT !.messages = Append(@, m)] \in TalkInfo
    BY <2>1, <2>2 DEF TalkInfo
  <2>4. talks' = [talks EXCEPT ![t] = [talks[t] EXCEPT !.messages = Append(@, m)]]
    BY <1>4 DEF AddTalkMessage
  <2> QED  BY <2>1, <2>3, <2>4
<1>5. CASE UpdateTalkServiceID(acts, bizs, t, user)
  BY <1>5 DEF UpdateTalkServiceID, InScope, TalkInfo
<1> QED  BY <1>1, <1>2, <1>3, <1>4, <1>5

\* No operation takes a message away, and AddTalkMessage stores the new one.
LEMMA StoreGrows ==
  ASSUME StoreTypeOK,
         NEW t \in Talks, NEW act \in Acts, NEW biz \in Bizs, NEW m \in Message,
         NEW user \in Users \cup {NoOne}, NEW acts, NEW bizs,
         \/ CreateTalk(t, act, biz)
         \/ OpenTalk(acts, bizs, t)
         \/ CloseTalk(acts, bizs, t)
         \/ AddTalkMessage(t, m)
         \/ UpdateTalkServiceID(acts, bizs, t, user)
  PROVE  /\ \A u : Stored(u) \subseteq Stored(u)'
         /\ AddTalkMessage(t, m) => m \in Stored(t)'
<1> USE DEF StoreTypeOK, Stored
<1>1. CASE CreateTalk(t, act, biz)
  <2>1. /\ DOMAIN talks' = DOMAIN talks \cup {t} /\ t \notin DOMAIN talks
        /\ \A u \in DOMAIN talks : talks'[u] = talks[u]
    BY <1>1 DEF CreateTalk
  <2>2. ~AddTalkMessage(t, m)
    BY <2>1 DEF AddTalkMessage
  <2> QED  BY <2>1, <2>2
<1>2. CASE OpenTalk(acts, bizs, t) \/ CloseTalk(acts, bizs, t)
             \/ UpdateTalkServiceID(acts, bizs, t, user)
  <2>1. /\ DOMAIN talks' = DOMAIN talks
        /\ \A u \in DOMAIN talks : talks'[u].messages = talks[u].messages
    <3>1. \A u \in DOMAIN talks : talks[u] \in TalkInfo
      OBVIOUS
    <3>2. CASE OpenTalk(acts, bizs, t)
      BY <3>1, <3>2 DEF OpenTalk, TalkInfo
    <3>3. CASE CloseTalk(acts, bizs, t)
      BY <3>1, <3>3 DEF CloseTalk, TalkInfo
    <3>4. CASE UpdateTalkServiceID(acts, bizs, t, user)
      BY <3>1, <3>4 DEF UpdateTalkServiceID, TalkInfo
    <3> QED  BY <1>2, <3>2, <3>3, <3>4
  <2>2. \A u : Stored(u)' = Stored(u)
    BY <2>1
  <2>3. AddTalkMessage(t, m) => m \in Stored(t)'
    <3>1. SUFFICES ASSUME AddTalkMessage(t, m) PROVE m \in Stored(t)'
      OBVIOUS
    <3>2. talks[t].messages \in Seq(Message) /\ t \in DOMAIN talks
      BY <3>1 DEF AddTalkMessage, TalkInfo
    <3>3. talks'[t].messages = Append(talks[t].messages, m)
      BY <3>1, <3>2 DEF AddTalkMessage, TalkInfo
    <3>4. m \in ToSet(talks'[t].messages)
      BY <3>2, <3>3, AppendToSet
    <3> QED  BY <2>1, <3>2, <3>4
  <2> QED  BY <2>2, <2>3
<1>3. CASE AddTalkMessage(t, m)
  <2>1. talks[t].messages \in Seq(Message) /\ t \in DOMAIN talks
    BY <1>3 DEF AddTalkMessage, TalkInfo
  <2>2. /\ DOMAIN talks' = DOMAIN talks
        /\ talks'[t].messages = Append(talks[t].messages, m)
        /\ \A u \in DOMAIN talks : u # t => talks'[u].messages = talks[u].messages
    BY <1>3 DEF AddTalkMessage, TalkInfo
  <2>3. ToSet(talks'[t].messages) = ToSet(talks[t].messages) \cup {m}
    BY <2>1, <2>2, AppendToSet
  <2> QED  BY <2>1, <2>2, <2>3
<1> QED  BY <1>1, <1>2, <1>3

\* A stored message belongs to a talk.
LEMMA StoredHasTalk ==
  ASSUME StoreTypeOK, NEW t, NEW m \in Stored(t)
  PROVE  t \in Talks /\ t \in DOMAIN talks
BY DEF StoreTypeOK, Stored

\* Creating, opening, closing or giving away a talk stores no message.
LEMMA NothingStored ==
  ASSUME StoreTypeOK, NEW acts, NEW bizs, NEW act, NEW biz, NEW t, NEW user,
         \/ CreateTalk(t, act, biz) \/ OpenTalk(acts, bizs, t)
         \/ CloseTalk(acts, bizs, t) \/ UpdateTalkServiceID(acts, bizs, t, user)
  PROVE  \A u : Stored(u)' = Stored(u)
<1>1. CASE CreateTalk(t, act, biz)
  <2>1. ToSet(<<>>) = {}
    BY DEF ToSet
  <2>2. /\ t \notin DOMAIN talks /\ DOMAIN talks' = DOMAIN talks \cup {t}
        /\ talks'[t].messages = <<>>
        /\ \A u \in DOMAIN talks : talks'[u] = talks[u]
    BY <1>1 DEF CreateTalk
  <2>3. Stored(t)' = {} /\ Stored(t) = {}
    BY <2>1, <2>2 DEF Stored
  <2>4. \A u : u # t => Stored(u)' = Stored(u)
    BY <2>2 DEF Stored
  <2> QED  BY <2>3, <2>4
<1>2. CASE \/ OpenTalk(acts, bizs, t) \/ CloseTalk(acts, bizs, t)
          \/ UpdateTalkServiceID(acts, bizs, t, user)
  <2>1. t \in DOMAIN talks /\ talks[t] \in TalkInfo
    BY <1>2 DEF OpenTalk, CloseTalk, UpdateTalkServiceID, InScope, StoreTypeOK
  <2>2. /\ DOMAIN talks' = DOMAIN talks
        /\ \A u \in DOMAIN talks : talks'[u].messages = talks[u].messages
    <3>1. CASE OpenTalk(acts, bizs, t)
      BY <2>1, <3>1 DEF OpenTalk, StoreTypeOK, TalkInfo
    <3>2. CASE CloseTalk(acts, bizs, t)
      BY <2>1, <3>2 DEF CloseTalk, StoreTypeOK, TalkInfo
    <3>3. CASE UpdateTalkServiceID(acts, bizs, t, user)
      BY <2>1, <3>3 DEF UpdateTalkServiceID, StoreTypeOK, TalkInfo
    <3> QED  BY <1>2, <3>1, <3>2, <3>3
  <2> QED  BY <2>2 DEF Stored
<1> QED  BY <1>1, <1>2

\* A message that is added is the only new one, and nothing else of a talk changes.
LEMMA AddsOne ==
  ASSUME StoreTypeOK, NEW t, NEW m, AddTalkMessage(t, m)
  PROVE  /\ t \in DOMAIN talks /\ DOMAIN talks' = DOMAIN talks
         /\ Stored(t)' = Stored(t) \cup {m}
         /\ \A u : u # t => Stored(u)' = Stored(u)
         /\ \A u \in DOMAIN talks :
              /\ talks'[u].act = talks[u].act /\ talks'[u].biz = talks[u].biz
              /\ talks'[u].service = talks[u].service
              /\ talks'[u].status = talks[u].status
<1>1. /\ t \in DOMAIN talks /\ talks[t] \in TalkInfo
      /\ talks' = [talks EXCEPT ![t].messages = Append(@, m)]
  BY DEF AddTalkMessage, StoreTypeOK
<1>2. talks[t].messages \in Seq(Message) /\ DOMAIN talks' = DOMAIN talks
  BY <1>1 DEF TalkInfo
<1>3. /\ talks'[t].messages = Append(talks[t].messages, m)
      /\ \A u \in DOMAIN talks : u # t => talks'[u] = talks[u]
      /\ talks'[t].act = talks[t].act /\ talks'[t].biz = talks[t].biz
      /\ talks'[t].service = talks[t].service /\ talks'[t].status = talks[t].status
  BY <1>1 DEF TalkInfo
<1>4. Stored(t)' = Stored(t) \cup {m}
  <2>1. ToSet(Append(talks[t].messages, m)) = ToSet(talks[t].messages) \cup {m}
    BY <1>2, AppendToSet
  <2> QED  BY <1>1, <1>2, <1>3, <2>1 DEF Stored
<1>5. \A u : u # t => Stored(u)' = Stored(u)
  BY <1>2, <1>3 DEF Stored
<1> QED  BY <1>1, <1>2, <1>3, <1>4, <1>5
=============================================================================
