----------------------------- MODULE TalkStore -----------------------------
(***************************************************************************)
(* The talk store: memmodel.go behind its lock, and the wrappers of        *)
(* model_ex.go that the rest of the server calls.  Every operation takes   *)
(* the lock for its whole body, so each one is a single step.              *)
(*                                                                         *)
(* A message is abstracted to its sender's session and that session's      *)
(* sequence number; titles, timestamps, user names and the ids the store   *)
(* gives to messages are left out.                                         *)
(***************************************************************************)
EXTENDS Naturals, Sequences, SequencesExt

CONSTANTS
  Talks,      \* the talk ids the snowflake generator may hand out
  Acts, Bizs, \* activity and business ids
  Senders,    \* the sessions that write messages
  Users,      \* user ids of servicers
  NoOne       \* service id 0: nobody has taken the talk

ASSUME NoOneAssumption == NoOne \notin Users

VARIABLE talks

Message == Senders \X Nat

TalkInfo ==
  [ status   : {"opened", "closed"},
    act      : Acts,
    biz      : Bizs,
    service  : Users \cup {NoOne},
    messages : Seq(Message) ]

StoreTypeOK ==
  /\ DOMAIN talks \subseteq Talks
  /\ talks \in [DOMAIN talks -> TalkInfo]

StoreInit == talks = [t \in {} |-> 0]

-----------------------------------------------------------------------------
\* An empty list of ids filters nothing out.
Passes(ids, id) == ids = {} \/ id \in ids

InScope(acts, bizs, t) ==
  /\ t \in DOMAIN talks
  /\ Passes(acts, talks[t].act)
  /\ Passes(bizs, talks[t].biz)

-----------------------------------------------------------------------------
\* Operations that change the store.  A conjunct that fails is the error the
\* code returns; the store is then as it was.

CreateTalk(t, act, biz) ==
  /\ t \notin DOMAIN talks
  /\ talks' = [u \in DOMAIN talks \cup {t} |->
                 IF u = t
                 THEN [ status |-> "opened", act |-> act, biz |-> biz,
                        service |-> NoOne, messages |-> <<>> ]
                 ELSE talks[u]]

OpenTalk(acts, bizs, t) ==
  /\ InScope(acts, bizs, t)
  /\ talks' = [talks EXCEPT ![t].status = "opened"]

CloseTalk(acts, bizs, t) ==
  /\ InScope(acts, bizs, t)
  /\ talks' = [talks EXCEPT ![t].status = "closed"]

\* Neither the scope nor the status of the talk is looked at.
AddTalkMessage(t, m) ==
  /\ t \in DOMAIN talks
  /\ talks' = [talks EXCEPT ![t].messages = Append(@, m)]

UpdateTalkServiceID(acts, bizs, t, user) ==
  /\ InScope(acts, bizs, t)
  /\ talks' = [talks EXCEPT ![t].service = user]

-----------------------------------------------------------------------------
\* Queries.

TalkExists(acts, bizs, t) == InScope(acts, bizs, t)

GetTalkMessages(t) == talks[t].messages

GetTalkServicerID(acts, bizs, t) ==
  IF InScope(acts, bizs, t) THEN talks[t].service ELSE NoOne

GetServicerTalkInfos(acts, bizs, user) ==
  {t \in DOMAIN talks : /\ InScope(acts, bizs, t)
                        /\ talks[t].service = user
                        /\ talks[t].status = "opened"}

GetPendingTalkInfos(acts, bizs) ==
  {t \in DOMAIN talks : /\ InScope(acts, bizs, t)
                        /\ talks[t].service = NoOne
                        /\ talks[t].status = "opened"}

\* What the store holds of a talk, as a set.
Stored(t) == IF t \in DOMAIN talks THEN ToSet(talks[t].messages) ELSE {}
=============================================================================
