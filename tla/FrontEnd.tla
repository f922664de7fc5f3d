------------------------------ MODULE FrontEnd ------------------------------
(***************************************************************************)
(* A servicer's browser: the login page gives it a token, its socket       *)
(* presents the token, and the server explains it when the stream starts.  *)
(* The scope of a stream is the one of that moment; accounts change on.    *)
(***************************************************************************)
EXTENDS WsProxy, Accounts

VARIABLES
  holder,       \* whose token the stream was opened with, or NoUser: a bad one
  streamScope   \* the scope of the stream once it is served

frontVars == <<wsVars, accountsVars, holder, streamScope>>

\* The values of the variables of all three modules.
FrontTypeOK ==
  /\ WsTypeOK /\ AccountsTypeOK
  /\ holder \in {NoUser} \cup Uids
  /\ streamScope \in SUBSET (0..MaxUsers)

FrontInit == WsInit /\ AccountsInit /\ holder = NoUser /\ streamScope = {}

-----------------------------------------------------------------------------
\* The page's token; without one, any text.
OpenWithToken ==
  /\ OpenStream /\ holder' = page
  /\ UNCHANGED <<accountsVars, streamScope>>

\* A token is refused if it is bad; a good one whose stream has no room fails.
RefuseToken ==
  /\ Refuse /\ (status' = "unauthenticated" <=> holder = NoUser)
  /\ UNCHANGED <<accountsVars, holder, streamScope>>

\* ExplainToken, then the installation.
ServeToken ==
  /\ holder # NoUser /\ Serve /\ streamScope' = users[holder].scope
  /\ UNCHANGED <<accountsVars, holder>>

Elsewhere == UNCHANGED <<accountsVars, holder, streamScope>>

FrontNext ==
  \/ OpenWithToken \/ RefuseToken \/ ServeToken
  \/ NoStream /\ Elsewhere
  \/ WsPumpStep /\ Elsewhere
  \/ GrpcPumpStep /\ Elsewhere
  \/ (Hear \/ Respond \/ EndStream) /\ Elsewhere
  \/ ClientStep /\ Elsewhere
  \/ AccountsNext /\ UNCHANGED <<wsVars, holder, streamScope>>

FrontSpec == FrontInit /\ [][FrontNext]_frontVars

FrontFairSpec ==
  /\ FrontSpec
  /\ WF_frontVars(client = "closing" /\ ((NoStream /\ Elsewhere) \/ OpenWithToken))
  /\ WF_frontVars((ReadMessage \/ SendMsg \/ (ReadFails /\ ~connOpen)) /\ Elsewhere)
  /\ WF_frontVars(GrpcPumpStep /\ Elsewhere)
  /\ WF_frontVars((See \/ SeeEnd) /\ Elsewhere)

-----------------------------------------------------------------------------
\* Whom the page let in has a scope when his stream is served, unless an
\* administrator took it away in between (an empty scope passes every talk).
\* A registration that is half done, or whose update failed, gives no such stream.
PageIsScoped ==
  server = "serving" /\ streamScope = {} => holder \in granted
=============================================================================
