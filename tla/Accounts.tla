------------------------------ MODULE Accounts ------------------------------
(***************************************************************************)
(* The servicers' accounts: the users of memUserPassModelImpl, each call   *)
(* of which is atomic under its lock, and the calls of the user server and *)
(* of the login page, which are several of them.                           *)
(*                                                                         *)
(* A user's number is his place in `users'.  Activities and businesses are *)
(* given together and tested alike; `scope' stands for both, and is empty  *)
(* if either is.  Passwords are right and tokens do not expire.            *)
(***************************************************************************)
EXTENDS Integers, Sequences, FiniteSets

CONSTANTS
  Names,           \* user names
  Demo,            \* the name of the user the program registers itself
  Callers,         \* calls of Register that may run at once
  Offers,          \* the scopes an administrator may give
  MaxUsers,        \* bound: users
  MaxGrants,       \* bound: calls of SetPermissions that pass the check
  UpdateScopeFails \* whether UpdateUserAllExData may fail

ASSUME AccountsAssumption ==
  /\ Demo \in Names /\ MaxUsers \in Nat \ {0} /\ MaxGrants \in Nat
  /\ Offers \subseteq SUBSET (0..MaxUsers) /\ UpdateScopeFails \in BOOLEAN

VARIABLES
  users,        \* the users: name, scope, and whether "permission" is set
  registering,  \* the user of each Register whose scope is still to be set, or NoUser
  granting,     \* a SetPermissions that has passed the check, at most one
  grants,       \* how many have
  granted,      \* the users some SetPermissions was about
  page          \* the user whose token the login page has answered, or NoUser

accountsVars == <<users, registering, granting, grants, granted, page>>

-----------------------------------------------------------------------------
NoUser == 0
User  == [name : Names, scope : SUBSET (0..MaxUsers), admin : BOOLEAN]
Grant == [target : 1..MaxUsers, scope : Offers]
Uids  == 1..Len(users)

\* The values of the variables: what refers to a user refers to one there is, and
\* a name leads to one user.
AccountsTypeOK ==
  /\ users \in Seq(User)
  /\ \A u, v \in Uids : users[u].name = users[v].name => u = v
  /\ registering \in [Callers -> {NoUser} \cup Uids]
  /\ granting \in Seq(Grant) /\ Len(granting) <= 1
  /\ \A i \in DOMAIN granting : granting[i].target \in Uids
  /\ grants \in 0..MaxGrants /\ granted \subseteq Uids /\ page \in {NoUser} \cup Uids

\* The program has registered its user, 1, with the activity 0.
AccountsInit ==
  /\ users = <<[name |-> Demo, scope |-> {0}, admin |-> TRUE]>>
  /\ registering = [c \in Callers |-> NoUser]
  /\ granting = <<>> /\ grants = 0 /\ granted = {} /\ page = NoUser

Known(name) == \E u \in Uids : users[u].name = name

-----------------------------------------------------------------------------
AddUser(name) ==
  /\ ~Known(name) /\ Len(users) < MaxUsers
  /\ users' = Append(users, [name |-> name, scope |-> {}, admin |-> FALSE])

\* Mutant: the error of AddUser is not looked at.
RegisterAnyway(c, name) ==
  /\ registering[c] = NoUser
  /\ AddUser(name) \/ (Known(name) /\ UNCHANGED users)
  /\ registering' = [registering EXCEPT ![c] = Len(users) + 1]
  /\ UNCHANGED <<granting, grants, granted, page>>

Register(c, name) ==
  /\ registering[c] = NoUser /\ AddUser(name)
  /\ registering' = [registering EXCEPT ![c] = Len(users) + 1]
  /\ UNCHANGED <<granting, grants, granted, page>>

SetScope(u, scope) ==
  users' = [users EXCEPT ![u].scope = scope, ![u].admin = FALSE]

\* The new user gets an activity of his own; if that fails he has none.
RegisterScope(c) ==
  /\ registering[c] # NoUser
  /\ SetScope(registering[c], {registering[c]}) \/ (UpdateScopeFails /\ UNCHANGED users)
  /\ registering' = [registering EXCEPT ![c] = NoUser]
  /\ UNCHANGED <<granting, grants, granted, page>>

\* Mutant: a token is a token.
LoginAnyway(u) ==
  /\ page = NoUser /\ page' = u
  /\ UNCHANGED <<users, registering, granting, grants, granted>>

\* The page refuses a user who has no activity or no business.
Login(u) ==
  /\ page = NoUser /\ users[u].scope # {} /\ page' = u
  /\ UNCHANGED <<users, registering, granting, grants, granted>>

\* SetPermissions, by some user who is an administrator when he is asked for.
CheckAdmin(target, scope) ==
  /\ granting = <<>> /\ grants < MaxGrants /\ \E u \in Uids : users[u].admin
  /\ granting' = <<[target |-> target, scope |-> scope]>> /\ grants' = grants + 1
  /\ UNCHANGED <<users, registering, granted, page>>

\* GenExData knows nothing of "permission": an administrator is one no more.
SetPermissions ==
  /\ granting # <<>> /\ granting' = <<>>
  /\ SetScope(granting[1].target, granting[1].scope)
  /\ granted' = granted \cup {granting[1].target}
  /\ UNCHANGED <<registering, grants, page>>

-----------------------------------------------------------------------------
AccountsNext ==
  \/ \E c \in Callers : (\E name \in Names : Register(c, name)) \/ RegisterScope(c)
  \/ \E u \in Uids : Login(u) \/ \E scope \in Offers : CheckAdmin(u, scope)
  \/ SetPermissions

=============================================================================
