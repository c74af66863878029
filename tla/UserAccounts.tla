---------------------------- MODULE UserAccounts -----------------------------
(***************************************************************************)
(* Who is who: the users table, the token cache, sign-in, and the personal *)
(* project every user gets with the first one, beside the ordinary         *)
(* projects people request, whose titles they choose.                      *)
(*                                                                         *)
(* A person is known to Perun by a subject that never changes and by an    *)
(* address that may.  A user row is made by the first sign-in, or before   *)
(* it by an invitation, then without a subject.  A handler that reads in   *)
(* one statement and writes in a later one is a call in progress in        *)
(* between; two of them overlap.                                           *)
(***************************************************************************)
EXTENDS Integers, FiniteSets, FiniteSetsExt, SequencesExt

CONSTANTS
  Person, Address,
  OldAddress,    \* person -> the address at the beginning
  NewAddress,    \* person -> the one it may change to
  Title,         \* of projects; an address is the title of the personal project named after it
  SlugOf,        \* title -> slug
  Entitled,      \* person -> what Perun entitles it to
  Session,
  Budgets        \* calls of each kind in one behaviour: a set to choose from

VARIABLES
  perun,      \* person -> [address, entitled]
  users,      \* user id -> [sub, email, role]
  personal,   \* user id -> [title, slug] of the personal project, named by address
  ordinary,   \* titles of the projects people have requested
  cached,     \* persons whose token the cache knows
  call,       \* session -> the call in progress
  left        \* kind -> calls that may still begin

accountVars == <<perun, users, personal, ordinary, cached>>
callVars == <<call, left>>

Nobody == "nobody"
NoCall == [op |-> "none"]

\* Nobody ever gets an address that was another's.
ASSUME AccountsAssumption ==
  /\ Nobody \notin Person /\ IsFiniteSet(Session) /\ Address \subseteq Title
  /\ OldAddress \in [Person -> Address] /\ NewAddress \in [Person -> Address]
  /\ \A p, q \in Person :
       p # q => {OldAddress[p], NewAddress[p]} \cap {OldAddress[q], NewAddress[q]} = {}

\* A table with more rows.
Extend(f, g) == [x \in DOMAIN f \cup DOMAIN g |-> IF x \in DOMAIN f THEN f[x] ELSE g[x]]

\* A table with one row more, or another one.
Put(f, x, row) == [y \in DOMAIN f \cup {x} |-> IF y = x THEN row ELSE f[y]]

Spend(kind) == left[kind] > 0 /\ left' = [left EXCEPT ![kind] = @ - 1]

Begin(kind, s, c) == call[s] = NoCall /\ call' = [call EXCEPT ![s] = c] /\ Spend(kind)

\* A call that takes one step.
Once(kind) == Spend(kind) /\ UNCHANGED call

Become(s, c) == call' = [call EXCEPT ![s] = c] /\ UNCHANGED left
End(s) == Become(s, NoCall)

-----------------------------------------------------------------------------
(* Accounts.                                                               *)

RoleOf(entitled) ==
  CASE "admin" \in entitled -> "admin"
    [] "admin" \notin entitled /\ "director" \in entitled -> "director"
    [] OTHER -> "user"

Role == {"admin", "director", "user"}
UserRow == [sub : Person \cup {Nobody}, email : Address, role : Role]

BySub(p) == {u \in DOMAIN users : users[u].sub = p}
ByEmail(a) == {u \in DOMAIN users : users[u].email = a}
UserOf(p) == CHOOSE u \in BySub(p) : TRUE

\* Passes the guard: the token's subject has a row.
Known == {users[u].sub : u \in DOMAIN users} \ {Nobody}

\* The role in the table, with step-up or without.
HasRole(u, least) ==
  CASE least = "admin"    -> users[u].role = "admin"
    [] least = "director" -> users[u].role \in {"admin", "director"}
    [] least = "user"     -> TRUE

\* What Perun knows.
PerunProfile(p) == [sub |-> p, email |-> perun[p].address, entitled |-> perun[p].entitled]

\* The table knows no entitlements.
RowProfile(u) == [sub |-> users[u].sub, email |-> users[u].email, entitled |-> {}]

\* The cache knows whose token it is.
Remembered(p) == p \in cached

\* A cached token is answered from the table.
Profile(p) == IF Remembered(p) /\ p \in Known THEN RowProfile(UserOf(p)) ELSE PerunProfile(p)

\* The invited are not looked for.
FoundBySub(profile) == BySub(profile.sub)

Found(profile) ==
  IF BySub(profile.sub) # {} THEN BySub(profile.sub) ELSE ByEmail(profile.email)

Target(found) == IF found = {} THEN Cardinality(DOMAIN users) + 1 ELSE Min(found)

\* The unique indexes on subject and address.
LoginTaken(profile, found) ==
  \E v \in DOMAIN users \ {Target(found)} : users[v].sub = profile.sub \/ users[v].email = profile.email

HasPersonal(u) == u \in DOMAIN personal

\* The titles and slugs, unique over all projects, that u's own does not use.
Titles(u) == {personal[v].title : v \in DOMAIN personal \ {u}} \cup ordinary
Slugs(u) == {personal[v].slug : v \in DOMAIN personal \ {u}} \cup {SlugOf[t] : t \in ordinary}

\* A new project needs a title and a slug, a renamed one only the title.  The
\* look-up after a duplicate key runs in the transaction that key has aborted:
\* it saves nothing.
TitleTaken(u, a) == a \in Titles(u) \/ (~HasPersonal(u) /\ SlugOf[a] \in Slugs(u))

\* A new address changes the title, never the slug.
PersonalProject(u, a) ==
  [title |-> a, slug |-> IF HasPersonal(u) THEN personal[u].slug ELSE SlugOf[a]]

-----------------------------------------------------------------------------
(* Actions.                                                                *)

AccountsInit ==
  /\ perun = [p \in Person |-> [address |-> OldAddress[p], entitled |-> Entitled[p]]]
  /\ cached = {} /\ ordinary = {}
  /\ call = [s \in Session |-> NoCall]
  /\ left \in Budgets

\* Any request with a token: it is introspected once and then remembered,
\* whether or not its subject has a row.
Request(p) == ~Remembered(p) /\ Once("accounts") /\ cached' = cached \cup {p} /\ UNCHANGED <<perun, users, personal, ordinary>>

\* Five minutes later.
Expire(p) == p \in cached /\ cached' = cached \ {p} /\ UNCHANGED <<perun, users, personal, ordinary, callVars>>

SignInRead(s, p) ==
  /\ Begin("accounts", s, [op |-> "sign_in", profile |-> Profile(p), found |-> Found(Profile(p))])
  /\ UNCHANGED accountVars

\* Row and personal project, or neither.
SignInWrite(s) ==
  LET profile == call[s].profile
      u == Target(call[s].found)
  IN  /\ call[s].op = "sign_in"
      /\ IF LoginTaken(profile, call[s].found) \/ TitleTaken(u, profile.email)
         THEN UNCHANGED <<users, personal>>
         ELSE /\ users' = Put(users, u, [sub |-> profile.sub, email |-> profile.email, role |-> RoleOf(profile.entitled)])
              /\ personal' = Put(personal, u, PersonalProject(u, profile.email))
      /\ End(s)
      /\ UNCHANGED <<perun, ordinary, cached>>

\* An address changes once.
Move(p) ==
  /\ perun[p].address # NewAddress[p] /\ Once("accounts")
  /\ perun' = [perun EXCEPT ![p].address = NewAddress[p]]
  /\ UNCHANGED <<users, personal, ordinary, cached>>

\* The title and the slug belong to no project but those of mine.
Free(t, mine) ==
  /\ \A v \in DOMAIN personal : personal[v].title # t /\ personal[v].slug # SlugOf[t]
  /\ \A other \in ordinary \ mine : SlugOf[other] # SlugOf[t]

\* Whoever has an account requests a project under any title.
RequestProject(t) ==
  /\ Known # {} /\ Free(t, {}) /\ Once("accounts")
  /\ ordinary' = ordinary \cup {t}
  /\ UNCHANGED <<perun, users, personal, cached>>

\* One that was rejected, which any request may be, is requested again under another title.
RequestProjectAgain(t, new) ==
  /\ t \in ordinary /\ Free(new, {t}) /\ Once("accounts")
  /\ ordinary' = (ordinary \ {t}) \cup {new}
  /\ UNCHANGED <<perun, users, personal, cached>>

-----------------------------------------------------------------------------
(* Properties.                                                             *)

\* The unique indexes on titles and slugs.
TitlesApart ==
  /\ \A u \in DOMAIN personal : personal[u].title \notin Titles(u) /\ personal[u].slug \notin Slugs(u)
  /\ \A t, other \in ordinary : SlugOf[t] = SlugOf[other] => t = other

AccountsTypeOK ==
  /\ \A u \in DOMAIN users : users[u] \in UserRow
  /\ DOMAIN users = 1..Cardinality(DOMAIN users)
  /\ \A u, v \in DOMAIN users :
       u # v => users[u].email # users[v].email /\ (users[u].sub = users[v].sub => users[u].sub = Nobody)
  /\ \A u \in DOMAIN users : users[u].sub # Nobody <=> HasPersonal(u)
  /\ ordinary \subseteq Title /\ TitlesApart
  /\ cached \subseteq Person

\* Who else, of those who have signed in, has or had an address with this slug.
ShareSlug(p, a) == {q \in Known \ {p} : SlugOf[a] \in {SlugOf[OldAddress[q]], SlugOf[NewAddress[q]]}}

\* Whom the unique indexes may keep out, and nobody else, whoever invited, was
\* invited or requested a project meanwhile and whatever calls overlapped or
\* failed: at a first sign-in someone whose personal project's slug an ordinary
\* project has taken, or shares with somebody else's; later only someone with a new
\* address which an ordinary project is named after, or an invitation was made
\* for (AuthService.signIn with its look-up by address, ensurePersonalProject).
NobodyIsLockedOut ==
  \A p \in Person : \A profile \in {PerunProfile(p), Profile(p)} :
    LET found == Found(profile)
        a == profile.email
    IN  LoginTaken(profile, found) \/ TitleTaken(Target(found), a) =>
          IF p \in Known
          THEN /\ a # users[UserOf(p)].email
               /\ a \in ordinary \/ \E v \in DOMAIN users : users[v].sub = Nobody /\ users[v].email = a
          ELSE SlugOf[a] \in {SlugOf[t] : t \in ordinary} \/ ShareSlug(p, a) # {}
=============================================================================
