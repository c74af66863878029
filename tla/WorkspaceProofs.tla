--------------------------- MODULE WorkspaceProofs ---------------------------
(***************************************************************************)
(* WorkspaceInStep is an invariant of the accounts, memberships,           *)
(* publications, resources and ORCIDs together, for every choice of the    *)
(* constants: it says of each table what its indexes do not, and of each   *)
(* call in progress what still holds of the rows it has read.              *)
(***************************************************************************)
EXTENDS Workspace, FiniteSetTheorems, WellFoundedInduction, TLAPS

-----------------------------------------------------------------------------
(* The inductive invariant                                                 *)

\* The addresses a person has had.
Own(p, a) == a \in {OldAddress[p], perun[p].address}

SlugsOf(p) == {SlugOf[OldAddress[p]], SlugOf[perun[p].address]}

PerunInStep ==
  /\ perun = [p \in Person |-> [address |-> perun[p].address, entitled |-> perun[p].entitled]]
  /\ \A p \in Person : perun[p].address \in {OldAddress[p], NewAddress[p]}

RowsAreApart ==
  \A u, v \in DOMAIN users :
    u # v => users[u].email # users[v].email /\ (users[u].sub = users[v].sub => users[u].sub = Nobody)

SignedInAreOwn ==
  \A u \in DOMAIN users :
    users[u].sub # Nobody => /\ Own(users[u].sub, users[u].email)
                             /\ personal[u].title = users[u].email
                             /\ personal[u].slug \in SlugsOf(users[u].sub)

AccountsInStep ==
  /\ PerunInStep
  /\ Cardinality(DOMAIN users) \in Nat /\ DOMAIN users = 1..Cardinality(DOMAIN users)
  /\ users \in [DOMAIN users -> UserRow]
  /\ DOMAIN personal = {u \in DOMAIN users : users[u].sub # Nobody}
  /\ cached \subseteq Person /\ ordinary \subseteq Title
  /\ RowsAreApart /\ SignedInAreOwn /\ TitlesApart

\* What a sign-in has found is its own row, or one an invitation made for its address.
SignInHolds(c) ==
  c.op = "sign_in" =>
    /\ c.profile.sub \in Person /\ Own(c.profile.sub, c.profile.email)
    /\ c.found \subseteq DOMAIN users
    /\ \A u \in c.found : \/ users[u].sub = c.profile.sub
                          \/ users[u].sub = Nobody /\ users[u].email = c.profile.email

InvitesHold(c) ==
  /\ c.op = "add" => c.project \in Project /\ c.batch \in Batch
  /\ c.op = "invite" => c.project \in Project /\ c.emails \in (SUBSET Address) \ {{}}

MembersInStep ==
  /\ projects \in [Project -> ProjectRow]
  /\ DOMAIN members \subseteq Project \X DOMAIN users /\ members \in [DOMAIN members -> MemberRow]
  /\ \A j \in queue : j.project \in Project /\ j.emails \in (SUBSET Address) \ {{}}
  /\ joined \subseteq Project \X Person
  /\ PendingIsInvited /\ InvitedHasRow /\ ActiveHasJoined

\* An update that is under way has looked at the status before the last decision.
PubCallHolds(c) ==
  /\ c.op \in {"update", "assign"} => c.pub \in Nat
  /\ c.op = "update" => /\ c.decided \in Nat
                        /\ c.pub \in DOMAIN pubs =>
                             /\ c.decided <= pubs[c.pub].decided
                             /\ pubs[c.pub].status = "approved" => c.decided < pubs[c.pub].decided
  /\ c.op = "assign" => c.project \in Project
  /\ c.op = "list" => /\ c \in [op : {"list"}, project : Project, todo : SUBSET Nat, linked : SUBSET Nat]
                      /\ IsFiniteSet(c.todo)
  /\ c.op = "remove" =>
       /\ c \in [op : {"remove"}, at : {"link", "clear", "look", "count", "rights", "unlink", "last"}, pub : Nat,
                 by : Person, stepUp : BOOLEAN, project : Project \cup {NoProject}, legacy : Project \cup {NoProject}]
       /\ c.at = "link" => c.legacy \in Project

PublicationsInStep ==
  /\ IsFiniteSet(DOMAIN pubs) /\ DOMAIN pubs \subseteq Nat
  /\ pubs \in [DOMAIN pubs -> PublicationRow]
  /\ \A k, l \in DOMAIN pubs : k # l => <<pubs[k].owner, pubs[k].uid>> # <<pubs[l].owner, pubs[l].uid>>
  /\ links \subseteq Link

CatalogueCallHolds(c) ==
  /\ c.op = "delete_type" => c.type \in Nat
  /\ c.op = "save" => c.form \in Form

CatalogueInStep ==
  /\ IsFiniteSet(DOMAIN attributeTypes) /\ DOMAIN attributeTypes \subseteq Nat
  /\ attributeTypes \in [DOMAIN attributeTypes -> AttributeTypeRow]
  /\ Cardinality(DOMAIN resources) \in Nat /\ DOMAIN resources = 1..Cardinality(DOMAIN resources)
  /\ resources \in [DOMAIN resources -> ResourceRow]
  /\ CatalogueTypeOK

Entries == UNION {ToSet(notice) : notice \in Notice}

\* A notification works through entries of Perun's, for an account that has signed in.
NoticeHolds(c) ==
  c.op = "notice" =>
    /\ c \in [op : {"notice"}, todo : Seq(Entries), user : Nat, old : SUBSET Orcid, new : SUBSET Orcid]
    /\ c.new # {} => /\ c.user \in DOMAIN users /\ users[c.user].sub # Nobody
                     /\ c.new \subseteq NamedOf(users[c.user].sub)

CallHolds(c) ==
  SignInHolds(c) /\ InvitesHold(c) /\ PubCallHolds(c) /\ CatalogueCallHolds(c) /\ NoticeHolds(c)

CallsInStep ==
  /\ call = [s \in Session |-> call[s]]
  /\ \A s \in Session : CallHolds(call[s])

WorkspaceInStep ==
  /\ AccountsInStep /\ MembersInStep /\ PublicationsInStep /\ CatalogueInStep /\ OrcidsTypeOK
  /\ CallsInStep

-----------------------------------------------------------------------------
(* Least and greatest elements, finite images, sequences of sets.          *)

LEMMA LeastIsMember ==
  ASSUME NEW S \in SUBSET Nat, S # {}
  PROVE  Min(S) \in S
<1>1. PICK k \in S : \A j \in S : <<j, k>> \notin OpToRel(<, Nat)
  BY NatLessThanWellFounded, WFMin
<1>2. \A j \in S : ~(j < k)
  <2> SUFFICES ASSUME NEW j \in S, j < k PROVE FALSE
    OBVIOUS
  <2>1. <<j, k>> \in Nat \X Nat /\ <<j, k>>[1] < <<j, k>>[2]
    OBVIOUS
  <2> QED BY <1>1, <2>1, Zenon DEF OpToRel
<1>3. \A j \in S : k <= j
  BY <1>2
<1> QED BY <1>3 DEF Min

\* A finite set of numbers is bounded by one of its own.
LEMMA GreatestIsMember ==
  ASSUME NEW S \in SUBSET Nat, S # {}, IsFiniteSet(S)
  PROVE  Max(S) \in S /\ \A k \in S : k <= Max(S)
<1> DEFINE Topped(T) == \E k \in T : \A j \in T : k >= j
           bad == {n \in Nat : \E T \in SUBSET Nat : /\ T # {} /\ IsFiniteSet(T)
                                                    /\ Cardinality(T) = n /\ ~Topped(T)}
<1>1. bad = {}
  <2> SUFFICES ASSUME bad # {} PROVE FALSE
    OBVIOUS
  <2>1. Min(bad) \in bad /\ \A n \in bad : Min(bad) <= n
    <3>1. PICK k \in bad : \A j \in bad : <<j, k>> \notin OpToRel(<, Nat)
      BY NatLessThanWellFounded, WFMin
    <3>2. \A j \in bad : ~(j < k)
      <4> SUFFICES ASSUME NEW j \in bad, j < k PROVE FALSE
        OBVIOUS
      <4>1. <<j, k>> \in Nat \X Nat /\ <<j, k>>[1] < <<j, k>>[2]
        OBVIOUS
      <4> QED BY <3>1, <4>1, Zenon DEF OpToRel
    <3>3. \A j \in bad : k <= j
      BY <3>2
    <3> QED BY <3>3 DEF Min
  <2>2. PICK T \in SUBSET Nat : T # {} /\ IsFiniteSet(T) /\ Cardinality(T) = Min(bad) /\ ~Topped(T)
    BY <2>1
  <2>3. PICK x : x \in T
    BY <2>2
  <2>4. IsFiniteSet(T \ {x}) /\ Cardinality(T \ {x}) = Min(bad) - 1 /\ Cardinality(T \ {x}) \in Nat
    BY <2>2, <2>3, FS_RemoveElement, FS_CardinalityType
  <2>5. T \ {x} # {}
    <3> SUFFICES ASSUME T = {x} PROVE FALSE
      BY <2>3
    <3>1. x \in Nat /\ \A j \in T : x >= j
      BY <2>3
    <3> QED BY <2>2, <2>3, <3>1
  <2>6. Cardinality(T \ {x}) \notin bad
    <3>1. Min(bad) \in Nat /\ \A n \in bad : Min(bad) <= n
      BY <2>1
    <3> HIDE DEF bad
    <3> QED BY <2>4, <3>1
  <2>7. PICK k \in T \ {x} : \A j \in T \ {x} : k >= j
    <3>1. T \ {x} \in SUBSET Nat
      OBVIOUS
    <3>2. Topped(T \ {x})
      BY <2>4, <2>5, <2>6, <3>1
    <3> QED BY <3>2
  <2>8. Topped(T)
    <3>1. CASE k >= x
      BY <3>1, <2>7
    <3>2. CASE ~(k >= x)
      BY <3>2, <2>3, <2>7
    <3> QED BY <3>1, <3>2
  <2> QED BY <2>2, <2>8
<1>2. Topped(S)
  BY <1>1, FS_CardinalityType
<1> QED BY <1>2 DEF Max

LEMMA FiniteImage ==
  ASSUME NEW S, IsFiniteSet(S), NEW f
  PROVE  IsFiniteSet({f[x] : x \in S})
<1> DEFINE g == [x \in S |-> f[x]]
<1>1. g \in Surjection(S, {f[x] : x \in S})
  BY DEF Surjection
<1> QED BY <1>1, FS_Surjection DEF ExistsSurjection

LEMMA SequenceOfSet ==
  ASSUME NEW S, IsFiniteSet(S)
  PROVE  /\ Cardinality(S) \in Nat
         /\ SetToSeq(S) \in [1..Cardinality(S) -> S]
         /\ IsInjective(SetToSeq(S))
         /\ \A x \in S : \E i \in 1..Cardinality(S) : SetToSeq(S)[i] = x
<1>1. Cardinality(S) \in Nat
  BY FS_CardinalityType
<1>2. ExistsBijection(1..Cardinality(S), S)
  BY FS_CardinalityType
<1>3. PICK f \in [1..Cardinality(S) -> S] : IsInjective(f)
  BY <1>2 DEF ExistsBijection, Bijection, Injection, IsInjective
<1>4. SetToSeq(S) \in [1..Cardinality(S) -> S] /\ IsInjective(SetToSeq(S))
  BY <1>3 DEF SetToSeq
<1>5. SetToSeq(S) \in Injection(1..Cardinality(S), S)
  BY <1>4 DEF Injection, IsInjective
<1>6. SetToSeq(S) \in Surjection(1..Cardinality(S), S)
  <2>1. IsFiniteSet(1..Cardinality(S)) /\ Cardinality(1..Cardinality(S)) = Cardinality(S)
    BY <1>1, FS_Interval
  <2> QED BY <1>5, <2>1, FS_Injection
<1> QED BY <1>1, <1>4, <1>6 DEF Surjection

-----------------------------------------------------------------------------
(* What stays in step while others act.                                    *)

\* No account goes, and one that has signed in keeps its subject.
UsersGoOn ==
  /\ DOMAIN users \subseteq DOMAIN users'
  /\ \A u \in DOMAIN users : users[u].sub # Nobody => users'[u].sub = users[u].sub

\* What a call in progress has read holds after the step as well.
CallsGoOn == \A s \in Session : \A c : c = call[s] => CallHolds(c)'

LEMMA TitlesStay ==
  ASSUME TitlesApart, personal' = personal, ordinary' = ordinary
  PROVE  TitlesApart'
BY DEF TitlesApart, Titles, Slugs

LEMMA AccountsStay ==
  ASSUME AccountsInStep, UNCHANGED accountVars
  PROVE  AccountsInStep' /\ UsersGoOn
<1>1. perun' = perun /\ users' = users /\ personal' = personal /\ ordinary' = ordinary /\ cached' = cached
  BY DEF accountVars
<1>2. PerunInStep'
  BY <1>1 DEF AccountsInStep, PerunInStep
<1>3. RowsAreApart' /\ SignedInAreOwn'
  BY <1>1 DEF AccountsInStep, RowsAreApart, SignedInAreOwn, Own, SlugsOf
<1>4. TitlesApart'
  BY <1>1, TitlesStay DEF AccountsInStep
<1> QED BY <1>1, <1>2, <1>3, <1>4 DEF AccountsInStep, UsersGoOn, UserRow

LEMMA MembersStay ==
  ASSUME MembersInStep, UsersGoOn, UNCHANGED memberVars, Waiting' = Waiting
  PROVE  MembersInStep'
<1>1. /\ projects' = projects /\ members' = members /\ queue' = queue
      /\ sent' = sent /\ joined' = joined /\ lost' = lost
  BY DEF memberVars
<1>2. \A pr \in Project : projects[pr] \in ProjectRow'
  BY DEF MembersInStep, ProjectRow, UsersGoOn
<1>3. DOMAIN members \subseteq Project \X DOMAIN users'
  BY DEF MembersInStep, UsersGoOn
<1>4. PendingIsInvited' /\ InvitedHasRow'
  BY <1>1 DEF MembersInStep, PendingIsInvited, InvitedHasRow
<1>5. ActiveHasJoined'
  <2> SUFFICES ASSUME NEW m \in DOMAIN members, members[m].status = "active"
               PROVE  <<m[1], users'[m[2]].sub>> \in joined
    BY <1>1 DEF ActiveHasJoined
  <2>1. <<m[1], users[m[2]].sub>> \in joined /\ m[2] \in DOMAIN users
    BY DEF MembersInStep, ActiveHasJoined
  <2>2. users[m[2]].sub # Nobody
    BY <2>1, AccountsAssumption DEF MembersInStep
  <2> QED BY <2>1, <2>2 DEF UsersGoOn
<1>6. projects' \in [Project -> ProjectRow']
  BY <1>1, <1>2 DEF MembersInStep
<1> QED BY <1>1, <1>3, <1>4, <1>5, <1>6 DEF MembersInStep, MemberRow

LEMMA PublicationsStay ==
  ASSUME PublicationsInStep, UsersGoOn, UNCHANGED publicationVars
  PROVE  PublicationsInStep'
<1>1. pubs' = pubs /\ links' = links
  BY DEF publicationVars
<1>2. \A k \in DOMAIN pubs : pubs[k] \in PublicationRow'
  BY DEF PublicationsInStep, PublicationRow, UsersGoOn, Uid
<1> QED BY <1>1, <1>2 DEF PublicationsInStep, Link

LEMMA CatalogueStays ==
  ASSUME CatalogueInStep, UNCHANGED catalogueVars
  PROVE  CatalogueInStep'
<1>1. attributeTypes' = attributeTypes /\ resources' = resources /\ attributes' = attributes
  BY DEF catalogueVars
<1>2. CatalogueTypeOK'
  BY <1>1 DEF CatalogueInStep, CatalogueTypeOK, AttributeTypeRow, ResourceRow, AttributeRow
<1> QED BY <1>1, <1>2 DEF CatalogueInStep, AttributeTypeRow, ResourceRow

LEMMA OrcidsStay ==
  ASSUME OrcidsTypeOK, UsersGoOn, UNCHANGED orcids
  PROVE  OrcidsTypeOK'
BY DEF OrcidsTypeOK, UsersGoOn, OrcidRow, NamedOf

LEMMA QuietCalls ==
  ASSUME CallsInStep, UNCHANGED <<perun, users, pubs>>
  PROVE  CallsGoOn
<1> SUFFICES ASSUME NEW c, CallHolds(c) PROVE CallHolds(c)'
  BY DEF CallsGoOn, CallsInStep
<1>1. SignInHolds(c)'
  BY DEF CallHolds, SignInHolds, Own
<1>2. InvitesHold(c)' /\ CatalogueCallHolds(c)'
  BY DEF CallHolds, InvitesHold, CatalogueCallHolds
<1>3. PubCallHolds(c)'
  BY DEF CallHolds, PubCallHolds
<1>4. NoticeHolds(c)'
  BY DEF CallHolds, NoticeHolds, NamedOf, Entries
<1> QED BY <1>1, <1>2, <1>3, <1>4 DEF CallHolds

LEMMA SameCalls ==
  ASSUME CallsInStep, CallsGoOn, call' = call
  PROVE  CallsInStep'
BY DEF CallsInStep, CallsGoOn

LEMMA OneCall ==
  ASSUME CallsInStep, CallsGoOn, NEW s \in Session, NEW c, CallHolds(c)', call' = [call EXCEPT ![s] = c]
  PROVE  CallsInStep'
<1>1. call' = [t \in Session |-> IF t = s THEN c ELSE call[t]]
  BY DEF CallsInStep
<1>2. call' = [t \in Session |-> call'[t]]
  BY <1>1
<1>3. ASSUME NEW t \in Session PROVE CallHolds(call[t])'
  <2>1. PICK d : d = call'[t]
    OBVIOUS
  <2>2. CallHolds(d)'
    BY <1>1, <2>1 DEF CallsGoOn
  <2> QED BY <2>1, <2>2
<1> QED BY <1>2, <1>3 DEF CallsInStep

LEMMA NoCallHolds ==
  CallHolds(NoCall) /\ CallHolds(NoCall)'
BY DEF CallHolds, NoCall, SignInHolds, InvitesHold, PubCallHolds, CatalogueCallHolds, NoticeHolds

LEMMA EndedCall ==
  ASSUME CallsInStep, CallsGoOn, NEW s \in Session, End(s)
  PROVE  CallsInStep'
BY OneCall, NoCallHolds DEF End, Become

LEMMA WaitingKept ==
  ASSUME queue' = queue, call' = call
  PROVE  Waiting' = Waiting
BY DEF Waiting

LEMMA WaitingStays ==
  ASSUME CallsInStep, queue' = queue, NEW s \in Session, NEW c, call' = [call EXCEPT ![s] = c],
         call[s].op # "invite", c.op # "invite"
  PROVE  Waiting' = Waiting
<1>1. call' = [t \in Session |-> IF t = s THEN c ELSE call[t]]
  BY DEF CallsInStep
<1>2. {t \in Session : call'[t].op = "invite"} = {t \in Session : call[t].op = "invite"}
  BY <1>1
<1>3. \A t \in {r \in Session : call[r].op = "invite"} : call'[t] = call[t]
  BY <1>1
<1>4. {call'[t] : t \in {r \in Session : call'[r].op = "invite"}} = {call[t] : t \in {r \in Session : call[r].op = "invite"}}
  BY <1>2, <1>3
<1> QED BY <1>4 DEF Waiting

-----------------------------------------------------------------------------
(* Accounts.                                                               *)

\* No two people ever had one address.
LEMMA AddressesApart ==
  ASSUME PerunInStep, NEW p \in Person, NEW q \in Person, NEW a, Own(p, a), Own(q, a)
  PROVE  p = q
BY AccountsAssumption DEF PerunInStep, Own

LEMMA KnownHaveRows ==
  ASSUME AccountsInStep, NEW p \in Known
  PROVE  /\ p \in Person /\ UserOf(p) \in DOMAIN users /\ users[UserOf(p)].sub = p
         /\ UserOf(p) \in Nat /\ UserOf(p) \in DOMAIN personal
<1>1. PICK u \in DOMAIN users : users[u].sub = p /\ p # Nobody
  BY DEF Known
<1>2. UserOf(p) \in BySub(p)
  BY <1>1 DEF UserOf, BySub
<1>3. UserOf(p) \in DOMAIN users /\ users[UserOf(p)].sub = p
  BY <1>2 DEF BySub
<1>4. users[u] \in UserRow /\ DOMAIN users \subseteq Nat
  BY DEF AccountsInStep
<1> QED BY <1>1, <1>3, <1>4 DEF AccountsInStep, UserRow

\* When only accounts change, what the rest says of them goes on.
LEMMA OutsideAccounts ==
  ASSUME WorkspaceInStep, UsersGoOn, Waiting' = Waiting,
         UNCHANGED <<memberVars, publicationVars, catalogueVars, orcids>>
  PROVE  MembersInStep' /\ PublicationsInStep' /\ CatalogueInStep' /\ OrcidsTypeOK'
BY MembersStay, PublicationsStay, CatalogueStays, OrcidsStay DEF WorkspaceInStep

LEMMA RequestStep ==
  ASSUME WorkspaceInStep, NEW p \in Person, Request(p) \/ Expire(p),
         UNCHANGED <<memberVars, publicationVars, catalogueVars, orcids>>
  PROVE  WorkspaceInStep'
<1>1. /\ call' = call /\ perun' = perun /\ users' = users /\ personal' = personal
      /\ ordinary' = ordinary /\ cached' \subseteq Person
  BY DEF Request, Expire, Once, callVars, WorkspaceInStep, AccountsInStep
<1>2. PerunInStep' /\ RowsAreApart' /\ SignedInAreOwn'
  BY <1>1 DEF WorkspaceInStep, AccountsInStep, PerunInStep, RowsAreApart, SignedInAreOwn, Own, SlugsOf
<1>3. AccountsInStep' /\ UsersGoOn
  <2>1. TitlesApart'
    BY <1>1, TitlesStay DEF WorkspaceInStep, AccountsInStep
  <2> QED BY <1>1, <1>2, <2>1 DEF WorkspaceInStep, AccountsInStep, UsersGoOn, UserRow
<1>4. Waiting' = Waiting
  BY <1>1, WaitingKept DEF memberVars
<1>5. CallsInStep'
  BY <1>1, QuietCalls, SameCalls DEF WorkspaceInStep, publicationVars
<1> QED BY <1>3, <1>4, <1>5, OutsideAccounts DEF WorkspaceInStep

\* A requested project takes a title and a slug that were free.
LEMMA ProjectStep ==
  ASSUME WorkspaceInStep, NEW t \in Title,
         RequestProject(t) \/ \E old \in Title : RequestProjectAgain(old, t),
         UNCHANGED <<memberVars, publicationVars, catalogueVars, orcids>>
  PROVE  WorkspaceInStep'
<1>1. PICK mine \in SUBSET ordinary : /\ Free(t, mine) /\ Once("accounts")
                                     /\ ordinary' = (ordinary \ mine) \cup {t}
                                     /\ UNCHANGED <<perun, users, personal, cached>>
  <2>1. CASE RequestProject(t)
    <3>1. ordinary' = (ordinary \ {}) \cup {t} /\ Free(t, {}) /\ Once("accounts") /\ UNCHANGED <<perun, users, personal, cached>>
      BY <2>1 DEF RequestProject
    <3> QED BY <3>1
  <2>2. CASE \E old \in Title : RequestProjectAgain(old, t)
    BY <2>2 DEF RequestProjectAgain
  <2> QED BY <2>1, <2>2
<1>2. call' = call
  BY <1>1 DEF Once
<1>3. TitlesApart /\ ordinary \subseteq Title
  BY DEF WorkspaceInStep, AccountsInStep
<1>4. \A other \in ordinary' : other = t \/ (other \in ordinary /\ SlugOf[other] # SlugOf[t])
  BY <1>1 DEF Free
<1>5. TitlesApart'
  <2>1. ASSUME NEW u \in DOMAIN personal
        PROVE  personal[u].title \notin Titles(u)' /\ personal[u].slug \notin Slugs(u)'
    <3>1. personal[u].title # t /\ personal[u].slug # SlugOf[t]
      BY <1>1 DEF Free
    <3>2. personal[u].title \notin Titles(u) /\ personal[u].slug \notin Slugs(u)
      BY <1>3 DEF TitlesApart
    <3> QED BY <1>1, <1>4, <3>1, <3>2 DEF Titles, Slugs
  <2>2. \A r, other \in ordinary' : SlugOf[r] = SlugOf[other] => r = other
    BY <1>3, <1>4 DEF TitlesApart
  <2> QED BY <1>1, <2>1, <2>2 DEF TitlesApart
<1>6. PerunInStep' /\ RowsAreApart' /\ SignedInAreOwn'
  BY <1>1 DEF WorkspaceInStep, AccountsInStep, PerunInStep, RowsAreApart, SignedInAreOwn, Own, SlugsOf
<1>7. AccountsInStep' /\ UsersGoOn
  BY <1>1, <1>3, <1>5, <1>6 DEF WorkspaceInStep, AccountsInStep, UsersGoOn, UserRow
<1>8. Waiting' = Waiting
  BY <1>2, WaitingKept DEF memberVars
<1>9. CallsInStep'
  BY <1>1, <1>2, QuietCalls, SameCalls DEF WorkspaceInStep, publicationVars
<1> QED BY <1>7, <1>8, <1>9, OutsideAccounts DEF WorkspaceInStep

\* Someone who moves has had both addresses.
LEMMA MoveStep ==
  ASSUME WorkspaceInStep, NEW p \in Person, Move(p),
         UNCHANGED <<memberVars, publicationVars, catalogueVars, orcids>>
  PROVE  WorkspaceInStep'
<1>1. /\ call' = call /\ users' = users /\ personal' = personal /\ ordinary' = ordinary /\ cached' = cached
      /\ perun' = [perun EXCEPT ![p].address = NewAddress[p]] /\ perun[p].address # NewAddress[p]
  BY DEF Move, Once
<1>2. PerunInStep /\ AccountsInStep
  BY DEF WorkspaceInStep, AccountsInStep
<1>3. \A q \in Person : perun'[q] = [address |-> IF q = p THEN NewAddress[p] ELSE perun[q].address,
                                     entitled |-> perun[q].entitled]
  BY <1>1, <1>2 DEF PerunInStep
<1>4. DOMAIN perun' = Person
  BY <1>1, <1>2 DEF PerunInStep
<1>5. \A q \in Person : /\ perun'[q].address = IF q = p THEN NewAddress[p] ELSE perun[q].address
                        /\ perun'[q].entitled = perun[q].entitled
  <2> TAKE q \in Person
  <2>1. PICK a, e : a = (IF q = p THEN NewAddress[p] ELSE perun[q].address) /\ e = perun[q].entitled
    OBVIOUS
  <2>2. perun'[q] = [address |-> a, entitled |-> e]
    BY <1>3, <2>1
  <2> QED BY <2>1, <2>2
<1>6. PerunInStep'
  <2>1. perun' = [q \in Person |-> [address |-> perun'[q].address, entitled |-> perun'[q].entitled]]
    BY <1>1, <1>2, <1>3, <1>5 DEF PerunInStep
  <2> QED BY <1>2, <1>5, <2>1 DEF PerunInStep
<1>7. \A q \in Person : \A a : Own(q, a) => Own(q, a)'
  BY <1>1, <1>2, <1>5 DEF Own, PerunInStep
<1>8. \A q \in Person : SlugsOf(q) \subseteq SlugsOf(q)'
  BY <1>1, <1>2, <1>5 DEF SlugsOf, PerunInStep
<1>9. RowsAreApart' /\ SignedInAreOwn'
  <2>1. RowsAreApart'
    BY <1>1, <1>2 DEF AccountsInStep, RowsAreApart
  <2>2. \A u \in DOMAIN users : users[u].sub # Nobody => users[u].sub \in Person
    BY <1>2 DEF AccountsInStep, UserRow
  <2> QED BY <1>1, <1>2, <1>7, <1>8, <2>1, <2>2 DEF AccountsInStep, SignedInAreOwn
<1>10. AccountsInStep' /\ UsersGoOn
  <2>1. TitlesApart'
    BY <1>1, <1>2, TitlesStay DEF AccountsInStep
  <2> QED BY <1>1, <1>2, <1>6, <1>9, <2>1 DEF AccountsInStep, UsersGoOn, UserRow
<1>11. Waiting' = Waiting
  BY <1>1, WaitingKept DEF memberVars
<1>12. CallsGoOn
  <2> SUFFICES ASSUME NEW c, CallHolds(c) PROVE CallHolds(c)'
    BY DEF CallsGoOn, CallsInStep, WorkspaceInStep
  <2>1. SignInHolds(c)'
    BY <1>1, <1>7 DEF CallHolds, SignInHolds
  <2>2. InvitesHold(c)' /\ CatalogueCallHolds(c)'
    BY DEF CallHolds, InvitesHold, CatalogueCallHolds
  <2>3. PubCallHolds(c)'
    BY DEF CallHolds, PubCallHolds, publicationVars
  <2>4. NoticeHolds(c)'
    BY <1>1 DEF CallHolds, NoticeHolds, NamedOf, Entries
  <2> QED BY <2>1, <2>2, <2>3, <2>4 DEF CallHolds
<1>13. CallsInStep'
  BY <1>1, <1>12, SameCalls DEF WorkspaceInStep
<1> QED BY <1>10, <1>11, <1>13, OutsideAccounts DEF WorkspaceInStep

LEMMA SignInReadStep ==
  ASSUME WorkspaceInStep, NEW s \in Session, NEW p \in Person, SignInRead(s, p),
         UNCHANGED <<memberVars, publicationVars, catalogueVars, orcids>>
  PROVE  WorkspaceInStep'
<1>1. PICK profile : profile = Profile(p)
  OBVIOUS
<1>2. PICK found : found = Found(profile)
  OBVIOUS
<1>3. PICK c : c = [op |-> "sign_in", profile |-> profile, found |-> found]
  OBVIOUS
<1>4. /\ call[s] = NoCall /\ call' = [call EXCEPT ![s] = c] /\ UNCHANGED accountVars
  BY <1>1, <1>2, <1>3 DEF SignInRead, Begin
<1>5. AccountsInStep /\ PerunInStep /\ SignedInAreOwn
  BY DEF WorkspaceInStep, AccountsInStep
<1>6. profile.sub \in Person /\ Own(profile.sub, profile.email)
  <2>1. CASE p \in Known /\ profile = RowProfile(UserOf(p))
    <3>1. profile.sub = users[UserOf(p)].sub /\ profile.email = users[UserOf(p)].email
      BY <2>1 DEF RowProfile
    <3> QED BY <2>1, <3>1, <1>5, KnownHaveRows, AccountsAssumption DEF SignedInAreOwn
  <2>2. CASE profile = PerunProfile(p)
    BY <2>2 DEF PerunProfile, Own
  <2> QED BY <1>1, <2>1, <2>2 DEF Profile
<1>7. \A u \in found : /\ u \in DOMAIN users
                       /\ \/ users[u].sub = profile.sub
                          \/ users[u].sub = Nobody /\ users[u].email = profile.email
  <2>1. CASE found = BySub(profile.sub)
    BY <2>1 DEF BySub
  <2>2. CASE found = ByEmail(profile.email)
    <3> SUFFICES ASSUME NEW u \in found, users[u].sub # Nobody
                 PROVE  users[u].sub = profile.sub
      BY <2>2 DEF ByEmail
    <3>1. u \in DOMAIN users /\ users[u].email = profile.email
      BY <2>2 DEF ByEmail
    <3>2. users[u].sub \in Person /\ Own(users[u].sub, profile.email)
      BY <3>1, <1>5 DEF AccountsInStep, SignedInAreOwn, UserRow
    <3> QED BY <3>2, <1>5, <1>6, AddressesApart
  <2> QED BY <1>2, <2>1, <2>2 DEF Found
<1>8. c.op = "sign_in" /\ c.profile = profile /\ c.found = found
  BY <1>3
<1>9. CallHolds(c)
  BY <1>6, <1>7, <1>8 DEF CallHolds, SignInHolds, InvitesHold, PubCallHolds, CatalogueCallHolds, NoticeHolds
<1>10. AccountsInStep' /\ UsersGoOn
  BY <1>4, <1>5, AccountsStay
<1>11. UNCHANGED <<perun, users, pubs>>
  BY <1>4 DEF accountVars, publicationVars
<1>12. Waiting' = Waiting
  <2>1. call[s].op # "invite" /\ c.op # "invite" /\ queue' = queue
    BY <1>4, <1>8 DEF NoCall, memberVars
  <2> QED BY <1>4, <2>1, WaitingStays DEF WorkspaceInStep
<1>13. CallHolds(c)'
  <2>1. SignInHolds(c)'
    BY <1>9, <1>11 DEF CallHolds, SignInHolds, Own
  <2> QED BY <2>1, <1>8 DEF CallHolds, InvitesHold, PubCallHolds, CatalogueCallHolds, NoticeHolds
<1>14. CallsInStep'
  BY <1>4, <1>11, <1>13, QuietCalls, OneCall DEF WorkspaceInStep
<1> QED BY <1>10, <1>12, <1>14, OutsideAccounts DEF WorkspaceInStep

\* The row a sign-in writes is a new one, its own, or the one that was invited.
LEMMA TargetIsItsOwn ==
  ASSUME AccountsInStep, NEW c, c.op = "sign_in", SignInHolds(c)
  PROVE  /\ \/ Target(c.found) \in DOMAIN users
            \/ Target(c.found) = Cardinality(DOMAIN users) + 1 /\ Target(c.found) \notin DOMAIN users
         /\ Target(c.found) \in DOMAIN users =>
              \/ users[Target(c.found)].sub = c.profile.sub
              \/ users[Target(c.found)].sub = Nobody /\ users[Target(c.found)].email = c.profile.email
<1>1. c.found \subseteq DOMAIN users /\ DOMAIN users \subseteq Nat
  BY DEF SignInHolds, AccountsInStep
<1>2. CASE c.found = {}
  <2>1. Target(c.found) = Cardinality(DOMAIN users) + 1
    BY <1>2 DEF Target
  <2>2. Target(c.found) \notin DOMAIN users
    BY <2>1 DEF AccountsInStep
  <2> QED BY <2>1, <2>2
<1>3. CASE c.found # {}
  <2>1. Target(c.found) = Min(c.found)
    BY <1>3 DEF Target
  <2>2. Target(c.found) \in c.found
    BY <1>1, <1>3, <2>1, LeastIsMember
  <2> QED BY <1>1, <2>2 DEF SignInHolds
<1> QED BY <1>2, <1>3

\* A personal project is written under a title, and a new one under a slug, that no other project has.
LEMMA PersonalTitle ==
  ASSUME TitlesApart, NEW u, NEW a, ~TitleTaken(u, a),
         personal' = Put(personal, u, PersonalProject(u, a)), ordinary' = ordinary
  PROVE  TitlesApart'
<1>1. PICK own : own = PersonalProject(u, a)
  OBVIOUS
<1>2. own.title = a /\ own.slug = IF HasPersonal(u) THEN personal[u].slug ELSE SlugOf[a]
  BY <1>1 DEF PersonalProject
<1>3. own.title \notin Titles(u) /\ own.slug \notin Slugs(u)
  BY <1>2 DEF TitleTaken, TitlesApart, HasPersonal
<1>4. /\ DOMAIN personal' = DOMAIN personal \cup {u} /\ personal'[u] = own
      /\ \A v \in DOMAIN personal \ {u} : personal'[v] = personal[v]
  BY <1>1 DEF Put
<1>5. Titles(u)' = Titles(u) /\ Slugs(u)' = Slugs(u)
  <2>1. DOMAIN personal' \ {u} = DOMAIN personal \ {u}
    BY <1>4
  <2> QED BY <1>4, <2>1 DEF Titles, Slugs
<1>6. ASSUME NEW v \in DOMAIN personal', v # u
      PROVE  personal'[v].title \notin Titles(v)' /\ personal'[v].slug \notin Slugs(v)'
  <2>1. v \in DOMAIN personal /\ personal'[v] = personal[v]
    BY <1>4, <1>6
  <2>2. personal[v].title \notin Titles(v) /\ personal[v].slug \notin Slugs(v)
    BY <2>1 DEF TitlesApart
  <2>3. personal[v].title # own.title /\ personal[v].slug # own.slug
    BY <1>3, <1>6, <2>1 DEF Titles, Slugs
  <2>4. \A w \in DOMAIN personal' \ {v} : w = u \/ (w \in DOMAIN personal \ {v} /\ personal'[w] = personal[w])
    BY <1>4
  <2>5. \A w \in DOMAIN personal' \ {v} : /\ personal'[w].title # personal[v].title
                                          /\ personal'[w].slug # personal[v].slug
    BY <1>4, <2>2, <2>3, <2>4 DEF Titles, Slugs
  <2>6. personal[v].title \notin ordinary /\ personal[v].slug \notin {SlugOf[t] : t \in ordinary}
    BY <2>2 DEF Titles, Slugs
  <2> QED BY <2>1, <2>5, <2>6 DEF Titles, Slugs
<1>7. personal'[u].title \notin Titles(u)' /\ personal'[u].slug \notin Slugs(u)'
  BY <1>3, <1>4, <1>5
<1> QED BY <1>6, <1>7 DEF TitlesApart

LEMMA SignInWriteStep ==
  ASSUME WorkspaceInStep, NEW s \in Session, SignInWrite(s),
         UNCHANGED <<memberVars, publicationVars, catalogueVars, orcids>>
  PROVE  WorkspaceInStep'
<1>1. PICK c : c = call[s]
  OBVIOUS
<1>2. PICK a, p : a = c.profile.email /\ p = c.profile.sub
  OBVIOUS
<1>3. PICK u : u = Target(c.found)
  OBVIOUS
<1>4. PICK row : row = [sub |-> p, email |-> a, role |-> RoleOf(c.profile.entitled)]
  OBVIOUS
<1>5. PICK own : own = PersonalProject(u, a)
  OBVIOUS
<1>6. /\ c.op = "sign_in" /\ End(s) /\ perun' = perun /\ ordinary' = ordinary /\ cached' = cached
      /\ \/ UNCHANGED <<users, personal>>
         \/ /\ users' = Put(users, u, row) /\ personal' = Put(personal, u, own)
            /\ \A v \in DOMAIN users \ {u} : users[v].sub # p /\ users[v].email # a
            /\ ~TitleTaken(u, a)
  BY <1>1, <1>2, <1>3, <1>4, <1>5 DEF SignInWrite, LoginTaken
<1>7. AccountsInStep /\ CallsInStep /\ SignInHolds(c)
  BY <1>1 DEF WorkspaceInStep, CallsInStep, CallHolds
<1>8. p \in Person /\ Own(p, a)
  BY <1>2, <1>6, <1>7 DEF SignInHolds
<1>9. Waiting' = Waiting
  <2>1. call[s].op # "invite" /\ NoCall.op # "invite" /\ queue' = queue
    BY <1>1, <1>6 DEF NoCall, memberVars
  <2> QED BY <1>6, <1>7, <2>1, WaitingStays DEF End, Become
<1>10. CASE UNCHANGED <<users, personal>>
  <2>1. AccountsInStep' /\ UsersGoOn
    BY <1>6, <1>7, <1>10, AccountsStay DEF accountVars
  <2>2. CallsInStep'
    BY <1>6, <1>7, <1>10, QuietCalls, EndedCall DEF publicationVars
  <2> QED BY <1>9, <2>1, <2>2, OutsideAccounts DEF WorkspaceInStep
<1>11. CASE /\ users' = Put(users, u, row) /\ personal' = Put(personal, u, own)
            /\ \A v \in DOMAIN users \ {u} : users[v].sub # p /\ users[v].email # a
            /\ ~TitleTaken(u, a)
  <2>1. /\ u \in DOMAIN users \/ (u = Cardinality(DOMAIN users) + 1 /\ u \notin DOMAIN users)
        /\ u \in DOMAIN users => users[u].sub = p \/ (users[u].sub = Nobody /\ users[u].email = a)
    BY <1>2, <1>3, <1>6, <1>7, TargetIsItsOwn
  <2>2. row \in UserRow /\ row.sub = p /\ row.email = a
    <3>1. a \in Address
      BY <1>7, <1>8, AccountsAssumption DEF AccountsInStep, PerunInStep, Own
    <3>2. RoleOf(c.profile.entitled) \in Role
      BY DEF RoleOf, Role
    <3> QED BY <1>4, <1>8, <3>1, <3>2 DEF UserRow
  <2>3. /\ DOMAIN users' = DOMAIN users \cup {u}
        /\ users' \in [DOMAIN users' -> UserRow]
        /\ users'[u] = row /\ \A v \in DOMAIN users \ {u} : users'[v] = users[v]
    BY <1>7, <1>11, <2>2 DEF Put, AccountsInStep
  <2>4. Cardinality(DOMAIN users') \in Nat /\ DOMAIN users' = 1..Cardinality(DOMAIN users')
    <3>1. PICK n \in Nat : n = Cardinality(DOMAIN users) /\ DOMAIN users = 1..n
      BY <1>7 DEF AccountsInStep
    <3>2. PICK m \in Nat : DOMAIN users' = 1..m
      <4>1. CASE u \in DOMAIN users
        BY <2>3, <3>1, <4>1
      <4>2. CASE u = n + 1
        <5>1. 1..(n + 1) = 1..n \cup {u}
          BY <4>2
        <5>2. DOMAIN users' = DOMAIN users \cup {u} /\ DOMAIN users = 1..n
          BY <2>3, <3>1
        <5>3. DOMAIN users' = 1..(n + 1)
          BY <5>1, <5>2, Zenon
        <5> QED BY <5>3
      <4> QED BY <2>1, <3>1, <4>1, <4>2
    <3>3. Cardinality(1..m) = m
      BY FS_Interval
    <3> QED BY <3>2, <3>3
  <2>5. p # Nobody
    BY <1>8, AccountsAssumption
  <2>6. UsersGoOn
    BY <2>1, <2>2, <2>3 DEF UsersGoOn
  <2>7. RowsAreApart'
    <3> SUFFICES ASSUME NEW v \in DOMAIN users', NEW w \in DOMAIN users', v # w
                 PROVE  users'[v].email # users'[w].email /\ (users'[v].sub = users'[w].sub => users'[v].sub = Nobody)
      BY DEF RowsAreApart
    <3>1. RowsAreApart
      BY <1>7 DEF AccountsInStep
    <3>2. CASE v = u
      BY <1>11, <2>2, <2>3, <3>2
    <3>3. CASE w = u
      BY <1>11, <2>2, <2>3, <3>3
    <3>4. CASE v # u /\ w # u
      BY <2>3, <3>1, <3>4 DEF RowsAreApart
    <3> QED BY <3>2, <3>3, <3>4
  <2>8. DOMAIN personal' = {v \in DOMAIN users' : users'[v].sub # Nobody}
    <3>1. DOMAIN personal' = DOMAIN personal \cup {u}
      BY <1>11 DEF Put
    <3>2. DOMAIN personal = {v \in DOMAIN users : users[v].sub # Nobody}
      BY <1>7 DEF AccountsInStep
    <3> QED BY <2>2, <2>3, <2>5, <3>1, <3>2
  <2>9. SignedInAreOwn'
    <3>1. /\ personal'[u] = own
          /\ \A v \in DOMAIN personal \ {u} : personal'[v] = personal[v]
      BY <1>11 DEF Put
    <3>2. own.title = a /\ own.slug \in SlugsOf(p)
      <4>1. own.title = a /\ own.slug = IF HasPersonal(u) THEN personal[u].slug ELSE SlugOf[a]
        BY <1>5 DEF PersonalProject
      <4>2. CASE HasPersonal(u)
        <5>1. u \in DOMAIN users /\ users[u].sub # Nobody
          BY <1>7, <4>2 DEF HasPersonal, AccountsInStep
        <5> QED BY <1>7, <2>1, <4>1, <4>2, <5>1 DEF AccountsInStep, SignedInAreOwn
      <4>3. CASE ~HasPersonal(u)
        BY <1>8, <4>1, <4>3 DEF Own, SlugsOf
      <4> QED BY <4>1, <4>2, <4>3
    <3> SUFFICES ASSUME NEW v \in DOMAIN users', users'[v].sub # Nobody
                 PROVE  /\ Own(users[v].sub, users[v].email)'
                        /\ personal'[v].title = users'[v].email
                        /\ (personal[v].slug \in SlugsOf(users[v].sub))'
      BY DEF SignedInAreOwn
    <3>3. CASE v = u
      BY <1>6, <1>8, <2>2, <2>3, <3>1, <3>2, <3>3 DEF Own, SlugsOf
    <3>4. CASE v # u
      <4>1. v \in DOMAIN users /\ users'[v] = users[v] /\ personal'[v] = personal[v]
        BY <1>7, <2>3, <3>1, <3>4 DEF AccountsInStep
      <4>2. users[v].sub # Nobody /\ SignedInAreOwn /\ perun' = perun
        BY <1>6, <1>7, <4>1 DEF AccountsInStep
      <4> QED BY <4>1, <4>2 DEF SignedInAreOwn, Own, SlugsOf
    <3> QED BY <3>3, <3>4
  <2>10. AccountsInStep'
    <3>1. PerunInStep'
      BY <1>6, <1>7 DEF AccountsInStep, PerunInStep
    <3>2. TitlesApart'
      BY <1>5, <1>6, <1>7, <1>11, PersonalTitle DEF AccountsInStep
    <3> QED BY <1>6, <1>7, <2>3, <2>4, <2>7, <2>8, <2>9, <3>1, <3>2 DEF AccountsInStep, UserRow
  <2>11. CallsGoOn
    <3> SUFFICES ASSUME NEW d, CallHolds(d) PROVE CallHolds(d)'
      BY <1>7 DEF CallsGoOn, CallsInStep
    <3>1. SignInHolds(d)'
      <4> SUFFICES ASSUME d.op = "sign_in" PROVE SignInHolds(d)'
        BY DEF SignInHolds
      <4>1. /\ d.profile.sub \in Person /\ Own(d.profile.sub, d.profile.email)
            /\ d.found \subseteq DOMAIN users
            /\ \A v \in d.found : \/ users[v].sub = d.profile.sub
                                  \/ users[v].sub = Nobody /\ users[v].email = d.profile.email
        BY DEF CallHolds, SignInHolds
      <4>2. ASSUME NEW v \in d.found
            PROVE  \/ users'[v].sub = d.profile.sub
                   \/ users'[v].sub = Nobody /\ users'[v].email = d.profile.email
        <5>1. CASE users[v].sub = d.profile.sub
          BY <4>1, <5>1, <2>6, AccountsAssumption DEF UsersGoOn
        <5>2. CASE users[v].sub = Nobody /\ users[v].email = d.profile.email
          <6>1. CASE v = u
            <7>1. users[u].email = a
              BY <2>1, <2>5, <4>1, <5>2, <6>1
            <7>2. d.profile.sub = p
              BY <1>7, <1>8, <4>1, <5>2, <6>1, <7>1, AddressesApart DEF AccountsInStep
            <7> QED BY <2>2, <2>3, <6>1, <7>2
          <6>2. CASE v # u
            BY <2>3, <4>1, <5>2, <6>2
          <6> QED BY <6>1, <6>2
        <5> QED BY <4>1, <5>1, <5>2
      <4> QED BY <1>6, <2>3, <4>1, <4>2 DEF SignInHolds, Own
    <3>2. InvitesHold(d)' /\ CatalogueCallHolds(d)'
      BY DEF CallHolds, InvitesHold, CatalogueCallHolds
    <3>3. PubCallHolds(d)'
      BY DEF CallHolds, PubCallHolds, publicationVars
    <3>4. NoticeHolds(d)'
      BY <2>6 DEF CallHolds, NoticeHolds, NamedOf, Entries, UsersGoOn
    <3> QED BY <3>1, <3>2, <3>3, <3>4 DEF CallHolds
  <2>12. CallsInStep'
    BY <1>6, <1>7, <2>11, EndedCall
  <2> QED BY <1>9, <2>6, <2>10, <2>12, OutsideAccounts DEF WorkspaceInStep
<1> QED BY <1>6, <1>10, <1>11

LEMMA AccountStepKeeps ==
  ASSUME WorkspaceInStep, AccountStep
  PROVE  WorkspaceInStep'
BY RequestStep, ProjectStep, MoveStep, SignInReadStep, SignInWriteStep DEF AccountStep

-----------------------------------------------------------------------------
(* Members.                                                                *)

LEMMA WhoWaits ==
  ASSUME NEW i
  PROVE  /\ i \in Waiting <=> \/ \E j \in queue : i \in {j.project} \X j.emails
                              \/ \E s \in Session : call[s].op = "invite" /\ i \in {call[s].project} \X call[s].emails
         /\ i \in Waiting' <=> \/ \E j \in queue' : i \in {j.project} \X j.emails
                               \/ \E s \in Session : call'[s].op = "invite" /\ i \in {call'[s].project} \X call'[s].emails
BY DEF Waiting

\* An invitation is forgotten by nobody, and none appears.
InvitationsGoOn ==
  /\ Waiting' \cup sent' \subseteq Waiting \cup sent
  /\ Waiting \cup sent \cup lost \subseteq Waiting' \cup sent' \cup lost'

LEMMA InvitationsKeepRows ==
  ASSUME MembersInStep, InvitationsGoOn, UNCHANGED <<projects, members, joined, users>>,
         \A j \in queue' : j.project \in Project /\ j.emails \in (SUBSET Address) \ {{}}
  PROVE  MembersInStep'
<1>1. PendingIsInvited' /\ InvitedHasRow'
  BY DEF MembersInStep, PendingIsInvited, InvitedHasRow, InvitationsGoOn
<1>2. ActiveHasJoined'
  BY DEF MembersInStep, ActiveHasJoined
<1> QED BY <1>1, <1>2 DEF MembersInStep, ProjectRow, MemberRow

LEMMA QuietMembers ==
  ASSUME WorkspaceInStep, MembersInStep', CallsInStep', UNCHANGED <<accountVars, publicationVars, catalogueVars, orcids>>
  PROVE  WorkspaceInStep'
BY AccountsStay, PublicationsStay, CatalogueStays, OrcidsStay DEF WorkspaceInStep

LEMMA QuietOnce ==
  ASSUME WorkspaceInStep, UNCHANGED <<accountVars, publicationVars, call>>
  PROVE  CallsInStep'
BY QuietCalls, SameCalls DEF WorkspaceInStep, accountVars, publicationVars

LEMMA QuietEnd ==
  ASSUME WorkspaceInStep, UNCHANGED <<accountVars, publicationVars>>, NEW s \in Session, End(s)
  PROVE  CallsInStep'
BY QuietCalls, EndedCall DEF WorkspaceInStep, accountVars, publicationVars

\* A call that begins without an invitation leaves the invitations alone.
LEMMA QuietBegin ==
  ASSUME WorkspaceInStep, UNCHANGED <<accountVars, memberVars, publicationVars>>, NEW s \in Session, NEW c,
         call[s].op # "invite", c.op # "invite", CallHolds(c)', call' = [call EXCEPT ![s] = c]
  PROVE  CallsInStep' /\ MembersInStep'
<1>1. CallsInStep'
  BY QuietCalls, OneCall DEF WorkspaceInStep, accountVars, publicationVars
<1>2. Waiting' = Waiting
  BY WaitingStays DEF WorkspaceInStep, memberVars
<1>3. UsersGoOn
  BY AccountsStay DEF WorkspaceInStep
<1> QED BY <1>1, <1>2, <1>3, MembersStay DEF WorkspaceInStep

LEMMA AddReadStep ==
  ASSUME WorkspaceInStep, NEW s \in Session, NEW p, NEW stepUp, NEW pr \in Project, NEW batch \in Batch,
         AddRead(s, p, stepUp, pr, batch), UNCHANGED <<publicationVars, catalogueVars, orcids>>
  PROVE  WorkspaceInStep'
<1>1. PICK c : c = [op |-> "add", project |-> pr, batch |-> batch, existing |-> ExistingEmails(pr, batch)]
  OBVIOUS
<1>2. c.op = "add" /\ c.project = pr /\ c.batch = batch
  BY <1>1
<1>3. call[s].op # "invite" /\ call' = [call EXCEPT ![s] = c] /\ UNCHANGED <<accountVars, memberVars>>
  BY <1>1 DEF AddRead, Begin, NoCall
<1>4. CallHolds(c)'
  BY <1>2 DEF CallHolds, SignInHolds, InvitesHold, PubCallHolds, CatalogueCallHolds, NoticeHolds
<1> QED BY <1>2, <1>3, <1>4, QuietBegin, QuietMembers

\* The job takes the invitations over from the call.
LEMMA InviteStep ==
  ASSUME WorkspaceInStep, NEW s \in Session, Invite(s) \/ InviteFails(s),
         UNCHANGED <<publicationVars, catalogueVars, orcids>>
  PROVE  WorkspaceInStep'
<1>1. PICK c : c = call[s]
  OBVIOUS
<1>2. PICK job : job = Job(c.project, c.emails)
  OBVIOUS
<1>3. /\ c.op = "invite" /\ End(s) /\ UNCHANGED <<accountVars, projects, members, sent, joined>>
      /\ \/ queue' = queue \cup {job} /\ lost' = lost
         \/ queue' = queue /\ lost' = lost \cup ({c.project} \X c.emails)
  BY <1>1, <1>2 DEF Invite, InviteFails
<1>4. job.project = c.project /\ job.emails = c.emails
  BY <1>2 DEF Job
<1>5. InvitesHold(c) /\ call' = [t \in Session |-> IF t = s THEN NoCall ELSE call[t]]
  BY <1>1, <1>3 DEF WorkspaceInStep, CallsInStep, CallHolds, End, Become
<1>6. InvitationsGoOn
  <2>1. ASSUME NEW i, i \in Waiting'
        PROVE  i \in Waiting
    BY <1>1, <1>3, <1>4, <1>5, <2>1, WhoWaits DEF NoCall
  <2>2. ASSUME NEW i, i \in Waiting
        PROVE  i \in Waiting' \/ i \in lost'
    BY <1>1, <1>3, <1>4, <1>5, <2>2, WhoWaits
  <2> QED BY <1>3, <2>1, <2>2 DEF InvitationsGoOn
<1>7. MembersInStep'
  <2>1. \A j \in queue' : j.project \in Project /\ j.emails \in (SUBSET Address) \ {{}}
    BY <1>3, <1>4, <1>5 DEF WorkspaceInStep, MembersInStep, InvitesHold
  <2> QED BY <1>3, <1>6, <2>1, InvitationsKeepRows DEF WorkspaceInStep, accountVars
<1> QED BY <1>3, <1>7, QuietEnd, QuietMembers

\* What a job has sent and what has failed were waiting in it.
LEMMA SendStep ==
  ASSUME WorkspaceInStep, NEW job \in queue, Send(job), UNCHANGED <<publicationVars, catalogueVars, orcids>>
  PROVE  WorkspaceInStep'
<1>1. PICK ok \in SUBSET job.emails : /\ sent' = sent \cup ({job.project} \X ok)
                                      /\ lost' = lost \cup ({job.project} \X (job.emails \ ok))
  BY DEF Send, Delivered
<1>2. queue' = queue \ {job} /\ UNCHANGED <<accountVars, call, projects, members, joined>>
  BY DEF Send, callVars
<1>3. InvitationsGoOn
  <2>1. ASSUME NEW i, i \in Waiting'
        PROVE  i \in Waiting
    BY <1>2, <2>1, WhoWaits
  <2>2. ASSUME NEW i, i \in sent'
        PROVE  i \in Waiting \/ i \in sent
    BY <1>1, <2>2, WhoWaits
  <2>3. ASSUME NEW i, i \in Waiting
        PROVE  i \in Waiting' \/ i \in sent' \/ i \in lost'
    <3>1. CASE i \in {job.project} \X job.emails
      BY <1>1, <3>1
    <3>2. CASE i \notin {job.project} \X job.emails
      BY <1>2, <2>3, <3>2, WhoWaits
    <3> QED BY <3>1, <3>2
  <2> QED BY <1>1, <2>1, <2>2, <2>3 DEF InvitationsGoOn
<1>4. MembersInStep'
  <2>1. \A j \in queue' : j.project \in Project /\ j.emails \in (SUBSET Address) \ {{}}
    BY <1>2 DEF WorkspaceInStep, MembersInStep
  <2> QED BY <1>2, <1>3, <2>1, InvitationsKeepRows DEF WorkspaceInStep, accountVars
<1> QED BY <1>2, <1>4, QuietOnce, QuietMembers

LEMMA JoinStep ==
  ASSUME WorkspaceInStep, NEW pr \in Project, NEW p \in Person, Join(pr, p),
         UNCHANGED <<publicationVars, catalogueVars, orcids>>
  PROVE  WorkspaceInStep'
<1>1. joined' = joined \cup {<<pr, p>>} /\ UNCHANGED <<accountVars, call, projects, members, queue, sent, lost>>
  BY DEF Join, Once
<1>2. MembersInStep
  BY DEF WorkspaceInStep
<1>3. Waiting' = Waiting
  BY <1>1, WaitingKept
<1>4. PendingIsInvited' /\ InvitedHasRow' /\ ActiveHasJoined'
  BY <1>1, <1>2, <1>3 DEF MembersInStep, PendingIsInvited, InvitedHasRow, ActiveHasJoined, accountVars
<1>5. MembersInStep'
  BY <1>1, <1>2, <1>4 DEF MembersInStep, ProjectRow, MemberRow, accountVars
<1> QED BY <1>1, <1>5, QuietOnce, QuietMembers

\* A membership becomes active only for who has joined; its address and its key stay.
LEMMA MembershipChanges ==
  ASSUME MembersInStep, NEW m \in DOMAIN members, NEW status \in {"active", "removed"},
         members' = [members EXCEPT ![m].status = status],
         status = "active" => <<m[1], users[m[2]].sub>> \in joined,
         UNCHANGED <<projects, queue, sent, joined, lost, users, call>>
  PROVE  MembersInStep'
<1>1. members[m] \in MemberRow
  BY DEF MembersInStep
<1>2. DOMAIN members' = DOMAIN members /\ \A n \in DOMAIN members \ {m} : members'[n] = members[n]
  OBVIOUS
<1>3. members'[m] = [role |-> members[m].role, status |-> status, invited |-> members[m].invited]
  BY <1>1 DEF MemberRow
<1>4. /\ members'[m].status = status /\ members'[m].invited = members[m].invited
      /\ members'[m] \in MemberRow
  BY <1>1, <1>3 DEF MemberRow
<1>5. Waiting' = Waiting
  BY WaitingKept
<1>6. PendingIsInvited' /\ InvitedHasRow'
  BY <1>2, <1>4, <1>5 DEF MembersInStep, PendingIsInvited, InvitedHasRow
<1>7. ActiveHasJoined'
  BY <1>2, <1>4 DEF MembersInStep, ActiveHasJoined
<1>8. members' \in [DOMAIN members' -> MemberRow]
  BY <1>1, <1>2, <1>4 DEF MembersInStep
<1> QED BY <1>2, <1>6, <1>7, <1>8 DEF MembersInStep, ProjectRow, MemberRow

LEMMA AcceptStep ==
  ASSUME WorkspaceInStep, NEW pr \in Project, NEW p, AcceptInvitation(pr, p),
         UNCHANGED <<publicationVars, catalogueVars, orcids>>
  PROVE  WorkspaceInStep'
<1>1. PICK m : m = <<pr, UserOf(p)>>
  OBVIOUS
<1>2. /\ p \in Known /\ <<pr, p>> \in joined
      /\ members' = IF m \in DOMAIN members THEN [members EXCEPT ![m].status = "active"] ELSE members
      /\ UNCHANGED <<accountVars, call, projects, queue, sent, joined, lost>>
  BY <1>1 DEF AcceptInvitation, InGroup, Activate, Once
<1>3. users[UserOf(p)].sub = p
  BY <1>2, KnownHaveRows DEF WorkspaceInStep
<1>4. MembersInStep'
  <2>1. CASE m \in DOMAIN members
    <3>1. <<m[1], users[m[2]].sub>> \in joined
      BY <1>1, <1>2, <1>3
    <3> QED BY <1>2, <2>1, <3>1, MembershipChanges DEF WorkspaceInStep, accountVars
  <2>2. CASE m \notin DOMAIN members
    BY <1>2, <2>2, MembersStay, WaitingKept, AccountsStay DEF WorkspaceInStep, memberVars
  <2> QED BY <2>1, <2>2
<1> QED BY <1>2, <1>4, QuietOnce, QuietMembers

LEMMA DeleteMemberStep ==
  ASSUME WorkspaceInStep, NEW p, NEW stepUp, NEW m \in DOMAIN members, DeleteMember(p, stepUp, m),
         UNCHANGED <<publicationVars, catalogueVars, orcids>>
  PROVE  WorkspaceInStep'
<1>1. /\ members' = [members EXCEPT ![m].status = "removed"]
      /\ UNCHANGED <<accountVars, call, projects, queue, sent, joined, lost>>
  BY DEF DeleteMember, Once
<1>2. MembersInStep'
  BY <1>1, MembershipChanges DEF WorkspaceInStep, accountVars
<1> QED BY <1>1, <1>2, QuietOnce, QuietMembers

LEMMA DecideStep ==
  ASSUME WorkspaceInStep, NEW pr \in Project, NEW status \in {"new", "active", "rejected", "archived"},
         Decide(pr, status), UNCHANGED <<publicationVars, catalogueVars, orcids>>
  PROVE  WorkspaceInStep'
<1>1. /\ projects' = [projects EXCEPT ![pr].status = status, ![pr].group = @ \/ status = "active"]
      /\ UNCHANGED <<accountVars, call, members, queue, sent, joined, lost>>
  BY DEF Decide, Once
<1>2. MembersInStep /\ projects[pr] \in ProjectRow
  BY DEF WorkspaceInStep, MembersInStep
<1>3. PICK group : group = (projects[pr].group \/ status = "active")
  OBVIOUS
<1>4. projects'[pr] = [status |-> status, pi |-> projects[pr].pi, group |-> group]
  BY <1>1, <1>2, <1>3 DEF MembersInStep, ProjectRow
<1>5. projects' \in [Project -> ProjectRow]
  BY <1>1, <1>2, <1>3, <1>4 DEF MembersInStep, ProjectRow
<1>6. Waiting' = Waiting
  BY <1>1, WaitingKept
<1>7. PendingIsInvited' /\ InvitedHasRow' /\ ActiveHasJoined'
  BY <1>1, <1>2, <1>6 DEF MembersInStep, PendingIsInvited, InvitedHasRow, ActiveHasJoined, accountVars
<1>8. MembersInStep'
  BY <1>1, <1>2, <1>5, <1>7 DEF MembersInStep, ProjectRow, MemberRow, accountVars
<1> QED BY <1>1, <1>8, QuietOnce, QuietMembers

\* Every address invited has one row, the rows there were are as they were.
Completed(table, emails) ==
  /\ DOMAIN users \subseteq DOMAIN table /\ \A u \in DOMAIN users : table[u] = users[u]
  /\ Cardinality(DOMAIN table) \in Nat /\ DOMAIN table = 1..Cardinality(DOMAIN table)
  /\ table \in [DOMAIN table -> UserRow]
  /\ \A u \in DOMAIN table \ DOMAIN users :
       table[u].sub = Nobody /\ table[u].email \in emails /\ ByEmail(table[u].email) = {}
  /\ \A u, v \in DOMAIN table : u # v => table[u].email # table[v].email
  /\ \A a \in emails : \E u \in DOMAIN table : table[u].email = a

LEMMA Placeholders ==
  ASSUME AccountsInStep, NEW emails, emails \subseteq Address, IsFiniteSet(emails)
  PROVE  Completed(WithPlaceholders(emails), emails)
<1> PICK table : table = WithPlaceholders(emails)
  OBVIOUS
<1> DEFINE missing == {a \in emails : ByEmail(a) = {}}
<1>1. PICK unknown : unknown = SetToSeq(missing)
  OBVIOUS
<1>2. PICK n \in Nat : n = Cardinality(DOMAIN users) /\ DOMAIN users = 1..n
  BY DEF AccountsInStep
<1>3. IsFiniteSet(missing)
  BY FS_Subset
<1>4. PICK k \in Nat : /\ k = Cardinality(missing) /\ unknown \in [1..k -> missing] /\ IsInjective(unknown)
                       /\ \A a \in missing : \E i \in 1..k : unknown[i] = a
  <2> HIDE DEF missing
  <2>1. /\ Cardinality(missing) \in Nat /\ SetToSeq(missing) \in [1..Cardinality(missing) -> missing]
        /\ IsInjective(SetToSeq(missing))
        /\ \A a \in missing : \E i \in 1..Cardinality(missing) : SetToSeq(missing)[i] = a
    BY <1>3, SequenceOfSet
  <2>2. unknown = SetToSeq(missing)
    BY <1>1
  <2> QED BY <2>1, <2>2
<1>5. Len(unknown) = k
  <2>1. unknown \in Seq(missing)
    BY <1>4
  <2>2. DOMAIN unknown = 1..Len(unknown) /\ Len(unknown) \in Nat
    BY <2>1
  <2>3. DOMAIN unknown = 1..k
    BY <1>4
  <2>4. 1..k = 1..Len(unknown)
    BY <2>2, <2>3
  <2>5. PICK l \in Nat : l = Len(unknown)
    BY <2>2
  <2>6. (k > 0 => k \in 1..l) /\ (l > 0 => l \in 1..k)
    BY <2>4, <2>5
  <2> QED BY <2>5, <2>6
<1>6. PICK rows : rows = [u \in (n + 1)..(n + k) |-> [sub |-> Nobody, email |-> unknown[u - n], role |-> "user"]]
  OBVIOUS
<1>7. table = Extend(users, rows)
  BY <1>1, <1>2, <1>5, <1>6 DEF WithPlaceholders
<1>8. DOMAIN table = DOMAIN users \cup (n + 1)..(n + k) /\ \A u \in DOMAIN users : table[u] = users[u]
  BY <1>6, <1>7 DEF Extend
<1>9. DOMAIN table = 1..(n + k)
  <2>1. 1..n \cup (n + 1)..(n + k) = 1..(n + k)
    OBVIOUS
  <2>2. DOMAIN table = DOMAIN users \cup (n + 1)..(n + k) /\ DOMAIN users = 1..n
    BY <1>2, <1>8
  <2> QED BY <2>1, <2>2, Zenon
<1>10. Cardinality(DOMAIN table) = n + k /\ n + k \in Nat
  <2>1. PICK m \in Nat : m = n + k
    OBVIOUS
  <2>2. Cardinality(1..m) = m
    BY FS_Interval
  <2> QED BY <1>9, <2>1, <2>2
<1>11. \A u \in (n + 1)..(n + k) : u \notin DOMAIN users /\ u \in DOMAIN table
  <2>1. \A u \in (n + 1)..(n + k) : u \notin 1..n
    OBVIOUS
  <2>2. DOMAIN table = DOMAIN users \cup (n + 1)..(n + k) /\ DOMAIN users = 1..n
    BY <1>2, <1>8
  <2> QED BY <2>1, <2>2, Zenon
<1>12. ASSUME NEW u \in (n + 1)..(n + k)
       PROVE  /\ table[u].sub = Nobody /\ table[u].email = unknown[u - n] /\ table[u].role = "user"
              /\ u - n \in 1..k /\ unknown[u - n] \in missing /\ table[u] \in UserRow
  <2>1. table[u] = [sub |-> Nobody, email |-> unknown[u - n], role |-> "user"]
    BY <1>6, <1>7, <1>11 DEF Extend
  <2>2. u - n \in 1..k
    OBVIOUS
  <2>3. unknown[u - n] \in missing
    BY <1>4, <2>2
  <2> QED BY <2>1, <2>2, <2>3 DEF UserRow, Role
<1>13. table \in [DOMAIN table -> UserRow]
  <2>1. \A u \in DOMAIN table : table[u] \in UserRow
    BY <1>8, <1>12 DEF AccountsInStep
  <2>2. table = [u \in DOMAIN table |-> table[u]]
    BY <1>7 DEF Extend
  <2> QED BY <2>1, <2>2
<1>14. \A u \in DOMAIN table \ DOMAIN users :
         table[u].sub = Nobody /\ table[u].email \in emails /\ ByEmail(table[u].email) = {}
  BY <1>8, <1>12
<1>15. ASSUME NEW u \in DOMAIN table, NEW v \in DOMAIN table, u # v
       PROVE  table[u].email # table[v].email
  <2>1. CASE u \in DOMAIN users /\ v \in DOMAIN users
    BY <1>8, <1>15, <2>1 DEF AccountsInStep, RowsAreApart
  <2>2. CASE u \in DOMAIN users /\ v \notin DOMAIN users
    BY <1>8, <1>14, <2>2 DEF ByEmail
  <2>3. CASE u \notin DOMAIN users /\ v \in DOMAIN users
    BY <1>8, <1>14, <2>3 DEF ByEmail
  <2>4. CASE u \in (n + 1)..(n + k) /\ v \in (n + 1)..(n + k)
    <3>1. u - n \in DOMAIN unknown /\ v - n \in DOMAIN unknown /\ u - n # v - n
      BY <1>4, <1>12, <1>15, <2>4
    <3>2. unknown[u - n] # unknown[v - n]
      BY <1>4, <3>1 DEF IsInjective
    <3> QED BY <1>12, <2>4, <3>2
  <2> QED BY <1>8, <2>1, <2>2, <2>3, <2>4
<1>16. ASSUME NEW a \in emails
       PROVE  \E u \in DOMAIN table : table[u].email = a
  <2>1. CASE a \in missing
    <3>1. PICK i \in 1..k : unknown[i] = a
      BY <1>4, <2>1
    <3>2. n + i \in (n + 1)..(n + k) /\ (n + i) - n = i
      OBVIOUS
    <3>3. table[n + i].email = a
      BY <1>12, <3>1, <3>2
    <3> QED BY <1>8, <3>2, <3>3
  <2>2. CASE a \notin missing
    BY <1>8, <2>2 DEF ByEmail
  <2> QED BY <2>1, <2>2
<1>17. Cardinality(DOMAIN table) \in Nat /\ DOMAIN table = 1..Cardinality(DOMAIN table)
  BY <1>9, <1>10
<1>18. DOMAIN users \subseteq DOMAIN table /\ \A u \in DOMAIN users : table[u] = users[u]
  BY <1>8
<1>19. Completed(table, emails)
  BY <1>13, <1>14, <1>15, <1>16, <1>17, <1>18 DEF Completed
<1> QED BY <1>19

LEMMA AddWriteStep ==
  ASSUME WorkspaceInStep, NEW s \in Session, AddWrite(s), UNCHANGED <<publicationVars, catalogueVars, orcids>>
  PROVE  WorkspaceInStep'
<1>1. PICK c : c = call[s]
  OBVIOUS
<1>2. PICK added : added = Added(c)
  OBVIOUS
<1>3. PICK emails : emails = Emails(added)
  OBVIOUS
<1>4. PICK pr : pr = c.project
  OBVIOUS
<1>5. PICK table : table = WithPlaceholders(emails)
  OBVIOUS
<1>6. PICK new : new = {<<pr, u>> : u \in {v \in DOMAIN table : table[v].email \in emails}}
  OBVIOUS
<1> DEFINE RowOf(m) == CHOOSE a \in added : a.email = table[m[2]].email
<1>7. PICK rows : rows = [m \in new |-> [role |-> RowOf(m).role, status |-> "pending", invited |-> RowOf(m).email]]
  OBVIOUS
<1>8. PICK d : d = [op |-> "invite", project |-> pr, emails |-> emails]
  OBVIOUS
<1>9. /\ c.op = "add" /\ UNCHANGED <<perun, personal, ordinary, cached, projects, queue, sent, joined, lost>>
      /\ \/ UNCHANGED <<users, members>> /\ End(s)
         \/ /\ ExistingEmails(pr, added) = {} /\ added # {}
            /\ users' = table /\ members' = Extend(members, rows) /\ call' = [call EXCEPT ![s] = d]
  BY <1>1, <1>2, <1>3, <1>4, <1>5, <1>6, <1>7, <1>8 DEF AddWrite, MemberTaken, Become
<1>10. AccountsInStep /\ MembersInStep /\ CallsInStep /\ InvitesHold(c)
  BY <1>1 DEF WorkspaceInStep, CallsInStep, CallHolds
<1>11. CASE UNCHANGED <<users, members>> /\ End(s)
  <2>1. Waiting' = Waiting
    <3>1. call[s].op # "invite" /\ NoCall.op # "invite" /\ queue' = queue
      BY <1>1, <1>9 DEF NoCall
    <3> QED BY <1>10, <1>11, <3>1, WaitingStays DEF End, Become
  <2>2. UNCHANGED accountVars /\ UNCHANGED memberVars
    BY <1>9, <1>11 DEF accountVars, memberVars
  <2>3. MembersInStep'
    BY <1>10, <2>1, <2>2, MembersStay, AccountsStay
  <2> QED BY <1>11, <2>2, <2>3, QuietEnd, QuietMembers
<1>12. CASE /\ ExistingEmails(pr, added) = {} /\ added # {}
            /\ users' = table /\ members' = Extend(members, rows) /\ call' = [call EXCEPT ![s] = d]
  <2>1. pr \in Project /\ IsFiniteSet(added) /\ added \subseteq [email : Address, role : {"user", "manager"}]
    <3>1. c.batch \in Batch /\ c.project \in Project
      BY <1>9, <1>10 DEF InvitesHold
    <3>2. IsFiniteSet(c.batch) /\ c.batch \subseteq [email : Address, role : {"user", "manager"}]
      BY <3>1, MembersAssumption
    <3>3. added \subseteq c.batch
      BY <1>2 DEF Added
    <3> QED BY <1>4, <3>1, <3>2, <3>3, FS_Subset
  <2>2. IsFiniteSet(emails) /\ emails \in SUBSET Address /\ emails # {}
    <3>1. PICK f : f = [m \in added |-> m.email]
      OBVIOUS
    <3>2. emails = {f[m] : m \in added}
      BY <1>3, <3>1 DEF Emails
    <3>3. IsFiniteSet(emails)
      BY <2>1, <3>2, FiniteImage
    <3> QED BY <1>3, <1>12, <2>1, <3>3 DEF Emails
  <2>3. Completed(table, emails)
    BY <1>5, <1>10, <2>2, Placeholders
  <2>4. UsersGoOn
    BY <1>12, <2>3 DEF UsersGoOn, Completed
  <2>5. AccountsInStep'
    <3>1. PerunInStep'
      BY <1>9, <1>10 DEF AccountsInStep, PerunInStep
    <3>2. RowsAreApart'
      <4> SUFFICES ASSUME NEW u \in DOMAIN table, NEW v \in DOMAIN table, u # v, table[u].sub = table[v].sub
                   PROVE  table[u].sub = Nobody
        BY <1>12, <2>3 DEF RowsAreApart, Completed
      <4>1. CASE u \in DOMAIN users /\ v \in DOMAIN users
        BY <1>10, <2>3, <4>1 DEF AccountsInStep, RowsAreApart, Completed
      <4>2. CASE u \notin DOMAIN users \/ v \notin DOMAIN users
        BY <2>3, <4>2 DEF Completed
      <4> QED BY <4>1, <4>2
    <3>3. \A u \in DOMAIN table : table[u].sub # Nobody => u \in DOMAIN users
      BY <2>3 DEF Completed
    <3>4. SignedInAreOwn'
      <4> SUFFICES ASSUME NEW u \in DOMAIN table, table[u].sub # Nobody
                   PROVE  /\ Own(users[u].sub, users[u].email)'
                          /\ personal'[u].title = users'[u].email
                          /\ (personal[u].slug \in SlugsOf(users[u].sub))'
        BY <1>12 DEF SignedInAreOwn
      <4>1. u \in DOMAIN users /\ users'[u] = users[u]
        BY <1>12, <2>3, <3>3 DEF Completed
      <4>2. users[u].sub # Nobody /\ SignedInAreOwn /\ perun' = perun /\ personal' = personal
        BY <1>9, <1>10, <1>12, <4>1 DEF AccountsInStep
      <4> QED BY <4>1, <4>2 DEF SignedInAreOwn, Own, SlugsOf
    <3>5. DOMAIN personal' = {u \in DOMAIN users' : users'[u].sub # Nobody}
      BY <1>9, <1>10, <1>12, <2>3, <3>3 DEF AccountsInStep, Completed
    <3>6. TitlesApart'
      BY <1>9, <1>10, TitlesStay DEF AccountsInStep
    <3> QED BY <1>9, <1>10, <1>12, <2>3, <3>1, <3>2, <3>4, <3>5, <3>6 DEF AccountsInStep, UserRow, Completed
  <2>6. d.op = "invite" /\ d.project = pr /\ d.emails = emails
    BY <1>8
  <2>7. ASSUME NEW i
        PROVE  i \in Waiting' <=> i \in Waiting \/ i \in {pr} \X emails
    <3>1. call' = [t \in Session |-> IF t = s THEN d ELSE call[t]]
      BY <1>10, <1>12 DEF CallsInStep
    <3> QED BY <1>1, <1>9, <2>6, <3>1, WhoWaits
  <2>8. \A u \in DOMAIN users : users[u].email \in emails => <<pr, u>> \notin DOMAIN members
    BY <1>3, <1>12 DEF ExistingEmails, Emails, ByEmail
  <2>9. ASSUME NEW m \in new
        PROVE  /\ m \notin DOMAIN members /\ m \in Project \X DOMAIN users' /\ m[1] = pr
               /\ rows[m] \in MemberRow /\ rows[m].status = "pending"
               /\ rows[m].invited = table[m[2]].email /\ rows[m].invited \in emails
    <3>1. PICK u \in DOMAIN table : m = <<pr, u>> /\ table[u].email \in emails
      BY <1>6
    <3>2. m \notin DOMAIN members
      <4>1. CASE u \in DOMAIN users
        BY <2>3, <2>8, <3>1, <4>1 DEF Completed
      <4>2. CASE u \notin DOMAIN users
        BY <1>10, <3>1, <4>2 DEF MembersInStep
      <4> QED BY <4>1, <4>2
    <3>3. PICK a \in added : a.email = table[m[2]].email
      BY <1>3, <3>1 DEF Emails
    <3>4. RowOf(m) \in added /\ RowOf(m).email = table[m[2]].email
      BY <3>3
    <3>5. PICK b : b = RowOf(m)
      OBVIOUS
    <3>6. rows[m] = [role |-> b.role, status |-> "pending", invited |-> b.email]
      BY <1>7, <3>5
    <3>7. b.role \in {"user", "manager"} /\ b.email \in Address
      BY <2>1, <3>4, <3>5
    <3>8. rows[m] \in MemberRow /\ rows[m].status = "pending" /\ rows[m].invited = b.email
      BY <3>6, <3>7 DEF MemberRow
    <3> QED BY <1>12, <2>1, <3>1, <3>2, <3>4, <3>5, <3>8
  <2>10. /\ DOMAIN members' = DOMAIN members \cup new
         /\ \A m \in DOMAIN members : members'[m] = members[m]
         /\ \A m \in new : members'[m] = rows[m]
    <3>1. DOMAIN rows = new
      BY <1>7
    <3> QED BY <1>12, <2>9, <3>1 DEF Extend
  <2>11. members' \in [DOMAIN members' -> MemberRow]
    <3>1. \A m \in DOMAIN members' : members'[m] \in MemberRow
      BY <1>10, <2>9, <2>10 DEF MembersInStep
    <3>2. members' = [m \in DOMAIN members' |-> members'[m]]
      BY <1>12 DEF Extend
    <3> QED BY <3>1, <3>2
  <2>12. PendingIsInvited'
    <3> SUFFICES ASSUME NEW m \in DOMAIN members', members'[m].status = "pending"
                 PROVE  <<m[1], members'[m].invited>> \in Waiting' \cup sent' \cup lost'
      BY DEF PendingIsInvited
    <3>1. CASE m \in DOMAIN members
      BY <1>9, <1>10, <2>7, <2>10, <3>1 DEF MembersInStep, PendingIsInvited
    <3>2. CASE m \in new
      BY <2>7, <2>9, <2>10, <3>2
    <3> QED BY <2>10, <3>1, <3>2
  <2>13. InvitedHasRow'
    <3> SUFFICES ASSUME NEW i \in Waiting' \cup sent'
                 PROVE  \E m \in DOMAIN members' : i = <<m[1], members'[m].invited>>
      BY DEF InvitedHasRow
    <3>1. CASE i \in Waiting \cup sent
      BY <1>10, <2>10, <3>1 DEF MembersInStep, InvitedHasRow
    <3>2. CASE i \in {pr} \X emails
      <4>1. PICK a \in emails : i = <<pr, a>>
        BY <3>2
      <4>2. PICK u \in DOMAIN table : table[u].email = a
        BY <2>3 DEF Completed
      <4>3. <<pr, u>> \in new
        BY <1>6, <4>2
      <4>4. members'[<<pr, u>>].invited = a
        BY <2>9, <2>10, <4>2, <4>3
      <4> QED BY <2>10, <4>1, <4>3, <4>4
    <3> QED BY <1>9, <2>7, <3>1, <3>2
  <2>14. ActiveHasJoined'
    <3> SUFFICES ASSUME NEW m \in DOMAIN members', members'[m].status = "active"
                 PROVE  <<m[1], users'[m[2]].sub>> \in joined'
      BY DEF ActiveHasJoined
    <3>1. m \in DOMAIN members /\ members'[m] = members[m]
      BY <2>9, <2>10
    <3>2. m[2] \in DOMAIN users /\ <<m[1], users[m[2]].sub>> \in joined
      BY <1>10, <3>1 DEF MembersInStep, ActiveHasJoined
    <3> QED BY <1>9, <1>12, <2>3, <3>1, <3>2 DEF Completed
  <2>15. MembersInStep'
    <3>1. projects' \in [Project -> ProjectRow']
      BY <1>9, <1>10, <2>4 DEF MembersInStep, ProjectRow, UsersGoOn
    <3>2. DOMAIN members' \subseteq Project \X DOMAIN users'
      BY <1>10, <2>4, <2>9, <2>10 DEF MembersInStep, UsersGoOn
    <3> QED BY <1>9, <1>10, <2>11, <2>12, <2>13, <2>14, <3>1, <3>2 DEF MembersInStep, MemberRow
  <2>16. CallsGoOn
    <3> SUFFICES ASSUME NEW e, CallHolds(e) PROVE CallHolds(e)'
      BY <1>10 DEF CallsGoOn, CallsInStep
    <3>1. SignInHolds(e)'
      BY <1>9, <1>12, <2>3 DEF CallHolds, SignInHolds, Own, Completed
    <3>2. InvitesHold(e)' /\ CatalogueCallHolds(e)'
      BY DEF CallHolds, InvitesHold, CatalogueCallHolds
    <3>3. PubCallHolds(e)'
      BY DEF CallHolds, PubCallHolds, publicationVars
    <3>4. NoticeHolds(e)'
      BY <2>4 DEF CallHolds, NoticeHolds, NamedOf, Entries, UsersGoOn
    <3> QED BY <3>1, <3>2, <3>3, <3>4 DEF CallHolds
  <2>17. CallsInStep'
    <3>1. CallHolds(d)'
      BY <2>1, <2>2, <2>6 DEF CallHolds, SignInHolds, InvitesHold, PubCallHolds, CatalogueCallHolds, NoticeHolds
    <3> QED BY <1>10, <1>12, <2>16, <3>1, OneCall
  <2>18. PublicationsInStep' /\ CatalogueInStep' /\ OrcidsTypeOK'
    BY <2>4, PublicationsStay, CatalogueStays, OrcidsStay DEF WorkspaceInStep
  <2> QED BY <2>5, <2>15, <2>17, <2>18 DEF WorkspaceInStep
<1> QED BY <1>9, <1>11, <1>12

LEMMA MemberStepKeeps ==
  ASSUME WorkspaceInStep, MemberStep
  PROVE  WorkspaceInStep'
BY AddReadStep, AddWriteStep, InviteStep, SendStep, JoinStep, AcceptStep, DeleteMemberStep, DecideStep DEF MemberStep

-----------------------------------------------------------------------------
(* Publications.                                                           *)

\* Decisions are counted upwards, an approval is counted, and a publication that
\* an update is about does not come anew.
PubsGoOn ==
  \A s \in Session, k \in DOMAIN pubs' :
    call[s].op = "update" /\ call[s].pub = k =>
      /\ k \in DOMAIN pubs /\ pubs[k].decided <= pubs'[k].decided
      /\ pubs'[k].status = "approved" => pubs[k].status = "approved" \/ pubs[k].decided < pubs'[k].decided

LEMMA NewPubIsNew ==
  ASSUME WorkspaceInStep
  PROVE  /\ NewPub \in Nat /\ NewPub \notin DOMAIN pubs
         /\ \A s \in Session : call[s].op = "update" => call[s].pub # NewPub
<1> DEFINE R == {Remembers(call[s]) : s \in Session}
           S == DOMAIN pubs \cup {0} \cup UNION R
<1>1. IsFiniteSet(DOMAIN pubs) /\ DOMAIN pubs \subseteq Nat
  BY DEF WorkspaceInStep, PublicationsInStep
<1>2. ASSUME NEW s \in Session
      PROVE  Remembers(call[s]) \subseteq Nat /\ IsFiniteSet(Remembers(call[s]))
  <2>1. PICK c : c = call[s]
    OBVIOUS
  <2>2. PubCallHolds(c)
    BY <2>1 DEF WorkspaceInStep, CallsInStep, CallHolds
  <2>3. CASE c.op \in {"update", "assign", "remove"}
    <3>1. Remembers(c) = {c.pub} /\ c.pub \in Nat
      BY <2>2, <2>3 DEF Remembers, PubCallHolds
    <3> QED BY <2>1, <3>1, FS_Singleton
  <2>4. CASE c.op = "list"
    <3>1. Remembers(c) = c.todo /\ c.todo \subseteq Nat /\ IsFiniteSet(c.todo)
      BY <2>2, <2>4 DEF Remembers, PubCallHolds
    <3> QED BY <2>1, <3>1
  <2>5. CASE c.op \notin {"update", "assign", "remove", "list"}
    <3>1. Remembers(c) = {}
      BY <2>5 DEF Remembers
    <3> QED BY <2>1, <3>1, FS_EmptySet
  <2> QED BY <2>3, <2>4, <2>5
<1>3. IsFiniteSet(UNION R)
  <2>1. PICK f : f = [s \in Session |-> Remembers(call[s])]
    OBVIOUS
  <2>2. R = {f[s] : s \in Session}
    BY <2>1
  <2>3. IsFiniteSet({f[s] : s \in Session})
    BY AccountsAssumption, FiniteImage
  <2>4. \A T \in R : IsFiniteSet(T)
    BY <1>2
  <2> HIDE DEF R
  <2> QED BY <2>2, <2>3, <2>4, FS_UNION
<1>4. IsFiniteSet(S)
  <2>1. IsFiniteSet({0})
    BY FS_Singleton
  <2> HIDE DEF R
  <2> QED BY <1>1, <1>3, <2>1, FS_Union
<1>5. S \in SUBSET Nat /\ S # {}
  BY <1>1, <1>2
<1>6. Max(S) \in Nat /\ \A k \in S : k <= Max(S)
  <2> HIDE DEF S
  <2> QED BY <1>4, <1>5, GreatestIsMember
<1>7. NewPub = Max(S) + 1
  BY DEF NewPub
<1>8. \A k \in S : k \in Nat /\ k # NewPub
  <2> HIDE DEF S
  <2> QED BY <1>5, <1>6, <1>7
<1>9. ASSUME NEW s \in Session, call[s].op = "update" PROVE call[s].pub \in S
  <2>1. call[s].pub \in Remembers(call[s])
    BY <1>9 DEF Remembers
  <2> QED BY <2>1
<1>10. DOMAIN pubs \subseteq S
  OBVIOUS
<1> HIDE DEF S
<1> QED BY <1>6, <1>7, <1>8, <1>9, <1>10

LEMMA PubCallsGoOn ==
  ASSUME CallsInStep, PublicationsInStep, PublicationsInStep', PubsGoOn, UNCHANGED <<perun, users>>
  PROVE  CallsGoOn
<1> SUFFICES ASSUME NEW s \in Session, NEW c, c = call[s] PROVE CallHolds(c)'
  BY DEF CallsGoOn
<1>1. CallHolds(c)
  BY DEF CallsInStep
<1>2. SignInHolds(c)'
  BY <1>1 DEF CallHolds, SignInHolds, Own
<1>3. InvitesHold(c)' /\ CatalogueCallHolds(c)'
  BY <1>1 DEF CallHolds, InvitesHold, CatalogueCallHolds
<1>4. NoticeHolds(c)'
  BY <1>1 DEF CallHolds, NoticeHolds, NamedOf, Entries
<1>5. PubCallHolds(c)'
  <2>1. PubCallHolds(c)
    BY <1>1 DEF CallHolds
  <2>2. ASSUME c.op = "update", c.pub \in DOMAIN pubs'
        PROVE  /\ c.decided <= pubs'[c.pub].decided
               /\ pubs'[c.pub].status = "approved" => c.decided < pubs'[c.pub].decided
    <3>1. PICK k : k = c.pub
      OBVIOUS
    <3>2. /\ k \in DOMAIN pubs /\ pubs[k].decided <= pubs'[k].decided
          /\ pubs'[k].status = "approved" => pubs[k].status = "approved" \/ pubs[k].decided < pubs'[k].decided
      BY <2>2, <3>1 DEF PubsGoOn
    <3>3. pubs[k].decided \in Nat /\ pubs'[k].decided \in Nat /\ c.decided \in Nat
      BY <2>1, <2>2, <3>1, <3>2 DEF PublicationsInStep, PublicationRow, PubCallHolds
    <3>4. c.decided <= pubs[k].decided /\ (pubs[k].status = "approved" => c.decided < pubs[k].decided)
      BY <2>1, <2>2, <3>1, <3>2 DEF PubCallHolds
    <3> QED BY <3>1, <3>2, <3>3, <3>4
  <2> QED BY <2>1, <2>2 DEF PubCallHolds
<1> QED BY <1>2, <1>3, <1>4, <1>5 DEF CallHolds

LEMMA PublicationFrame ==
  ASSUME WorkspaceInStep, UNCHANGED <<accountVars, memberVars, catalogueVars, orcids>>,
         PublicationsInStep', PubsGoOn,
         \/ call' = call
         \/ \E s \in Session : End(s) /\ call[s].op # "invite"
         \/ \E s \in Session : \E c : call' = [call EXCEPT ![s] = c] /\ call[s].op # "invite" /\ c.op # "invite" /\ CallHolds(c)'
  PROVE  WorkspaceInStep'
<1>1. perun' = perun /\ users' = users /\ queue' = queue
  BY DEF accountVars, memberVars
<1>2. CallsGoOn
  BY <1>1, PubCallsGoOn DEF WorkspaceInStep
<1>3. CallsInStep' /\ Waiting' = Waiting
  <2>1. CASE call' = call
    BY <1>1, <1>2, <2>1, SameCalls, WaitingKept DEF WorkspaceInStep
  <2>2. ASSUME NEW s \in Session, End(s), call[s].op # "invite"
        PROVE  CallsInStep' /\ Waiting' = Waiting
    <3>1. CallsInStep'
      BY <1>2, <2>2, EndedCall DEF WorkspaceInStep
    <3>2. call' = [call EXCEPT ![s] = NoCall] /\ NoCall.op # "invite"
      BY <2>2 DEF End, Become, NoCall
    <3> QED BY <1>1, <2>2, <3>1, <3>2, WaitingStays DEF WorkspaceInStep
  <2>3. ASSUME NEW s \in Session, NEW c, call' = [call EXCEPT ![s] = c],
               call[s].op # "invite", c.op # "invite", CallHolds(c)'
        PROVE  CallsInStep' /\ Waiting' = Waiting
    <3>1. CallsInStep'
      BY <1>2, <2>3, OneCall DEF WorkspaceInStep
    <3> QED BY <1>1, <2>3, <3>1, WaitingStays DEF WorkspaceInStep
  <2> QED BY <2>1, <2>2, <2>3
<1>4. AccountsInStep' /\ UsersGoOn
  BY AccountsStay DEF WorkspaceInStep
<1> QED BY <1>3, <1>4, MembersStay, CatalogueStays, OrcidsStay DEF WorkspaceInStep

\* Changing anything of a row but its owner and its uid.
LEMMA RowsKept ==
  ASSUME PublicationsInStep, users' = users, DOMAIN pubs' = DOMAIN pubs, pubs' \in [DOMAIN pubs -> PublicationRow],
         \A k \in DOMAIN pubs : pubs'[k].owner = pubs[k].owner /\ pubs'[k].uid = pubs[k].uid,
         links' \subseteq Link
  PROVE  PublicationsInStep'
<1>1. PublicationRow' = PublicationRow
  BY DEF PublicationRow, Uid
<1> QED BY <1>1 DEF PublicationsInStep, Link

\* The old column is emptied, of some rows.
LEMMA RowsCleared ==
  ASSUME PublicationsInStep, NEW K, users' = users, links' \subseteq Link,
         pubs' = Cleared(K)
  PROVE  PublicationsInStep' /\ PubsGoOn /\ ApprovalKept
<1>1. ASSUME NEW k \in DOMAIN pubs
      PROVE  /\ pubs'[k] \in PublicationRow /\ pubs'[k].owner = pubs[k].owner /\ pubs'[k].uid = pubs[k].uid
             /\ pubs'[k].status = pubs[k].status /\ pubs'[k].text = pubs[k].text
             /\ pubs'[k].decided = pubs[k].decided
  <2>1. pubs[k] \in PublicationRow
    BY DEF PublicationsInStep
  <2>2. CASE k \in K
    <3>1. pubs'[k] = [pubs[k] EXCEPT !.legacy = NoProject]
      BY <2>2 DEF Cleared
    <3> QED BY <2>1, <3>1 DEF PublicationRow
  <2>3. CASE k \notin K
    BY <2>1, <2>3 DEF Cleared
  <2> QED BY <2>2, <2>3
<1>2. DOMAIN pubs' = DOMAIN pubs /\ pubs' \in [DOMAIN pubs -> PublicationRow]
  BY <1>1 DEF Cleared
<1>3. PublicationsInStep'
  BY <1>1, <1>2, RowsKept
<1>4. \A k \in DOMAIN pubs : pubs[k].decided \in Nat
  BY DEF PublicationsInStep, PublicationRow
<1> QED BY <1>1, <1>2, <1>3, <1>4 DEF PubsGoOn, ApprovalKept

\* Only links change.
LEMMA OnlyLinks ==
  ASSUME PublicationsInStep, users' = users, pubs' = pubs, links' \subseteq Link
  PROVE  PublicationsInStep' /\ PubsGoOn /\ ApprovalKept
<1>1. PublicationRow' = PublicationRow
  BY DEF PublicationRow, Uid
<1>2. \A k \in DOMAIN pubs : pubs[k].decided \in Nat
  BY DEF PublicationsInStep, PublicationRow
<1>3. PublicationsInStep'
  BY <1>1 DEF PublicationsInStep, Link
<1> QED BY <1>2, <1>3 DEF PubsGoOn, ApprovalKept

LEMMA PubsUnchanged ==
  ASSUME PublicationsInStep, UNCHANGED <<users, publicationVars>>
  PROVE  PublicationsInStep' /\ PubsGoOn /\ ApprovalKept
<1>1. pubs' = pubs
  BY DEF publicationVars
<1>2. \A k \in DOMAIN pubs : pubs[k].decided \in Nat
  BY DEF PublicationsInStep, PublicationRow
<1>3. PublicationsInStep'
  BY PublicationsStay DEF UsersGoOn
<1> QED BY <1>1, <1>2, <1>3 DEF PubsGoOn, ApprovalKept

LEMMA CreateOwnedStep ==
  ASSUME WorkspaceInStep, NEW p, NEW stepUp, NEW pr \in Project, NEW uid \in Uid, CreateOwned(p, stepUp, pr, uid),
         UNCHANGED <<catalogueVars, orcids>>
  PROVE  WorkspaceInStep' /\ ApprovalKept
<1>1. PICK u : u = UserOf(p)
  OBVIOUS
<1>2. PICK k : k = NewPub
  OBVIOUS
<1>3. PICK row : row = Row(u, uid)
  OBVIOUS
<1>4. /\ p \in Known /\ ~UidTaken(u, uid) /\ call' = call
      /\ pubs' = Put(pubs, k, row) /\ links' = links \cup {<<pr, k>>}
      /\ UNCHANGED <<accountVars, memberVars>>
  BY <1>1, <1>2, <1>3 DEF CreateOwned, MayEdit, Once
<1>5. PublicationsInStep /\ AccountsInStep /\ users' = users
  BY <1>4 DEF WorkspaceInStep, accountVars
<1>6. k \in Nat /\ k \notin DOMAIN pubs /\ \A s \in Session : call[s].op = "update" => call[s].pub # k
  BY <1>2, NewPubIsNew
<1>7. row = [owner |-> u, uid |-> uid, status |-> "pending", text |-> 0, decided |-> 0, legacy |-> NoProject]
  BY <1>3 DEF Row
<1>8. u \in DOMAIN users
  BY <1>1, <1>4, <1>5, KnownHaveRows
<1>9. row \in PublicationRow /\ row.owner = u /\ row.uid = uid
  BY <1>7, <1>8 DEF PublicationRow
<1>10. /\ DOMAIN pubs' = DOMAIN pubs \cup {k} /\ pubs' = [i \in DOMAIN pubs' |-> pubs'[i]]
       /\ pubs'[k] = row /\ \A i \in DOMAIN pubs : pubs'[i] = pubs[i]
  BY <1>4, <1>6 DEF Put
<1>11. PublicationRow' = PublicationRow
  BY <1>5 DEF PublicationRow, Uid
<1>12. PublicationsInStep'
  <2>1. IsFiniteSet(DOMAIN pubs') /\ DOMAIN pubs' \subseteq Nat
    BY <1>5, <1>6, <1>10, FS_AddElement DEF PublicationsInStep
  <2>2. \A i \in DOMAIN pubs' : pubs'[i] \in PublicationRow
    BY <1>5, <1>9, <1>10 DEF PublicationsInStep
  <2>3. pubs' \in [DOMAIN pubs' -> PublicationRow']
    BY <1>10, <1>11, <2>2
  <2>4. ASSUME NEW i \in DOMAIN pubs', NEW j \in DOMAIN pubs', i # j
        PROVE  <<pubs'[i].owner, pubs'[i].uid>> # <<pubs'[j].owner, pubs'[j].uid>>
    <3>1. CASE i \in DOMAIN pubs /\ j \in DOMAIN pubs
      BY <1>5, <1>10, <2>4, <3>1 DEF PublicationsInStep
    <3>2. CASE i = k
      BY <1>4, <1>9, <1>10, <2>4, <3>2 DEF UidTaken, Owned
    <3>3. CASE j = k
      BY <1>4, <1>9, <1>10, <2>4, <3>3 DEF UidTaken, Owned
    <3> QED BY <1>10, <3>1, <3>2, <3>3
  <2>5. links' \subseteq Link'
    BY <1>4, <1>5, <1>10 DEF PublicationsInStep, Link
  <2> QED BY <2>1, <2>3, <2>4, <2>5 DEF PublicationsInStep
<1>13. \A i \in DOMAIN pubs : pubs[i].decided \in Nat
  BY <1>5 DEF PublicationsInStep, PublicationRow
<1>14. PubsGoOn
  BY <1>6, <1>10, <1>13 DEF PubsGoOn
<1>15. ApprovalKept
  BY <1>10 DEF ApprovalKept
<1> QED BY <1>4, <1>12, <1>14, <1>15, PublicationFrame

LEMMA CreateStep ==
  ASSUME WorkspaceInStep, NEW p, NEW stepUp, NEW pr \in Project, UNCHANGED <<catalogueVars, orcids>>,
         \/ CreateByHand(p, stepUp, pr)
         \/ \E w \in Work, type \in IdType : CreateById(p, stepUp, pr, w, type)
  PROVE  WorkspaceInStep' /\ ApprovalKept
<1>1. CASE CreateByHand(p, stepUp, pr)
  <2>1. PICK uid : uid = <<"own", NewPub>>
    OBVIOUS
  <2>2. uid \in Uid
    BY <2>1, NewPubIsNew DEF Uid
  <2> QED BY <1>1, <2>1, <2>2, CreateOwnedStep DEF CreateByHand
<1>2. ASSUME NEW w \in Work, NEW type \in IdType, CreateById(p, stepUp, pr, w, type)
      PROVE  WorkspaceInStep' /\ ApprovalKept
  <2>1. <<type, w>> \in Uid
    BY DEF Uid
  <2> QED BY <1>2, <2>1, CreateOwnedStep DEF CreateById
<1> QED BY <1>1, <1>2

LEMMA AddStep ==
  ASSUME WorkspaceInStep, NEW p, NEW stepUp, NEW pr \in Project, NEW works, AddToProject(p, stepUp, pr, works),
         UNCHANGED <<catalogueVars, orcids>>
  PROVE  WorkspaceInStep' /\ ApprovalKept
<1>1. PICK K : K = {k \in DOMAIN pubs : /\ pubs[k].owner = UserOf(p)
                                        /\ pubs[k].uid \in {<<"bare", w>> : w \in works}}
  OBVIOUS
<1>2. /\ K \subseteq DOMAIN pubs /\ links' = links \cup ({pr} \X K) /\ call' = call /\ pubs' = Cleared(K)
      /\ UNCHANGED <<accountVars, memberVars>>
  BY <1>1, Zenon DEF AddToProject, Once
<1>3. PublicationsInStep /\ users' = users
  BY <1>2 DEF WorkspaceInStep, accountVars
<1>4. links' \subseteq Link
  BY <1>2, <1>3 DEF PublicationsInStep, Link
<1>5. PublicationsInStep' /\ PubsGoOn /\ ApprovalKept
  BY <1>2, <1>3, <1>4, RowsCleared
<1> QED BY <1>2, <1>5, PublicationFrame

\* Listing turns old rows into links, each in two statements.
LEMMA ListStep ==
  ASSUME WorkspaceInStep, NEW s \in Session, ListLink(s) \/ ListClear(s), UNCHANGED <<catalogueVars, orcids>>
  PROVE  WorkspaceInStep' /\ ApprovalKept
<1>1. PICK c : c = call[s]
  OBVIOUS
<1>2. c.op = "list" /\ UNCHANGED <<accountVars, memberVars>>
  BY <1>1 DEF ListLink, ListClear
<1>3. PublicationsInStep /\ users' = users /\ PubCallHolds(c)
  BY <1>1, <1>2 DEF WorkspaceInStep, accountVars, CallsInStep, CallHolds
<1>4. /\ c \in [op : {"list"}, project : Project, todo : SUBSET Nat, linked : SUBSET Nat]
      /\ IsFiniteSet(c.todo)
  BY <1>2, <1>3 DEF PubCallHolds
<1>5. PublicationsInStep' /\ PubsGoOn /\ ApprovalKept
  <2>1. CASE ListLink(s)
    <3>1. links' \subseteq Link /\ pubs' = pubs
      BY <1>1, <1>3, <1>4, <2>1 DEF ListLink, PublicationsInStep, Link
    <3> QED BY <1>3, <3>1, OnlyLinks
  <2>2. CASE ListClear(s)
    <3>1. links' \subseteq Link /\ pubs' = Cleared(c.linked)
      BY <1>1, <1>3, <2>2 DEF ListClear, PublicationsInStep
    <3> QED BY <1>3, <3>1, RowsCleared
  <2> QED BY <2>1, <2>2
<1>6. ASSUME NEW d, call' = [call EXCEPT ![s] = d], IsFiniteSet(d.todo),
             d \in [op : {"list"}, project : Project, todo : SUBSET Nat, linked : SUBSET Nat]
      PROVE  WorkspaceInStep'
  <2>1. d.op = "list" /\ CallHolds(d)'
    BY <1>6 DEF CallHolds, SignInHolds, InvitesHold, PubCallHolds, CatalogueCallHolds, NoticeHolds
  <2>2. call[s].op # "invite" /\ d.op # "invite"
    BY <1>1, <1>2, <2>1
  <2> QED BY <1>2, <1>5, <1>6, <2>1, <2>2, PublicationFrame
<1>7. CASE End(s)
  BY <1>1, <1>2, <1>5, <1>7, PublicationFrame
<1>8. ASSUME NEW k \in c.todo, Become(s, [c EXCEPT !.linked = {k}]) PROVE WorkspaceInStep'
  <2>1. PICK d : d = [c EXCEPT !.linked = {k}]
    OBVIOUS
  <2>2. d \in [op : {"list"}, project : Project, todo : SUBSET Nat, linked : SUBSET Nat] /\ d.todo = c.todo
    BY <1>4, <2>1
  <2>3. call' = [call EXCEPT ![s] = d]
    BY <1>8, <2>1 DEF Become
  <2> QED BY <1>4, <1>6, <2>2, <2>3
<1>9. CASE Become(s, [c EXCEPT !.todo = @ \ c.linked, !.linked = {}])
  <2>1. PICK d : d = [c EXCEPT !.todo = @ \ c.linked, !.linked = {}]
    OBVIOUS
  <2>2. d \in [op : {"list"}, project : Project, todo : SUBSET Nat, linked : SUBSET Nat] /\ d.todo \subseteq c.todo
    BY <1>4, <2>1
  <2>3. IsFiniteSet(d.todo)
    BY <1>4, <2>2, FS_Subset
  <2>4. call' = [call EXCEPT ![s] = d]
    BY <1>9, <2>1 DEF Become
  <2> QED BY <1>5, <1>6, <2>2, <2>3, <2>4
<1> QED BY <1>1, <1>5, <1>7, <1>8, <1>9 DEF ListLink, ListClear

\* The update is made whatever was decided since it looked; it looked before.
LEMMA UpdateWriteStep ==
  ASSUME WorkspaceInStep, NEW s \in Session, UpdateWrite(s), UNCHANGED <<catalogueVars, orcids>>
  PROVE  WorkspaceInStep' /\ ApprovalKept
<1>1. PICK c : c = call[s]
  OBVIOUS
<1>2. PICK k : k = c.pub
  OBVIOUS
<1>3. /\ c.op = "update" /\ End(s) /\ links' = links /\ UNCHANGED <<accountVars, memberVars>>
      /\ pubs' = IF k \in DOMAIN pubs THEN [pubs EXCEPT ![k].text = @ + 1, ![k].status = "pending"] ELSE pubs
  BY <1>1, <1>2 DEF UpdateWrite
<1>4. PublicationsInStep /\ users' = users /\ CallsInStep /\ PubCallHolds(c)
  BY <1>1, <1>3 DEF WorkspaceInStep, accountVars, CallsInStep, CallHolds
<1>5. CASE k \notin DOMAIN pubs
  <2>1. UNCHANGED <<users, publicationVars>>
    BY <1>3, <1>4, <1>5 DEF publicationVars
  <2>2. PublicationsInStep' /\ PubsGoOn /\ ApprovalKept
    BY <1>4, <2>1, PubsUnchanged
  <2> QED BY <1>1, <1>3, <2>2, PublicationFrame
<1>6. CASE k \in DOMAIN pubs
  <2>1. pubs[k] \in PublicationRow
    BY <1>4, <1>6 DEF PublicationsInStep
  <2>2. pubs'[k] = [owner |-> pubs[k].owner, uid |-> pubs[k].uid, status |-> "pending", text |-> pubs[k].text + 1,
                    decided |-> pubs[k].decided, legacy |-> pubs[k].legacy]
    BY <1>3, <1>6, <2>1 DEF PublicationRow
  <2>3. /\ DOMAIN pubs' = DOMAIN pubs /\ pubs' = [i \in DOMAIN pubs |-> pubs'[i]]
        /\ \A i \in DOMAIN pubs \ {k} : pubs'[i] = pubs[i]
    BY <1>3, <1>6
  <2>4. /\ pubs'[k] \in PublicationRow /\ pubs'[k].owner = pubs[k].owner /\ pubs'[k].uid = pubs[k].uid
        /\ pubs'[k].status = "pending" /\ pubs'[k].decided = pubs[k].decided
    BY <2>1, <2>2 DEF PublicationRow
  <2>5. pubs' \in [DOMAIN pubs -> PublicationRow]
    BY <1>4, <2>3, <2>4 DEF PublicationsInStep
  <2>6. PublicationsInStep'
    BY <1>3, <1>4, <2>3, <2>4, <2>5, RowsKept DEF PublicationsInStep
  <2>7. \A i \in DOMAIN pubs : pubs[i].decided \in Nat
    BY <1>4 DEF PublicationsInStep, PublicationRow
  <2>8. PubsGoOn
    BY <2>3, <2>4, <2>7 DEF PubsGoOn
  <2>9. call'[s] = NoCall
    BY <1>3, <1>4 DEF End, Become, CallsInStep
  <2>10. pubs[k].status = "approved" => c.decided < pubs[k].decided
    BY <1>2, <1>3, <1>4, <1>6 DEF PubCallHolds
  <2>11. ApprovalKept
    BY <1>1, <1>2, <1>3, <2>3, <2>9, <2>10 DEF ApprovalKept
  <2> QED BY <1>1, <1>3, <2>6, <2>8, <2>11, PublicationFrame
<1> QED BY <1>5, <1>6

LEMMA ReviewStep ==
  ASSUME WorkspaceInStep, NEW p, NEW k, NEW status \in {"approved", "rejected"}, Review(p, k, status),
         UNCHANGED <<catalogueVars, orcids>>
  PROVE  WorkspaceInStep' /\ ApprovalKept
<1>1. /\ k \in DOMAIN pubs /\ call' = call /\ links' = links /\ UNCHANGED <<accountVars, memberVars>>
      /\ pubs' = [pubs EXCEPT ![k].status = status, ![k].decided = @ + 1]
  BY DEF Review, Once
<1>2. PublicationsInStep /\ users' = users
  BY <1>1 DEF WorkspaceInStep, accountVars
<1>3. pubs[k] \in PublicationRow
  BY <1>1, <1>2 DEF PublicationsInStep
<1>4. pubs'[k] = [owner |-> pubs[k].owner, uid |-> pubs[k].uid, status |-> status, text |-> pubs[k].text,
                  decided |-> pubs[k].decided + 1, legacy |-> pubs[k].legacy]
  BY <1>1, <1>3 DEF PublicationRow
<1>5. /\ DOMAIN pubs' = DOMAIN pubs /\ pubs' = [i \in DOMAIN pubs |-> pubs'[i]]
      /\ \A i \in DOMAIN pubs \ {k} : pubs'[i] = pubs[i]
  BY <1>1
<1>6. /\ pubs'[k] \in PublicationRow /\ pubs'[k].owner = pubs[k].owner /\ pubs'[k].uid = pubs[k].uid
      /\ pubs'[k].decided = pubs[k].decided + 1
  BY <1>3, <1>4 DEF PublicationRow
<1>7. pubs' \in [DOMAIN pubs -> PublicationRow]
  BY <1>2, <1>5, <1>6 DEF PublicationsInStep
<1>8. PublicationsInStep'
  BY <1>1, <1>2, <1>5, <1>6, <1>7, RowsKept DEF PublicationsInStep
<1>9. \A i \in DOMAIN pubs : pubs[i].decided \in Nat
  BY <1>2 DEF PublicationsInStep, PublicationRow
<1>10. PubsGoOn /\ ApprovalKept
  BY <1>1, <1>5, <1>6, <1>9 DEF PubsGoOn, ApprovalKept
<1> QED BY <1>1, <1>8, <1>10, PublicationFrame

LEMMA DeleteOwnedStep ==
  ASSUME WorkspaceInStep, NEW p, NEW k, DeleteOwned(p, k), UNCHANGED <<catalogueVars, orcids>>
  PROVE  WorkspaceInStep' /\ ApprovalKept
<1>1. /\ pubs' = [i \in DOMAIN pubs \ {k} |-> pubs[i]] /\ links' = links \ LinksOf(k)
      /\ call' = call /\ UNCHANGED <<accountVars, memberVars>>
  BY DEF DeleteOwned, Once
<1>2. PublicationsInStep /\ users' = users
  BY <1>1 DEF WorkspaceInStep, accountVars
<1>3. DOMAIN pubs' = DOMAIN pubs \ {k} /\ \A i \in DOMAIN pubs' : pubs'[i] = pubs[i]
  BY <1>1
<1>4. PublicationRow' = PublicationRow
  BY <1>2 DEF PublicationRow, Uid
<1>5. PublicationsInStep'
  <2>1. IsFiniteSet(DOMAIN pubs') /\ DOMAIN pubs' \subseteq Nat
    BY <1>2, <1>3, FS_RemoveElement DEF PublicationsInStep
  <2>2. pubs' \in [DOMAIN pubs' -> PublicationRow']
    BY <1>1, <1>2, <1>4 DEF PublicationsInStep
  <2>3. \A i, j \in DOMAIN pubs' : i # j => <<pubs'[i].owner, pubs'[i].uid>> # <<pubs'[j].owner, pubs'[j].uid>>
    BY <1>2, <1>3 DEF PublicationsInStep
  <2>4. links' \subseteq Link'
    BY <1>1, <1>2, <1>3 DEF PublicationsInStep, Link, LinksOf
  <2> QED BY <2>1, <2>2, <2>3, <2>4 DEF PublicationsInStep
<1>6. \A i \in DOMAIN pubs : pubs[i].decided \in Nat
  BY <1>2 DEF PublicationsInStep, PublicationRow
<1>7. PubsGoOn /\ ApprovalKept
  BY <1>3, <1>6 DEF PubsGoOn, ApprovalKept
<1> QED BY <1>1, <1>5, <1>7, PublicationFrame

LEMMA AssignWriteStep ==
  ASSUME WorkspaceInStep, NEW s \in Session, AssignWrite(s), UNCHANGED <<catalogueVars, orcids>>
  PROVE  WorkspaceInStep' /\ ApprovalKept
<1>1. PICK c : c = call[s]
  OBVIOUS
<1>2. /\ c.op = "assign" /\ End(s) /\ UNCHANGED <<accountVars, memberVars>>
      /\ \/ c.pub \in DOMAIN pubs /\ links' = links \cup {<<c.project, c.pub>>} /\ pubs' = Cleared({c.pub})
         \/ UNCHANGED publicationVars
  BY <1>1 DEF AssignWrite
<1>3. PublicationsInStep /\ users' = users /\ PubCallHolds(c)
  BY <1>1, <1>2 DEF WorkspaceInStep, accountVars, CallsInStep, CallHolds
<1>4. PublicationsInStep' /\ PubsGoOn /\ ApprovalKept
  <2>1. CASE c.pub \in DOMAIN pubs /\ links' = links \cup {<<c.project, c.pub>>} /\ pubs' = Cleared({c.pub})
    <3>1. links' \subseteq Link
      BY <1>2, <1>3, <2>1 DEF PublicationsInStep, Link, PubCallHolds
    <3> QED BY <1>3, <2>1, <3>1, RowsCleared
  <2>2. CASE UNCHANGED publicationVars
    BY <1>3, <2>2, PubsUnchanged
  <2> QED BY <1>2, <2>1, <2>2
<1> QED BY <1>1, <1>2, <1>4, PublicationFrame

RemoveSteps(s) ==
  \/ RemoveLink(s) \/ RemoveClear(s) \/ RemoveLook(s) \/ RemoveCount(s)
  \/ RemoveRights(s) \/ RemoveUnlink(s) \/ RemoveLast(s)

\* Each statement of a removal does what it does to the rows there are by then.
LEMMA RemoveStep ==
  ASSUME WorkspaceInStep, NEW s \in Session, RemoveSteps(s), UNCHANGED <<catalogueVars, orcids>>
  PROVE  WorkspaceInStep' /\ ApprovalKept
<1> DEFINE Removal ==
             [op : {"remove"}, at : {"link", "clear", "look", "count", "rights", "unlink", "last"}, pub : Nat,
              by : Person, stepUp : BOOLEAN, project : Project \cup {NoProject}, legacy : Project \cup {NoProject}]
<1>1. PICK c : c = call[s]
  OBVIOUS
<1>2. c.op = "remove" /\ UNCHANGED <<accountVars, memberVars>>
  BY <1>1 DEF RemoveSteps, Removing, RemoveLink, RemoveClear, RemoveLook, RemoveCount, RemoveRights,
              RemoveUnlink, RemoveLast
<1>3. PublicationsInStep /\ users' = users /\ PubCallHolds(c)
  BY <1>1, <1>2 DEF WorkspaceInStep, accountVars, CallsInStep, CallHolds
<1>4. c \in Removal /\ (c.at = "link" => c.legacy \in Project)
  BY <1>2, <1>3 DEF PubCallHolds
<1>5. PublicationsInStep' /\ PubsGoOn /\ ApprovalKept
  <2>1. CASE RemoveLink(s)
    <3>1. PICK target : target = IF c.project = NoProject THEN c.legacy ELSE c.project
      OBVIOUS
    <3>2. /\ c.at = "link" /\ pubs' = pubs
          /\ \/ links' = links
             \/ c.pub \in DOMAIN pubs /\ links' = links \cup {<<target, c.pub>>}
      BY <1>1, <2>1, <3>1, Zenon DEF RemoveLink, Removing
    <3>3. target \in Project
      BY <1>4, <3>1, <3>2
    <3>4. links' \subseteq Link
      BY <1>3, <3>2, <3>3 DEF PublicationsInStep, Link
    <3> QED BY <1>3, <3>2, <3>4, OnlyLinks
  <2>2. CASE RemoveClear(s) \/ RemoveLast(s)
    <3>1. links' \subseteq Link /\ pubs' = Cleared({c.pub})
      BY <1>1, <1>3, <2>2 DEF RemoveClear, RemoveLast, PublicationsInStep
    <3> QED BY <1>3, <3>1, RowsCleared
  <2>3. CASE RemoveLook(s) \/ RemoveCount(s) \/ RemoveRights(s) \/ RemoveUnlink(s)
    <3>1. links' \subseteq Link /\ pubs' = pubs
      BY <1>3, <2>3 DEF RemoveLook, RemoveCount, RemoveRights, RemoveUnlink, publicationVars, PublicationsInStep
    <3> QED BY <1>3, <3>1, OnlyLinks
  <2> QED BY <2>1, <2>2, <2>3 DEF RemoveSteps
<1>6. ASSUME NEW d \in Removal, call' = [call EXCEPT ![s] = d], d.at # "link" PROVE WorkspaceInStep'
  <2>1. d.op = "remove" /\ CallHolds(d)'
    BY <1>6 DEF CallHolds, SignInHolds, InvitesHold, PubCallHolds, CatalogueCallHolds, NoticeHolds
  <2>2. call[s].op # "invite" /\ d.op # "invite"
    BY <1>1, <1>2, <2>1
  <2> QED BY <1>2, <1>5, <1>6, <2>1, <2>2, PublicationFrame
<1>7. CASE End(s)
  BY <1>1, <1>2, <1>5, <1>7, PublicationFrame
<1>8. ASSUME NEW at \in {"clear", "look", "rights", "unlink", "last"}, Proceed(s, at) PROVE WorkspaceInStep'
  <2>1. PICK d : d = [c EXCEPT !.at = at]
    OBVIOUS
  <2>2. d \in Removal /\ d.at = at
    BY <1>4, <2>1
  <2>3. call' = [call EXCEPT ![s] = d]
    BY <1>1, <1>8, <2>1 DEF Proceed, Become
  <2> QED BY <1>6, <2>2, <2>3
<1>9. ASSUME RemoveLook(s), ~End(s) PROVE WorkspaceInStep'
  <2>1. PICK l \in LinksOf(c.pub) :
          Become(s, [c EXCEPT !.project = l[1], !.at = IF c.project = NoProject THEN "count" ELSE "rights"])
    BY <1>1, <1>9 DEF RemoveLook
  <2>2. l[1] \in Project
    BY <1>3, <2>1 DEF LinksOf, PublicationsInStep, Link
  <2>3. PICK d : d = [c EXCEPT !.project = l[1], !.at = IF c.project = NoProject THEN "count" ELSE "rights"]
    OBVIOUS
  <2>4. d \in Removal /\ d.at # "link"
    BY <1>4, <2>2, <2>3
  <2>5. call' = [call EXCEPT ![s] = d]
    BY <2>1, <2>3 DEF Become
  <2> QED BY <1>6, <2>4, <2>5
<1>10. WorkspaceInStep'
  BY <1>7, <1>8, <1>9 DEF RemoveSteps, RemoveLink, RemoveClear, RemoveCount, RemoveRights, RemoveUnlink, RemoveLast
<1> QED BY <1>5, <1>10

LEMMA UpdateReadStep ==
  ASSUME WorkspaceInStep, NEW s \in Session, NEW p, NEW k, UpdateRead(s, p, k), UNCHANGED <<catalogueVars, orcids>>
  PROVE  WorkspaceInStep' /\ ApprovalKept
<1>1. PICK c : c = [op |-> "update", pub |-> k, decided |-> pubs[k].decided]
  OBVIOUS
<1>2. c.op = "update" /\ c.pub = k /\ c.decided = pubs[k].decided
  BY <1>1
<1>3. /\ k \in DOMAIN pubs /\ pubs[k].status # "approved" /\ call[s].op # "invite"
      /\ call' = [call EXCEPT ![s] = c] /\ UNCHANGED <<accountVars, memberVars, publicationVars>>
  BY <1>1 DEF UpdateRead, Begin, NoCall, Owned
<1>4. k \in Nat /\ pubs[k].decided \in Nat /\ pubs' = pubs
  BY <1>3 DEF WorkspaceInStep, PublicationsInStep, PublicationRow, publicationVars
<1>5. CallHolds(c)'
  BY <1>2, <1>3, <1>4 DEF CallHolds, SignInHolds, InvitesHold, PubCallHolds, CatalogueCallHolds, NoticeHolds
<1>6. WorkspaceInStep'
  BY <1>2, <1>3, <1>5, QuietBegin, QuietMembers
<1> QED BY <1>4, <1>6 DEF ApprovalKept

LEMMA LinkReadStep ==
  ASSUME WorkspaceInStep, NEW s \in Session, NEW p \in Person, NEW stepUp \in BOOLEAN, UNCHANGED <<catalogueVars, orcids>>,
         \/ \E pr \in Project : ListRead(s, p, stepUp, pr)
         \/ \E pr \in Project : \E k : AssignRead(s, p, k, pr, stepUp)
         \/ \E pr \in Project \cup {NoProject} : \E k : RemoveRead(s, p, stepUp, k, pr)
  PROVE  WorkspaceInStep' /\ ApprovalKept
<1> DEFINE Begins(c) == /\ c.op \in {"list", "assign", "remove"} /\ PubCallHolds(c) /\ call[s].op # "invite"
                        /\ call' = [call EXCEPT ![s] = c] /\ UNCHANGED <<accountVars, memberVars, publicationVars>>
<1>1. PublicationsInStep
  BY DEF WorkspaceInStep
<1>2. \E c : Begins(c)
  <2>1. ASSUME NEW pr \in Project, ListRead(s, p, stepUp, pr) PROVE \E c : Begins(c)
    <3>1. PICK old : old = {k \in DOMAIN pubs : pubs[k].legacy = pr}
      OBVIOUS
    <3>2. PICK c : c = [op |-> "list", project |-> pr, todo |-> old, linked |-> {}]
      OBVIOUS
    <3>3. c \in [op : {"list"}, project : Project, todo : SUBSET Nat, linked : SUBSET Nat] /\ IsFiniteSet(c.todo)
      BY <1>1, <3>1, <3>2, FS_Subset DEF PublicationsInStep
    <3>4. c.op = "list" /\ PubCallHolds(c)
      BY <3>3 DEF PubCallHolds
    <3>5. call' = [call EXCEPT ![s] = c] /\ UNCHANGED <<accountVars, memberVars, publicationVars>>
      BY <2>1, <3>1, <3>2, Zenon DEF ListRead, Begin
    <3>6. call[s].op # "invite"
      BY <2>1 DEF ListRead, Begin, NoCall
    <3> QED BY <3>4, <3>5, <3>6
  <2>2. ASSUME NEW k, NEW pr \in Project, AssignRead(s, p, k, pr, stepUp) PROVE \E c : Begins(c)
    <3>1. PICK c : c = [op |-> "assign", pub |-> k, by |-> p, project |-> pr, stepUp |-> stepUp]
      OBVIOUS
    <3>2. k \in Nat
      BY <1>1, <2>2 DEF AssignRead, Owned, PublicationsInStep
    <3>3. c.op = "assign" /\ PubCallHolds(c)
      BY <3>1, <3>2 DEF PubCallHolds
    <3>4. call' = [call EXCEPT ![s] = c] /\ UNCHANGED <<accountVars, memberVars, publicationVars>>
      BY <2>2, <3>1, Zenon DEF AssignRead, Begin
    <3>5. call[s].op # "invite"
      BY <2>2 DEF AssignRead, Begin, NoCall
    <3> QED BY <3>3, <3>4, <3>5
  <2>3. ASSUME NEW k, NEW pr \in Project \cup {NoProject}, RemoveRead(s, p, stepUp, k, pr) PROVE \E c : Begins(c)
    <3>1. PICK c : c = [op |-> "remove", at |-> IF pubs[k].legacy = NoProject THEN "look" ELSE "link",
                        pub |-> k, by |-> p, stepUp |-> stepUp, project |-> pr, legacy |-> pubs[k].legacy]
      OBVIOUS
    <3>2. k \in Nat /\ pubs[k].legacy \in Project \cup {NoProject}
      BY <1>1, <2>3 DEF RemoveRead, PublicationsInStep, PublicationRow
    <3>3. c.op = "remove" /\ PubCallHolds(c)
      BY <3>1, <3>2 DEF PubCallHolds
    <3>4. call' = [call EXCEPT ![s] = c] /\ UNCHANGED <<accountVars, memberVars, publicationVars>>
      BY <2>3, <3>1, Zenon DEF RemoveRead, Begin
    <3>5. call[s].op # "invite"
      BY <2>3 DEF RemoveRead, Begin, NoCall
    <3> QED BY <3>3, <3>4, <3>5
  <2> QED BY <2>1, <2>2, <2>3
<1>3. PICK c : Begins(c)
  BY <1>2
<1>4. pubs' = pubs /\ \A k \in DOMAIN pubs : pubs[k].decided \in Nat
  BY <1>1, <1>3 DEF PublicationsInStep, PublicationRow, publicationVars
<1>5. CallHolds(c)'
  BY <1>3, <1>4 DEF CallHolds, SignInHolds, InvitesHold, PubCallHolds, CatalogueCallHolds, NoticeHolds
<1>6. WorkspaceInStep'
  <2>1. c.op # "invite"
    BY <1>3
  <2> QED BY <1>3, <1>5, <2>1, QuietBegin, QuietMembers
<1> QED BY <1>4, <1>6 DEF ApprovalKept

LEMMA PublicationStepKeeps ==
  ASSUME WorkspaceInStep, PublicationStep
  PROVE  WorkspaceInStep' /\ ApprovalKept
<1>1. \A p \in Person : StepUps(p) \subseteq BOOLEAN
  BY DEF StepUps
<1>2. UNCHANGED <<catalogueVars, orcids>>
  BY DEF PublicationStep
<1>3. ASSUME NEW p \in Person, NEW pr \in Project, NEW stepUp \in StepUps(p),
             \/ CreateByHand(p, stepUp, pr)
             \/ \E w \in Work, type \in IdType : CreateById(p, stepUp, pr, w, type)
             \/ \E works \in (SUBSET Work) \ {{}} : AddToProject(p, stepUp, pr, works)
      PROVE  WorkspaceInStep' /\ ApprovalKept
  BY <1>2, <1>3, CreateStep, AddStep
<1>4. ASSUME NEW s \in Session, UpdateWrite(s) \/ AssignWrite(s) \/ ListLink(s) \/ ListClear(s) \/ RemoveSteps(s)
      PROVE  WorkspaceInStep' /\ ApprovalKept
  BY <1>2, <1>4, UpdateWriteStep, AssignWriteStep, ListStep, RemoveStep
<1>5. ASSUME NEW p \in Person, NEW s \in Session, NEW stepUp \in StepUps(p),
             \/ \E pr \in Project : ListRead(s, p, stepUp, pr)
             \/ \E k \in DOMAIN pubs, pr \in Project : AssignRead(s, p, k, pr, stepUp)
             \/ \E k \in DOMAIN pubs, pr \in Project \cup {NoProject} : RemoveRead(s, p, stepUp, k, pr)
      PROVE  WorkspaceInStep' /\ ApprovalKept
  <2>1. stepUp \in BOOLEAN
    BY <1>1
  <2> QED BY <1>2, <1>5, <2>1, LinkReadStep
<1>6. ASSUME NEW p \in Person, NEW k \in DOMAIN pubs,
             \/ DeleteOwned(p, k)
             \/ \E status \in {"approved", "rejected"} : Review(p, k, status)
             \/ \E s \in Session : UpdateRead(s, p, k)
      PROVE  WorkspaceInStep' /\ ApprovalKept
  BY <1>2, <1>6, DeleteOwnedStep, ReviewStep, UpdateReadStep
<1> QED BY <1>3, <1>4, <1>5, <1>6, Zenon DEF PublicationStep, RemoveSteps

-----------------------------------------------------------------------------
(* Resources and their attributes.                                         *)

LEMMA CatalogueFrame ==
  ASSUME WorkspaceInStep, CatalogueInStep', UNCHANGED <<accountVars, memberVars, publicationVars, orcids>>,
         \/ call' = call
         \/ \E s \in Session : \E c : call' = [call EXCEPT ![s] = c] /\ call[s].op # "invite" /\ c.op # "invite" /\ CallHolds(c)'
  PROVE  WorkspaceInStep'
<1>1. AccountsInStep' /\ UsersGoOn
  BY AccountsStay DEF WorkspaceInStep
<1>2. CallsInStep' /\ MembersInStep'
  <2>1. CASE call' = call
    BY <1>1, <2>1, QuietOnce, MembersStay, WaitingKept DEF WorkspaceInStep, memberVars
  <2>2. ASSUME NEW s \in Session, NEW c, call' = [call EXCEPT ![s] = c],
               call[s].op # "invite", c.op # "invite", CallHolds(c)'
        PROVE  CallsInStep' /\ MembersInStep'
    BY <2>2, QuietBegin
  <2> QED BY <2>1, <2>2
<1> QED BY <1>1, <1>2, PublicationsStay, OrcidsStay DEF WorkspaceInStep

LEMMA NewTypeIsNumber ==
  ASSUME WorkspaceInStep
  PROVE  NewType \in Nat
<1> DEFINE T == {t \in Session : call[t].op = "delete_type"}
           S == {0} \cup DOMAIN attributeTypes \cup {call[s].type : s \in T}
<1>1. IsFiniteSet(DOMAIN attributeTypes) /\ DOMAIN attributeTypes \subseteq Nat
  BY DEF WorkspaceInStep, CatalogueInStep
<1>2. \A s \in T : call[s].type \in Nat
  BY DEF WorkspaceInStep, CallsInStep, CallHolds, CatalogueCallHolds
<1>3. IsFiniteSet({call[s].type : s \in T})
  <2>1. PICK f : f = [s \in T |-> call[s].type]
    OBVIOUS
  <2>2. IsFiniteSet(T)
    BY AccountsAssumption, FS_Subset
  <2>3. {call[s].type : s \in T} = {f[s] : s \in T}
    BY <2>1
  <2>4. IsFiniteSet({f[s] : s \in T})
    <3> HIDE DEF T
    <3> QED BY <2>2, FiniteImage
  <2> QED BY <2>3, <2>4
<1>4. IsFiniteSet(S)
  <2>1. IsFiniteSet({0})
    BY FS_Singleton
  <2> QED BY <1>1, <1>3, <2>1, FS_Union
<1>5. S \in SUBSET Nat /\ S # {}
  BY <1>1, <1>2
<1>6. Max(S) \in Nat
  <2> HIDE DEF S
  <2> QED BY <1>4, <1>5, GreatestIsMember
<1> QED BY <1>6 DEF NewType

LEMMA CreateTypeStep ==
  ASSUME WorkspaceInStep, NEW p, NEW name \in AttributeName, NEW required \in BOOLEAN,
         CreateAttributeType(p, name, required), UNCHANGED <<memberVars, publicationVars, orcids>>
  PROVE  WorkspaceInStep'
<1>1. PICK t : t = NewType
  OBVIOUS
<1>2. PICK row : row = [name |-> name, required |-> required]
  OBVIOUS
<1>3. /\ \A u \in DOMAIN attributeTypes : attributeTypes[u].name # name
      /\ attributeTypes' = Put(attributeTypes, t, row) /\ call' = call
      /\ UNCHANGED <<accountVars, resources, attributes>>
  BY <1>1, <1>2 DEF CreateAttributeType, Once
<1>4. CatalogueInStep /\ CatalogueTypeOK
  BY DEF WorkspaceInStep, CatalogueInStep
<1>5. t \in Nat /\ row \in AttributeTypeRow /\ row.name = name
  BY <1>1, <1>2, NewTypeIsNumber DEF AttributeTypeRow
<1>6. /\ DOMAIN attributeTypes' = DOMAIN attributeTypes \cup {t}
      /\ attributeTypes' = [u \in DOMAIN attributeTypes' |-> attributeTypes'[u]]
      /\ attributeTypes'[t] = row /\ \A u \in DOMAIN attributeTypes \ {t} : attributeTypes'[u] = attributeTypes[u]
  BY <1>3 DEF Put
<1>7. \A u \in DOMAIN attributeTypes' : attributeTypes'[u] \in AttributeTypeRow
  BY <1>4, <1>5, <1>6 DEF CatalogueInStep
<1>8. IsFiniteSet(DOMAIN attributeTypes') /\ DOMAIN attributeTypes' \subseteq Nat
  BY <1>4, <1>5, <1>6, FS_AddElement DEF CatalogueInStep
<1>9. \A u, v \in DOMAIN attributeTypes' : attributeTypes'[u].name = attributeTypes'[v].name => u = v
  <2> SUFFICES ASSUME NEW u \in DOMAIN attributeTypes', NEW v \in DOMAIN attributeTypes', u # v
               PROVE  attributeTypes'[u].name # attributeTypes'[v].name
    OBVIOUS
  <2>1. CASE u = t
    BY <1>3, <1>5, <1>6, <2>1
  <2>2. CASE v = t
    BY <1>3, <1>5, <1>6, <2>2
  <2>3. CASE u # t /\ v # t
    BY <1>4, <1>6, <2>3 DEF CatalogueTypeOK
  <2> QED BY <2>1, <2>2, <2>3
<1>10. \A a \in attributes' : a \in AttributeRow' /\ a.value # Empty
  BY <1>3, <1>4, <1>6 DEF CatalogueTypeOK, AttributeRow
<1>11. CatalogueTypeOK'
  BY <1>3, <1>4, <1>7, <1>9, <1>10 DEF CatalogueTypeOK, ResourceRow, AttributeTypeRow
<1>12. CatalogueInStep'
  BY <1>3, <1>4, <1>6, <1>7, <1>8, <1>11 DEF CatalogueInStep, ResourceRow, AttributeTypeRow
<1> QED BY <1>3, <1>12, CatalogueFrame

LEMMA DeleteTypeStep ==
  ASSUME WorkspaceInStep, NEW s \in Session, DeleteTypeWrite(s), UNCHANGED <<memberVars, publicationVars, orcids>>
  PROVE  WorkspaceInStep'
<1>1. PICK t : t = call[s].type
  OBVIOUS
<1>2. /\ call[s].op = "delete_type" /\ call' = [call EXCEPT ![s] = NoCall] /\ NoCall.op # "invite"
      /\ \/ attributeTypes' = attributeTypes
         \/ ~Used(t) /\ attributeTypes' = [u \in DOMAIN attributeTypes \ {t} |-> attributeTypes[u]]
      /\ UNCHANGED <<accountVars, resources, attributes>>
  BY <1>1 DEF DeleteTypeWrite, End, Become, NoCall
<1>3. CatalogueInStep /\ CatalogueTypeOK
  BY DEF WorkspaceInStep, CatalogueInStep
<1>4. CatalogueInStep'
  <2>1. CASE attributeTypes' = attributeTypes
    BY <1>2, <1>3, <2>1, CatalogueStays DEF catalogueVars
  <2>2. CASE ~Used(t) /\ attributeTypes' = [u \in DOMAIN attributeTypes \ {t} |-> attributeTypes[u]]
    <3>1. DOMAIN attributeTypes' = DOMAIN attributeTypes \ {t} /\ \A u \in DOMAIN attributeTypes' : attributeTypes'[u] = attributeTypes[u]
      BY <2>2
    <3>2. IsFiniteSet(DOMAIN attributeTypes') /\ DOMAIN attributeTypes' \subseteq Nat
      <4>1. IsFiniteSet(DOMAIN attributeTypes) /\ DOMAIN attributeTypes \subseteq Nat
        BY <1>3 DEF CatalogueInStep
      <4>2. IsFiniteSet(DOMAIN attributeTypes \ {t})
        BY <4>1, FS_RemoveElement
      <4> QED BY <3>1, <4>1, <4>2
    <3>3. \A a \in attributes : a.type # t
      BY <2>2 DEF Used
    <3>4. \A a \in attributes' : a \in AttributeRow' /\ a.value # Empty
      <4> SUFFICES ASSUME NEW a \in attributes PROVE a \in AttributeRow' /\ a.value # Empty
        BY <1>2
      <4>1. a \in AttributeRow /\ a.value # Empty /\ a.type # t
        BY <1>3, <3>3 DEF CatalogueTypeOK
      <4> QED BY <1>2, <3>1, <4>1 DEF AttributeRow
    <3>5. CatalogueTypeOK'
      BY <1>2, <1>3, <3>1, <3>4 DEF CatalogueTypeOK, ResourceRow, AttributeTypeRow
    <3>6. attributeTypes' \in [DOMAIN attributeTypes' -> AttributeTypeRow]
      BY <1>3, <2>2, <3>1 DEF CatalogueInStep
    <3> QED BY <1>2, <1>3, <3>2, <3>5, <3>6 DEF CatalogueInStep, ResourceRow, AttributeTypeRow
  <2> QED BY <1>2, <2>1, <2>2
<1> QED BY <1>2, <1>4, CatalogueFrame, NoCallHolds

LEMMA CatalogueReadStep ==
  ASSUME WorkspaceInStep, NEW s \in Session, NEW p, UNCHANGED <<memberVars, publicationVars, orcids>>,
         \/ \E t \in DOMAIN attributeTypes : DeleteTypeRead(s, p, t)
         \/ \E r, form : form \in Form /\ SaveRead(s, p, r, form)
  PROVE  WorkspaceInStep'
<1>1. PICK c : /\ \/ c.op = "delete_type" /\ c.type \in DOMAIN attributeTypes
                  \/ c.op = "save" /\ c.form \in Form
               /\ call[s].op # "invite"
               /\ call' = [call EXCEPT ![s] = c] /\ UNCHANGED <<accountVars, catalogueVars>>
  <2>1. ASSUME NEW t \in DOMAIN attributeTypes, DeleteTypeRead(s, p, t)
        PROVE  \E c : /\ c.op = "delete_type" /\ c.type \in DOMAIN attributeTypes /\ call[s].op # "invite"
                      /\ call' = [call EXCEPT ![s] = c] /\ UNCHANGED <<accountVars, catalogueVars>>
    <3>1. PICK c : c = [op |-> "delete_type", type |-> t]
      OBVIOUS
    <3>2. c.op = "delete_type" /\ c.type = t
      BY <3>1
    <3>3. /\ call[s].op # "invite"
          /\ call' = [call EXCEPT ![s] = c] /\ UNCHANGED <<accountVars, catalogueVars>>
      BY <2>1, <3>1 DEF DeleteTypeRead, Begin, NoCall
    <3> QED BY <3>2, <3>3
  <2>2. ASSUME NEW r, NEW form \in Form, SaveRead(s, p, r, form)
        PROVE  \E c : /\ c.op = "save" /\ c.form \in Form /\ call[s].op # "invite"
                      /\ call' = [call EXCEPT ![s] = c] /\ UNCHANGED <<accountVars, catalogueVars>>
    <3>1. PICK c : c = [op |-> "save", resource |-> r, form |-> form]
      OBVIOUS
    <3>2. c.op = "save" /\ c.form = form
      BY <3>1
    <3>3. /\ call[s].op # "invite"
          /\ call' = [call EXCEPT ![s] = c] /\ UNCHANGED <<accountVars, catalogueVars>>
      BY <2>2, <3>1 DEF SaveRead, Begin, NoCall
    <3> QED BY <3>2, <3>3
  <2> QED BY <2>1, <2>2
<1>2. DOMAIN attributeTypes \subseteq Nat
  BY DEF WorkspaceInStep, CatalogueInStep
<1>3. CallHolds(c)'
  BY <1>1, <1>2 DEF CallHolds, SignInHolds, InvitesHold, PubCallHolds, CatalogueCallHolds, NoticeHolds
<1>4. CatalogueInStep'
  BY <1>1, CatalogueStays DEF WorkspaceInStep
<1>5. c.op # "invite"
  BY <1>1
<1> QED BY <1>1, <1>3, <1>4, <1>5, CatalogueFrame

LEMMA FirstValueIsText ==
  ASSUME NEW form \in Form, NEW key \in Keys(form)
  PROVE  FirstValue(form, key) \in STRING
<1> DEFINE S == {i \in DOMAIN form.attributes : form.attributes[i].key = key}
<1>1. PICK list : list = form.attributes
  OBVIOUS
<1>2. list \in Seq([key : STRING, value : STRING])
  BY <1>1, CatalogueAssumption
<1>3. S \in SUBSET Nat /\ S # {}
  BY <1>1, <1>2 DEF Keys
<1>4. Min(S) \in S
  <2> HIDE DEF S
  <2> QED BY <1>3, LeastIsMember
<1>5. PICK i : i = Min(S)
  OBVIOUS
<1>6. list[i] \in [key : STRING, value : STRING]
  <2>1. i \in DOMAIN list
    BY <1>1, <1>4, <1>5
  <2>2. PICK R : R = [key : STRING, value : STRING]
    OBVIOUS
  <2>3. list \in Seq(R)
    BY <1>2, <2>2
  <2>4. list[i] \in R
    BY <2>1, <2>3
  <2> QED BY <2>2, <2>4
<1>7. FirstValue(form, key) = list[i].value
  BY <1>1, <1>5 DEF FirstValue
<1> QED BY <1>6, <1>7

\* What a form stores for a resource: of each type at most one value, none empty.
LEMMA StoredAttributes ==
  ASSUME NEW form \in Form, NEW r, NEW a \in AttributesOf(r, form)
  PROVE  /\ a.resource = r /\ a.type \in DOMAIN attributeTypes /\ a.value \in STRING /\ a.value # Empty
         /\ a = [resource |-> a.resource, type |-> a.type, value |-> a.value]
         /\ \A b \in AttributesOf(r, form) : b.type = a.type => b = a
<1>1. PICK t \in DOMAIN attributeTypes :
        /\ attributeTypes[t].name \in Keys(form) /\ FirstValue(form, attributeTypes[t].name) # Empty
        /\ a = [resource |-> r, type |-> t, value |-> FirstValue(form, attributeTypes[t].name)]
  BY DEF AttributesOf
<1>2. PICK value : value = FirstValue(form, attributeTypes[t].name)
  OBVIOUS
<1>3. value \in STRING /\ value # Empty
  BY <1>1, <1>2, FirstValueIsText
<1>4. a = [resource |-> r, type |-> t, value |-> value]
  BY <1>1, <1>2
<1>5. a.resource = r /\ a.type = t /\ a.value = value
  BY <1>4
<1>6. ASSUME NEW b \in AttributesOf(r, form), b.type = a.type
      PROVE  b = a
  <2>1. PICK u \in DOMAIN attributeTypes :
          b = [resource |-> r, type |-> u, value |-> FirstValue(form, attributeTypes[u].name)]
    BY DEF AttributesOf
  <2>2. u = t
    BY <1>5, <1>6, <2>1
  <2> QED BY <1>2, <1>4, <2>1, <2>2
<1> QED BY <1>1, <1>3, <1>4, <1>5, <1>6

\* Saving replaces the values of one resource, which has another name than the others.
LEMMA SavedResource ==
  ASSUME CatalogueInStep, NEW form \in Form, NEW r, ~NameTaken(r, form), attributeTypes' = attributeTypes,
         DOMAIN resources' = DOMAIN resources \cup {r}, r \in Nat,
         Cardinality(DOMAIN resources') \in Nat, DOMAIN resources' = 1..Cardinality(DOMAIN resources'),
         resources' = [q \in DOMAIN resources' |-> resources'[q]], resources'[r] = [name |-> form.name],
         \A q \in DOMAIN resources \ {r} : resources'[q] = resources[q],
         attributes' = {a \in attributes : a.resource # r} \cup AttributesOf(r, form)
  PROVE  CatalogueInStep'
<1>1. CatalogueTypeOK
  BY DEF CatalogueInStep
<1>2. \A q \in DOMAIN resources' : resources'[q] \in ResourceRow
  BY <1>1 DEF CatalogueTypeOK, ResourceRow
<1>3. resources'[r].name = form.name
  OBVIOUS
<1>4. ASSUME NEW q \in DOMAIN resources', NEW w \in DOMAIN resources', q # w
      PROVE  resources'[q].name # resources'[w].name
  <2>1. CASE q = r
    BY <1>3, <1>4, <2>1 DEF NameTaken
  <2>2. CASE w = r
    BY <1>3, <1>4, <2>2 DEF NameTaken
  <2>3. CASE q # r /\ w # r
    BY <1>1, <1>4, <2>3 DEF CatalogueTypeOK
  <2> QED BY <2>1, <2>2, <2>3
<1>5. ASSUME NEW a \in attributes'
      PROVE  a \in AttributeRow' /\ a.value # Empty
  <2>1. CASE a \in attributes
    BY <1>1, <2>1 DEF CatalogueTypeOK, AttributeRow
  <2>2. CASE a \in AttributesOf(r, form)
    <3>1. /\ a.resource = r /\ a.type \in DOMAIN attributeTypes /\ a.value \in STRING /\ a.value # Empty
          /\ a = [resource |-> a.resource, type |-> a.type, value |-> a.value]
      BY <2>2, StoredAttributes
    <3> QED BY <3>1 DEF AttributeRow
  <2> QED BY <2>1, <2>2
<1>6. ASSUME NEW a \in attributes', NEW b \in attributes', a.resource = b.resource, a.type = b.type
      PROVE  a = b
  <2>1. CASE a.resource = r
    <3>1. a \in AttributesOf(r, form) /\ b \in AttributesOf(r, form)
      BY <1>6, <2>1
    <3> QED BY <1>6, <3>1, StoredAttributes
  <2>2. CASE a.resource # r
    <3>1. a \in attributes /\ b \in attributes
      BY <1>6, <2>2, StoredAttributes
    <3> QED BY <1>1, <1>6, <3>1 DEF CatalogueTypeOK
  <2> QED BY <2>1, <2>2
<1>7. CatalogueTypeOK'
  BY <1>1, <1>2, <1>4, <1>5, <1>6 DEF CatalogueTypeOK, ResourceRow, AttributeTypeRow
<1>8. resources' \in [DOMAIN resources' -> ResourceRow]
  BY <1>2
<1> QED BY <1>7, <1>8 DEF CatalogueInStep, ResourceRow, AttributeTypeRow

LEMMA CreateWriteStep ==
  ASSUME WorkspaceInStep, NEW s \in Session, CreateWrite(s), UNCHANGED <<memberVars, publicationVars, orcids>>
  PROVE  WorkspaceInStep'
<1>1. PICK r : r = Cardinality(DOMAIN resources) + 1
  OBVIOUS
<1>2. PICK form : form = call[s].form
  OBVIOUS
<1>3. PICK row : row = [name |-> form.name]
  OBVIOUS
<1>4. /\ call[s].op = "save" /\ call' = [call EXCEPT ![s] = NoCall] /\ NoCall.op # "invite"
      /\ \/ UNCHANGED <<resources, attributes>>
         \/ /\ ~NameTaken(r, form) /\ resources' = Put(resources, r, row)
            /\ attributes' = attributes \cup AttributesOf(r, form)
      /\ UNCHANGED <<accountVars, attributeTypes>>
  BY <1>1, <1>2, <1>3 DEF CreateWrite, End, Become, NoCall
<1>5. CatalogueInStep /\ CatalogueTypeOK /\ form \in Form
  BY <1>2, <1>4 DEF WorkspaceInStep, CatalogueInStep, CallsInStep, CallHolds, CatalogueCallHolds
<1>6. CatalogueInStep'
  <2>1. CASE UNCHANGED <<resources, attributes>>
    BY <1>4, <1>5, <2>1, CatalogueStays DEF catalogueVars
  <2>2. CASE /\ ~NameTaken(r, form) /\ resources' = Put(resources, r, row)
             /\ attributes' = attributes \cup AttributesOf(r, form)
    <3>1. PICK n \in Nat : r = n + 1 /\ DOMAIN resources = 1..n
      BY <1>1, <1>5 DEF CatalogueInStep
    <3>2. r = n + 1 /\ r \in Nat /\ r \notin DOMAIN resources
      <4>1. r \in Nat /\ r \notin 1..n
        BY <3>1
      <4> QED BY <3>1, <4>1
    <3>3. /\ DOMAIN resources' = DOMAIN resources \cup {r}
          /\ resources' = [q \in DOMAIN resources' |-> resources'[q]]
          /\ resources'[r] = row /\ \A q \in DOMAIN resources \ {r} : resources'[q] = resources[q]
      BY <2>2 DEF Put
    <3>4. DOMAIN resources' = 1..r
      <4>1. 1..r = 1..n \cup {r}
        BY <3>2
      <4>2. DOMAIN resources' = DOMAIN resources \cup {r} /\ DOMAIN resources = 1..n
        BY <3>1, <3>3
      <4> QED BY <4>1, <4>2, Zenon
    <3>5. Cardinality(1..r) = r
      BY <3>2, FS_Interval
    <3>6. attributes' = {a \in attributes : a.resource # r} \cup AttributesOf(r, form)
      <4>1. \A a \in attributes : a.resource \in DOMAIN resources
        BY <1>5 DEF CatalogueTypeOK, AttributeRow
      <4> QED BY <2>2, <3>2, <4>1
    <3> QED BY <1>3, <1>4, <1>5, <2>2, <3>2, <3>3, <3>4, <3>5, <3>6, SavedResource
  <2> QED BY <1>4, <2>1, <2>2
<1> QED BY <1>4, <1>6, CatalogueFrame, NoCallHolds

LEMMA UpdateResourceStep ==
  ASSUME WorkspaceInStep, NEW s \in Session, UpdateResourceWrite(s), UNCHANGED <<memberVars, publicationVars, orcids>>
  PROVE  WorkspaceInStep'
<1>1. PICK r : r = call[s].resource
  OBVIOUS
<1>2. PICK form : form = call[s].form
  OBVIOUS
<1>3. /\ call[s].op = "save" /\ call' = [call EXCEPT ![s] = NoCall] /\ NoCall.op # "invite"
      /\ \/ UNCHANGED <<resources, attributes>>
         \/ /\ r \in DOMAIN resources /\ ~NameTaken(r, form) /\ resources' = [resources EXCEPT ![r].name = form.name]
            /\ attributes' = {row \in attributes : row.resource # r} \cup AttributesOf(r, form)
      /\ UNCHANGED <<accountVars, attributeTypes>>
  BY <1>1, <1>2 DEF UpdateResourceWrite, End, Become, NoCall
<1>4. CatalogueInStep /\ form \in Form
  BY <1>2, <1>3 DEF WorkspaceInStep, CallsInStep, CallHolds, CatalogueCallHolds
<1>5. CatalogueInStep'
  <2>1. CASE UNCHANGED <<resources, attributes>>
    BY <1>3, <1>4, <2>1, CatalogueStays DEF catalogueVars
  <2>2. CASE /\ r \in DOMAIN resources /\ ~NameTaken(r, form) /\ resources' = [resources EXCEPT ![r].name = form.name]
             /\ attributes' = {row \in attributes : row.resource # r} \cup AttributesOf(r, form)
    <3>1. r \in Nat /\ resources[r] \in ResourceRow
      BY <1>4, <2>2 DEF CatalogueInStep
    <3>2. resources'[r] = [name |-> form.name]
      BY <2>2, <3>1 DEF ResourceRow
    <3>3. /\ DOMAIN resources' = DOMAIN resources \cup {r}
          /\ resources' = [q \in DOMAIN resources' |-> resources'[q]]
          /\ \A q \in DOMAIN resources \ {r} : resources'[q] = resources[q]
          /\ DOMAIN resources' = DOMAIN resources
      BY <2>2
    <3>4. Cardinality(DOMAIN resources') \in Nat /\ DOMAIN resources' = 1..Cardinality(DOMAIN resources')
      BY <1>4, <3>3 DEF CatalogueInStep
    <3> QED BY <1>3, <1>4, <2>2, <3>1, <3>2, <3>3, <3>4, SavedResource
  <2> QED BY <1>3, <2>1, <2>2
<1> QED BY <1>3, <1>5, CatalogueFrame, NoCallHolds

LEMMA CatalogueStepKeeps ==
  ASSUME WorkspaceInStep, CatalogueStep
  PROVE  WorkspaceInStep'
BY CreateTypeStep, DeleteTypeStep, CatalogueReadStep, CreateWriteStep, UpdateResourceStep DEF CatalogueStep

-----------------------------------------------------------------------------
(* Notifications, and a restart.                                           *)

LEMMA EntriesNamePeople ==
  ASSUME NEW e \in Entries
  PROVE  e.login \in Person /\ e.orcids \subseteq Orcid /\ e.orcids \subseteq NamedOf(e.login)
<1>1. PICK notice \in Notice : e \in ToSet(notice)
  BY DEF Entries
<1>2. PICK i \in DOMAIN notice : e = notice[i]
  BY <1>1 DEF ToSet
<1>3. PICK R : R = [login : Person, orcids : SUBSET Orcid]
  OBVIOUS
<1>4. notice \in Seq(R)
  BY <1>1, <1>3, NoticeAssumption
<1>5. e \in R
  BY <1>2, <1>4
<1>6. e \in UNION {ToSet(n) : n \in Notice}
  BY <1>1
<1> QED BY <1>3, <1>5, <1>6 DEF NamedOf

LEMMA NoticesAreEntries ==
  ASSUME NEW notice \in Notice
  PROVE  notice \in Seq(Entries)
<1>1. PICK R : notice \in Seq(R)
  BY NoticeAssumption
<1>2. \A i \in 1..Len(notice) : notice[i] \in Entries
  BY <1>1 DEF Entries, ToSet
<1>3. notice \in [1..Len(notice) -> Entries] /\ Len(notice) \in Nat
  BY <1>1, <1>2
<1> QED BY <1>3

LEMMA OrcidFrame ==
  ASSUME WorkspaceInStep, OrcidsTypeOK', UNCHANGED <<accountVars, memberVars, publicationVars, catalogueVars>>,
         NEW s \in Session, NEW c, call' = [call EXCEPT ![s] = c],
         call[s].op # "invite", c.op # "invite", CallHolds(c)'
  PROVE  WorkspaceInStep'
BY AccountsStay, QuietBegin, PublicationsStay, CatalogueStays DEF WorkspaceInStep

NoticeCall == [op : {"notice"}, todo : Seq(Entries), user : Nat, old : SUBSET Orcid, new : SUBSET Orcid]

LEMMA NoticeCallHolds ==
  ASSUME NEW c \in NoticeCall, users' = users,
         c.new # {} => /\ c.user \in DOMAIN users /\ users[c.user].sub # Nobody
                       /\ c.new \subseteq NamedOf(users[c.user].sub)
  PROVE  CallHolds(c)' /\ c.op # "invite"
<1>1. c.op = "notice"
  BY DEF NoticeCall
<1> QED BY <1>1 DEF NoticeCall, CallHolds, SignInHolds, InvitesHold, PubCallHolds, CatalogueCallHolds, NoticeHolds,
                    NamedOf, Entries

LEMMA NotifyStep ==
  ASSUME WorkspaceInStep, NEW s \in Session, NEW notice \in Notice, Notify(s, notice),
         UNCHANGED <<memberVars, publicationVars, catalogueVars>>
  PROVE  WorkspaceInStep'
<1>1. PICK c : c = [op |-> "notice", todo |-> notice, user |-> 0, old |-> {}, new |-> {}]
  OBVIOUS
<1>2. c \in NoticeCall /\ c.new = {}
  BY <1>1, NoticesAreEntries DEF NoticeCall
<1>3. call[s].op # "invite" /\ call' = [call EXCEPT ![s] = c] /\ UNCHANGED <<accountVars, orcids>>
  BY <1>1 DEF Notify, Begin, NoCall
<1>4. CallHolds(c)' /\ c.op # "invite"
  BY <1>2, <1>3, NoticeCallHolds DEF accountVars
<1>5. OrcidsTypeOK'
  BY <1>3, AccountsStay, OrcidsStay DEF WorkspaceInStep
<1> QED BY <1>3, <1>4, <1>5, OrcidFrame

LEMMA ReadEntryStep ==
  ASSUME WorkspaceInStep, NEW s \in Session, ReadEntry(s), UNCHANGED <<memberVars, publicationVars, catalogueVars>>
  PROVE  WorkspaceInStep'
<1>1. PICK c : c = call[s]
  OBVIOUS
<1>2. PICK entry : entry = Head(c.todo)
  OBVIOUS
<1>3. PICK u : u = UserOf(entry.login)
  OBVIOUS
<1>4. PICK named : named = entry.orcids \ OrcidsOf(u)
  OBVIOUS
<1>5. PICK gone : gone = OrcidsOf(u) \ entry.orcids
  OBVIOUS
<1>6. PICK d : d = IF entry.login \notin Known THEN [c EXCEPT !.todo = Tail(@)]
                   ELSE [c EXCEPT !.todo = Tail(@), !.user = u, !.old = gone, !.new = named]
  OBVIOUS
<1>7. /\ c.op = "notice" /\ c.new = {} /\ c.todo # <<>> /\ call' = [call EXCEPT ![s] = d]
      /\ UNCHANGED <<accountVars, orcids>>
  BY <1>1, <1>2, <1>3, <1>4, <1>5, <1>6 DEF ReadEntry, Compared, Become
<1>8. c \in NoticeCall
  BY <1>1, <1>7 DEF WorkspaceInStep, CallsInStep, CallHolds, NoticeHolds, NoticeCall
<1>9. PICK rest : rest = Tail(c.todo)
  OBVIOUS
<1>10. entry \in Entries /\ rest \in Seq(Entries)
  <2>1. PICK list : list = c.todo
    OBVIOUS
  <2>2. list \in Seq(Entries) /\ list # <<>>
    BY <1>7, <1>8, <2>1 DEF NoticeCall
  <2>3. Head(list) \in Entries /\ Tail(list) \in Seq(Entries)
    BY <2>2
  <2> QED BY <1>2, <1>9, <2>1, <2>3
<1>11. CallHolds(d)' /\ d.op # "invite"
  <2>1. CASE entry.login \notin Known
    <3>1. d = [c EXCEPT !.todo = rest]
      BY <1>6, <1>9, <2>1
    <3>2. d \in NoticeCall /\ d.new = {}
      BY <1>7, <1>8, <1>10, <3>1 DEF NoticeCall
    <3> QED BY <1>7, <3>2, NoticeCallHolds DEF accountVars
  <2>2. CASE entry.login \in Known
    <3>1. d = [c EXCEPT !.todo = rest, !.user = u, !.old = gone, !.new = named]
      BY <1>6, <1>9, <2>2
    <3>2. u \in DOMAIN users /\ users[u].sub = entry.login /\ u \in Nat
      BY <1>3, <2>2, KnownHaveRows DEF WorkspaceInStep
    <3>3. entry.login \in Person /\ named \subseteq Orcid /\ named \subseteq NamedOf(entry.login)
      BY <1>4, <1>10, EntriesNamePeople
    <3>4. gone \subseteq Orcid
      BY <1>5 DEF OrcidsOf
    <3>5. d = [op |-> c.op, todo |-> rest, user |-> u, old |-> gone, new |-> named]
      BY <1>8, <3>1 DEF NoticeCall
    <3>6. d \in NoticeCall /\ d.user = u /\ d.new = named
      BY <1>7, <1>10, <3>2, <3>3, <3>4, <3>5 DEF NoticeCall
    <3>7. users[d.user].sub # Nobody /\ d.new \subseteq NamedOf(users[d.user].sub)
      BY <3>2, <3>3, <3>6, AccountsAssumption
    <3> QED BY <1>7, <3>2, <3>6, <3>7, NoticeCallHolds DEF accountVars
  <2> QED BY <2>1, <2>2
<1>12. OrcidsTypeOK'
  BY <1>7, AccountsStay, OrcidsStay DEF WorkspaceInStep
<1> QED BY <1>1, <1>7, <1>11, <1>12, OrcidFrame

\* An ORCID is taken away, or given to whom it is named for.
LEMMA OrcidChangeStep ==
  ASSUME WorkspaceInStep, NEW s \in Session, NEW o \in Orcid, DeleteOld(s, o) \/ SaveNew(s, o),
         UNCHANGED <<memberVars, publicationVars, catalogueVars>>
  PROVE  WorkspaceInStep'
<1>1. PICK c : c = call[s]
  OBVIOUS
<1>2. PICK old, new : old = c.old \ {o} /\ new = c.new \ {o}
  OBVIOUS
<1>3. PICK d : /\ \/ orcids' \subseteq orcids /\ (d = NoCall \/ d = [c EXCEPT !.old = old])
                  \/ o \in c.new /\ orcids' = orcids \cup {<<c.user, o>>} /\ d = [c EXCEPT !.new = new]
               /\ c.op = "notice" /\ call' = [call EXCEPT ![s] = d] /\ UNCHANGED accountVars
  <2>1. CASE DeleteOld(s, o)
    <3>1. PICK d : d = [c EXCEPT !.old = old]
      OBVIOUS
    <3>2. /\ orcids' \subseteq orcids /\ c.op = "notice" /\ call' = [call EXCEPT ![s] = d] /\ UNCHANGED accountVars
      BY <1>1, <1>2, <2>1, <3>1 DEF DeleteOld, Become
    <3> QED BY <3>1, <3>2
  <2>2. CASE SaveNew(s, o)
    <3>1. CASE <<c.user, o>> \in orcids
      <4>1. /\ orcids' \subseteq orcids /\ c.op = "notice" /\ call' = [call EXCEPT ![s] = NoCall]
            /\ UNCHANGED accountVars
        BY <1>1, <2>2, <3>1 DEF SaveNew, End, Become
      <4> QED BY <4>1
    <3>2. CASE <<c.user, o>> \notin orcids
      <4>1. PICK d : d = [c EXCEPT !.new = new]
        OBVIOUS
      <4>2. /\ o \in c.new /\ orcids' = orcids \cup {<<c.user, o>>}
            /\ c.op = "notice" /\ call' = [call EXCEPT ![s] = d] /\ UNCHANGED accountVars
        BY <1>1, <1>2, <2>2, <3>2, <4>1 DEF SaveNew, Become
      <4> QED BY <4>1, <4>2
    <3> QED BY <3>1, <3>2
  <2> QED BY <2>1, <2>2
<1>4. /\ c \in NoticeCall /\ users' = users
      /\ c.new # {} => /\ c.user \in DOMAIN users /\ users[c.user].sub # Nobody
                       /\ c.new \subseteq NamedOf(users[c.user].sub)
  BY <1>1, <1>3 DEF WorkspaceInStep, CallsInStep, CallHolds, NoticeHolds, NoticeCall, accountVars
<1>5. OrcidsTypeOK'
  <2>1. OrcidsTypeOK
    BY DEF WorkspaceInStep
  <2>2. CASE orcids' \subseteq orcids
    BY <1>4, <2>1, <2>2 DEF OrcidsTypeOK, OrcidRow, NamedOf
  <2>3. CASE o \in c.new /\ orcids' = orcids \cup {<<c.user, o>>}
    BY <1>4, <2>1, <2>3 DEF OrcidsTypeOK, OrcidRow, NamedOf
  <2> QED BY <1>3, <2>2, <2>3
<1>6. CallHolds(d)' /\ d.op # "invite"
  <2>1. CASE d = NoCall
    BY <2>1, NoCallHolds DEF NoCall
  <2>2. CASE d = [c EXCEPT !.old = old]
    <3>1. d \in NoticeCall /\ d.new = c.new /\ d.user = c.user
      BY <1>2, <1>4, <2>2 DEF NoticeCall
    <3> QED BY <1>4, <3>1, NoticeCallHolds
  <2>3. CASE d = [c EXCEPT !.new = new]
    <3>1. d \in NoticeCall /\ d.new \subseteq c.new /\ d.user = c.user
      BY <1>2, <1>4, <2>3 DEF NoticeCall
    <3>2. d.new # {} => /\ d.user \in DOMAIN users /\ users[d.user].sub # Nobody
                        /\ d.new \subseteq NamedOf(users[d.user].sub)
      BY <1>4, <3>1
    <3> QED BY <1>4, <3>1, <3>2, NoticeCallHolds
  <2> QED BY <1>3, <2>1, <2>2, <2>3
<1>7. call[s].op # "invite"
  BY <1>1, <1>3
<1> QED BY <1>3, <1>5, <1>6, <1>7, OrcidFrame

LEMMA ProcessedStep ==
  ASSUME WorkspaceInStep, NEW s \in Session, Processed(s), UNCHANGED <<memberVars, publicationVars, catalogueVars>>
  PROVE  WorkspaceInStep'
<1>1. call[s].op # "invite" /\ call' = [call EXCEPT ![s] = NoCall] /\ NoCall.op # "invite" /\ UNCHANGED <<accountVars, orcids>>
  BY DEF Processed, Compared, End, Become, NoCall
<1>2. OrcidsTypeOK'
  BY <1>1, AccountsStay, OrcidsStay DEF WorkspaceInStep
<1> QED BY <1>1, <1>2, NoCallHolds, OrcidFrame

LEMMA OrcidStepKeeps ==
  ASSUME WorkspaceInStep, OrcidStep
  PROVE  WorkspaceInStep'
BY NotifyStep, ReadEntryStep, OrcidChangeStep, ProcessedStep DEF OrcidStep

\* The invitations of calls that end are counted among the lost.
LEMMA RestartKeeps ==
  ASSUME WorkspaceInStep, Restart
  PROVE  WorkspaceInStep'
<1>1. /\ call' = [s \in Session |-> NoCall] /\ cached' = {}
      /\ lost' = lost \cup UNION {{call[s].project} \X call[s].emails : s \in {t \in Session : call[t].op = "invite"}}
      /\ UNCHANGED <<perun, users, personal, ordinary, projects, members, queue, sent, joined, publicationVars, catalogueVars, orcids>>
  BY DEF Restart
<1>2. AccountsInStep' /\ UsersGoOn
  <2>1. PerunInStep' /\ RowsAreApart' /\ SignedInAreOwn'
    BY <1>1 DEF WorkspaceInStep, AccountsInStep, PerunInStep, RowsAreApart, SignedInAreOwn, Own, SlugsOf
  <2>2. TitlesApart'
    BY <1>1, TitlesStay DEF WorkspaceInStep, AccountsInStep
  <2> QED BY <1>1, <2>1, <2>2 DEF WorkspaceInStep, AccountsInStep, UsersGoOn, UserRow
<1>3. InvitationsGoOn
  <2>1. ASSUME NEW i, i \in Waiting'
        PROVE  i \in Waiting
    BY <1>1, <2>1, WhoWaits DEF NoCall
  <2>2. ASSUME NEW i, i \in Waiting
        PROVE  i \in Waiting' \/ i \in lost'
    BY <1>1, <2>2, WhoWaits
  <2> QED BY <1>1, <2>1, <2>2 DEF InvitationsGoOn
<1>4. MembersInStep'
  <2>1. \A j \in queue' : j.project \in Project /\ j.emails \in (SUBSET Address) \ {{}}
    BY <1>1 DEF WorkspaceInStep, MembersInStep
  <2> QED BY <1>1, <1>3, <2>1, InvitationsKeepRows DEF WorkspaceInStep
<1>5. CallsInStep'
  <2>1. \A s \in Session : call'[s] = NoCall
    BY <1>1
  <2> QED BY <1>1, <2>1, NoCallHolds DEF CallsInStep
<1> QED BY <1>1, <1>2, <1>4, <1>5, PublicationsStay, CatalogueStays, OrcidsStay DEF WorkspaceInStep

-----------------------------------------------------------------------------
(* The invariant holds at the beginning, and every step keeps it.          *)

LEMMA AccountsBegin ==
  ASSUME Init
  PROVE  AccountsInStep
<1>1. /\ perun = [p \in Person |-> [address |-> OldAddress[p], entitled |-> Entitled[p]]]
      /\ cached = {} /\ ordinary = {} /\ users = FirstUsers /\ personal = FirstPersonal
  BY DEF Init, AccountsInit
<1>2. \A p \in Person : perun[p].address = OldAddress[p] /\ perun[p].entitled = Entitled[p]
  BY <1>1
<1>3. PerunInStep
  BY <1>1, <1>2 DEF PerunInStep
<1>4. /\ IsFiniteSet(DOMAIN users) /\ DOMAIN users = 1..Cardinality(DOMAIN users)
      /\ users \in [DOMAIN users -> UserRow]
      /\ \A u, v \in DOMAIN users :
           u # v => /\ users[u].email # users[v].email
                    /\ users[u].sub = users[v].sub => users[u].sub = Nobody
      /\ \A u \in DOMAIN users : users[u].sub # Nobody =>
           /\ users[u].email = OldAddress[users[u].sub]
           /\ personal[u].title = users[u].email /\ personal[u].slug = SlugOf[users[u].email]
      /\ DOMAIN personal = {u \in DOMAIN users : users[u].sub # Nobody}
      /\ \A u, v \in DOMAIN personal : u # v => personal[u].slug # personal[v].slug
  BY <1>1, FirstRowsAssumption
<1>5. Cardinality(DOMAIN users) \in Nat
  BY <1>4, FS_CardinalityType
<1>6. RowsAreApart
  BY <1>4 DEF RowsAreApart
<1>7. SignedInAreOwn
  BY <1>4 DEF SignedInAreOwn, Own, SlugsOf
<1>8. TitlesApart
  <2>1. \A u, v \in DOMAIN personal : u # v => personal[u].title # personal[v].title
    BY <1>4
  <2> QED BY <1>1, <1>4, <2>1 DEF TitlesApart, Titles, Slugs
<1> QED BY <1>1, <1>3, <1>4, <1>5, <1>6, <1>7, <1>8 DEF AccountsInStep

LEMMA MembersBegin ==
  ASSUME Init
  PROVE  MembersInStep
<1>1. /\ projects = FirstProjects /\ members = <<>> /\ queue = {} /\ sent = {} /\ joined = {}
      /\ users = FirstUsers /\ call = [s \in Session |-> NoCall]
  BY DEF Init, MembersInit, AccountsInit
<1>2. projects \in [Project -> ProjectRow]
  BY <1>1, FirstRowsAssumption DEF ProjectRow
<1>3. DOMAIN members = {} /\ members \in [DOMAIN members -> MemberRow]
  BY <1>1
<1>4. Waiting = {}
  <2>1. \A s \in Session : call[s].op # "invite"
    BY <1>1 DEF NoCall
  <2> QED BY <1>1, <2>1 DEF Waiting
<1>5. PendingIsInvited /\ InvitedHasRow /\ ActiveHasJoined
  BY <1>1, <1>3, <1>4 DEF PendingIsInvited, InvitedHasRow, ActiveHasJoined
<1> QED BY <1>1, <1>2, <1>3, <1>5 DEF MembersInStep

LEMMA WorkspaceBegins ==
  ASSUME Init
  PROVE  WorkspaceInStep
<1>1. PublicationsInStep
  <2>1. pubs = FirstPubs /\ links = {} /\ users = FirstUsers
    BY DEF Init, PublicationsInit
  <2>2. pubs \in [DOMAIN pubs -> PublicationRow]
    BY <2>1, FirstRowsAssumption DEF PublicationRow
  <2>3. IsFiniteSet(DOMAIN pubs) /\ DOMAIN pubs \subseteq Nat
    BY <2>1, FirstRowsAssumption
  <2>4. \A k, l \in DOMAIN pubs : k # l => <<pubs[k].owner, pubs[k].uid>> # <<pubs[l].owner, pubs[l].uid>>
    BY <2>1, FirstRowsAssumption
  <2> QED BY <2>1, <2>2, <2>3, <2>4 DEF PublicationsInStep
<1>2. CatalogueInStep
  <2>1. attributeTypes = FirstTypes /\ resources = <<>> /\ attributes = {}
    BY DEF Init, CatalogueInit
  <2>2. /\ IsFiniteSet(DOMAIN attributeTypes) /\ DOMAIN attributeTypes \subseteq Nat
        /\ attributeTypes \in [DOMAIN attributeTypes -> AttributeTypeRow]
        /\ \A t, u \in DOMAIN attributeTypes : attributeTypes[t].name = attributeTypes[u].name => t = u
    BY <2>1, CatalogueAssumption DEF AttributeTypeRow
  <2>3. DOMAIN resources = {} /\ resources \in [DOMAIN resources -> ResourceRow]
    BY <2>1
  <2>4. Cardinality(DOMAIN resources) = 0
    BY <2>3, FS_EmptySet
  <2>5. CatalogueTypeOK
    BY <2>1, <2>2, <2>3 DEF CatalogueTypeOK
  <2>6. DOMAIN resources = 1..Cardinality(DOMAIN resources)
    BY <2>3, <2>4
  <2> QED BY <2>2, <2>3, <2>4, <2>5, <2>6 DEF CatalogueInStep
<1>3. OrcidsTypeOK
  BY DEF Init, OrcidsInit, OrcidsTypeOK
<1>4. CallsInStep
  <2>1. call = [s \in Session |-> NoCall]
    BY DEF Init, AccountsInit
  <2>2. \A s \in Session : call[s] = NoCall
    BY <2>1
  <2> QED BY <2>1, <2>2, NoCallHolds DEF CallsInStep
<1> QED BY <1>1, <1>2, <1>3, <1>4, AccountsBegin, MembersBegin DEF WorkspaceInStep

LEMMA WorkspaceStutters ==
  ASSUME WorkspaceInStep, UNCHANGED vars
  PROVE  WorkspaceInStep'
BY AccountsStay, QuietOnce, MembersStay, WaitingKept, PublicationsStay, CatalogueStays, OrcidsStay
   DEF WorkspaceInStep, vars, callVars, memberVars

LEMMA WorkspaceKeeps ==
  ASSUME WorkspaceInStep, [Next]_vars
  PROVE  WorkspaceInStep'
<1>1. CASE Next
  BY <1>1, AccountStepKeeps, MemberStepKeeps, PublicationStepKeeps, CatalogueStepKeeps, OrcidStepKeeps, RestartKeeps
     DEF Next
<1>2. CASE UNCHANGED vars
  BY <1>2, WorkspaceStutters
<1> QED BY <1>1, <1>2

\* What the tables and the calls in progress say of each other holds at every
\* moment, however sign-ins, invitations, reviews, edits, notifications and
\* restarts overlap.
THEOREM WorkspaceStaysInStep == Spec => []WorkspaceInStep
<1>1. Init => WorkspaceInStep
  BY WorkspaceBegins
<1>2. WorkspaceInStep /\ [Next]_vars => WorkspaceInStep'
  BY WorkspaceKeeps
<1> QED BY <1>1, <1>2, PTL DEF Spec

-----------------------------------------------------------------------------
(* What follows of it.                                                     *)

LEMMA InStepIsTyped ==
  ASSUME WorkspaceInStep
  PROVE  TypeOK
<1>1. AccountsTypeOK
  <2>1. \A u \in DOMAIN users : users[u] \in UserRow
    BY DEF WorkspaceInStep, AccountsInStep
  <2>2. RowsAreApart
    BY DEF WorkspaceInStep, AccountsInStep
  <2> QED BY <2>1, <2>2 DEF WorkspaceInStep, AccountsInStep, AccountsTypeOK, RowsAreApart, HasPersonal
<1>2. MembersTypeOK
  BY DEF WorkspaceInStep, MembersInStep, MembersTypeOK
<1>3. PublicationsTypeOK
  BY DEF WorkspaceInStep, PublicationsInStep, PublicationsTypeOK
<1> QED BY <1>1, <1>2, <1>3 DEF WorkspaceInStep, CatalogueInStep, TypeOK

\* Types, unique indexes and foreign keys (see TypeOK) hold at every moment.
THEOREM TablesStayConsistent == Spec => []TypeOK
BY WorkspaceStaysInStep, InStepIsTyped, PTL

\* Another account with somebody's address was made by an invitation.
LEMMA AddressOfNobody ==
  ASSUME AccountsInStep, NEW p \in Known, NEW a, Own(p, a), NEW v \in DOMAIN users \ {UserOf(p)}, users[v].email = a
  PROVE  users[v].sub = Nobody
<1> SUFFICES ASSUME users[v].sub # Nobody PROVE FALSE
  OBVIOUS
<1>1. p \in Person /\ UserOf(p) \in DOMAIN users /\ users[UserOf(p)].sub = p
  BY KnownHaveRows
<1>2. users[v].sub \in Person /\ Own(users[v].sub, a)
  BY DEF AccountsInStep, SignedInAreOwn, UserRow
<1>3. users[v].sub = p
  BY <1>1, <1>2, AddressesApart DEF AccountsInStep
<1> QED BY <1>1, <1>3, AccountsAssumption DEF AccountsInStep, RowsAreApart

\* A sign-in finds at most one row: the one it writes.
LEMMA TargetHasIt ==
  ASSUME AccountsInStep, NEW profile, profile.sub # Nobody,
         NEW v \in Found(profile), \A w \in Found(profile) : w = v
  PROVE  Target(Found(profile)) = v /\ v \in DOMAIN users
<1>1. PICK found : found = Found(profile)
  OBVIOUS
<1>2. found \subseteq DOMAIN users /\ DOMAIN users \subseteq Nat
  BY <1>1 DEF Found, BySub, ByEmail, AccountsInStep
<1>3. found # {} /\ Min(found) \in found
  BY <1>1, <1>2, LeastIsMember
<1> QED BY <1>1, <1>2, <1>3 DEF Target

LEMMA KnownGetIn ==
  ASSUME AccountsInStep, NEW p \in Known, NEW profile, profile.sub = p, Own(p, profile.email),
         LoginTaken(profile, Found(profile)) \/ TitleTaken(Target(Found(profile)), profile.email)
  PROVE  /\ profile.email # users[UserOf(p)].email
         /\ \/ profile.email \in ordinary
            \/ \E v \in DOMAIN users : users[v].sub = Nobody /\ users[v].email = profile.email
<1>1. PICK a : a = profile.email
  OBVIOUS
<1>2. PICK u : u = UserOf(p)
  OBVIOUS
<1>3. /\ p \in Person /\ p # Nobody /\ u \in DOMAIN users /\ users[u].sub = p /\ u \in DOMAIN personal
      /\ RowsAreApart /\ SignedInAreOwn /\ TitlesApart
  BY <1>2, KnownHaveRows, AccountsAssumption DEF AccountsInStep
<1>4. Found(profile) = BySub(p) /\ BySub(p) = {u}
  BY <1>3 DEF Found, BySub, RowsAreApart
<1>5. Target(Found(profile)) = u
  BY <1>3, <1>4, TargetHasIt
<1>6. \A v \in DOMAIN users \ {u} : users[v].email = a => users[v].sub = Nobody
  BY <1>1, <1>2, AddressOfNobody
<1>7. ASSUME LoginTaken(profile, Found(profile))
      PROVE  a # users[u].email /\ \E v \in DOMAIN users : users[v].sub = Nobody /\ users[v].email = a
  <2>1. PICK v \in DOMAIN users \ {u} : users[v].sub = p \/ users[v].email = a
    BY <1>1, <1>5, <1>7 DEF LoginTaken
  <2>2. users[v].email = a /\ users[v].email # users[u].email
    BY <1>3, <2>1 DEF RowsAreApart
  <2> QED BY <1>6, <2>1, <2>2
<1>8. ASSUME TitleTaken(u, a)
      PROVE  a # users[u].email /\ a \in ordinary
  <2>1. a \in Titles(u)
    BY <1>3, <1>8 DEF TitleTaken, HasPersonal
  <2>2. a # users[u].email
    BY <1>3, <2>1 DEF TitlesApart, SignedInAreOwn
  <2>3. ASSUME NEW v \in DOMAIN personal \ {u}, personal[v].title = a
        PROVE  FALSE
    <3>1. v \in DOMAIN users \ {u} /\ users[v].sub # Nobody /\ users[v].email = a
      BY <1>3, <2>3 DEF AccountsInStep, SignedInAreOwn
    <3> QED BY <1>6, <3>1
  <2> QED BY <2>1, <2>2, <2>3 DEF Titles
<1> QED BY <1>1, <1>2, <1>5, <1>7, <1>8

LEMMA NewcomersGetIn ==
  ASSUME AccountsInStep, NEW p \in Person, p \notin Known, NEW profile, profile = PerunProfile(p),
         LoginTaken(profile, Found(profile)) \/ TitleTaken(Target(Found(profile)), profile.email)
  PROVE  SlugOf[profile.email] \in {SlugOf[t] : t \in ordinary} \/ ShareSlug(p, profile.email) # {}
<1>1. PICK a : a = profile.email
  OBVIOUS
<1>2. a = perun[p].address /\ profile.sub = p /\ Own(p, a) /\ p # Nobody
  BY <1>1, AccountsAssumption DEF PerunProfile, Own
<1>3. RowsAreApart /\ SignedInAreOwn /\ PerunInStep
  BY DEF AccountsInStep
<1>4. PICK found, t : found = Found(profile) /\ t = Target(found)
  OBVIOUS
<1>5. \A v \in DOMAIN users : users[v].sub # p
  BY <1>2 DEF Known
<1>6. found = ByEmail(a)
  BY <1>1, <1>2, <1>4, <1>5 DEF Found, BySub
\* Nobody who has signed in has the address.
<1>7. \A v \in DOMAIN users : users[v].email = a => users[v].sub = Nobody
  <2> SUFFICES ASSUME NEW v \in DOMAIN users, users[v].email = a, users[v].sub # Nobody PROVE FALSE
    OBVIOUS
  <2>1. users[v].sub \in Person /\ Own(users[v].sub, a)
    BY <1>3 DEF AccountsInStep, SignedInAreOwn, UserRow
  <2> QED BY <1>2, <1>3, <1>5, <2>1, AddressesApart
<1>8. \A v \in DOMAIN users : users[v].email = a => v = t
  <2> SUFFICES ASSUME NEW v \in DOMAIN users, users[v].email = a PROVE v = t
    OBVIOUS
  <2>1. v \in found /\ \A w \in found : w = v
    BY <1>3, <1>6 DEF ByEmail, RowsAreApart
  <2> QED BY <1>2, <1>4, <2>1, TargetHasIt
<1>9. ~LoginTaken(profile, found)
  BY <1>1, <1>2, <1>4, <1>5, <1>8 DEF LoginTaken
<1>10. TitleTaken(t, a)
  BY <1>1, <1>4, <1>9
<1>11. ASSUME NEW v \in DOMAIN personal
       PROVE  personal[v].title # a /\ (personal[v].slug = SlugOf[a] => ShareSlug(p, a) # {})
  <2>1. v \in DOMAIN users /\ users[v].sub # Nobody
    BY <1>11 DEF AccountsInStep
  <2>2. /\ users[v].sub \in Known \ {p} /\ users[v].sub \in Person
        /\ personal[v].title = users[v].email /\ personal[v].slug \in SlugsOf(users[v].sub)
    BY <1>3, <1>5, <2>1 DEF Known, AccountsInStep, SignedInAreOwn, UserRow
  <2>3. personal[v].slug \in {SlugOf[OldAddress[users[v].sub]], SlugOf[NewAddress[users[v].sub]]}
    BY <1>3, <2>2 DEF SlugsOf, PerunInStep
  <2> QED BY <1>7, <2>1, <2>2, <2>3 DEF ShareSlug
<1> QED BY <1>1, <1>10, <1>11 DEF TitleTaken, Titles, Slugs

LEMMA InStepLetsIn ==
  ASSUME WorkspaceInStep
  PROVE  NobodyIsLockedOut
<1>1. AccountsInStep
  BY DEF WorkspaceInStep
<1> SUFFICES ASSUME NEW p \in Person, NEW profile \in {PerunProfile(p), Profile(p)},
                    LoginTaken(profile, Found(profile)) \/ TitleTaken(Target(Found(profile)), profile.email)
             PROVE  IF p \in Known
                    THEN /\ profile.email # users[UserOf(p)].email
                         /\ \/ profile.email \in ordinary
                            \/ \E v \in DOMAIN users : users[v].sub = Nobody /\ users[v].email = profile.email
                    ELSE SlugOf[profile.email] \in {SlugOf[t] : t \in ordinary} \/ ShareSlug(p, profile.email) # {}
  BY DEF NobodyIsLockedOut
<1>2. CASE p \in Known
  <2>1. profile.sub = p /\ Own(p, profile.email)
    <3>1. CASE profile = PerunProfile(p)
      BY <3>1 DEF PerunProfile, Own
    <3>2. CASE profile = RowProfile(UserOf(p))
      <4>1. profile.sub = users[UserOf(p)].sub /\ profile.email = users[UserOf(p)].email
        BY <3>2 DEF RowProfile
      <4> QED BY <1>1, <1>2, <4>1, KnownHaveRows, AccountsAssumption DEF AccountsInStep, SignedInAreOwn
    <3> QED BY <3>1, <3>2 DEF Profile
  <2> QED BY <1>1, <1>2, <2>1, KnownGetIn
<1>3. CASE p \notin Known
  <2>1. profile = PerunProfile(p)
    BY <1>3 DEF Profile
  <2> QED BY <1>1, <1>3, <2>1, NewcomersGetIn
<1> QED BY <1>2, <1>3

\* Whom the unique indexes may keep out is known at every moment: see
\* NobodyIsLockedOut.  In particular whoever has signed in and kept the address
\* can sign in again, whatever projects were requested and whoever was invited.
THEOREM NobodyIsEverLockedOut == Spec => []NobodyIsLockedOut
BY WorkspaceStaysInStep, InStepLetsIn, PTL

LEMMA EditorsDoSeeAll ==
  ASSUME WorkspaceInStep
  PROVE  EditorsSeeAll
<1> SUFFICES ASSUME NEW u \in DOMAIN users, NEW pr \in Project, NEW stepUp \in BOOLEAN,
                    "edit_members" \in Rights(pr, u, stepUp)
             PROVE  "view_project" \in Rights(pr, u, stepUp) /\ "view_all_members" \in Rights(pr, u, stepUp)
  BY DEF EditorsSeeAll, ShownMembers
<1>1. PICK given : given = DefaultRights(users[u].role, stepUp)
  OBVIOUS
<1>2. "edit_members" \in given => {"view_project", "view_all_members"} \subseteq given
  BY <1>1 DEF DefaultRights, EditRights, ViewRights
<1>3. PICK mine : mine = MemberRights(pr, u)
  OBVIOUS
<1>4. "edit_members" \in mine => {"view_project", "view_all_members"} \subseteq mine
  BY <1>3 DEF MemberRights, ManagerRights, ViewRights
<1>5. PICK status \in {"new", "active", "rejected", "archived"} : status = projects[pr].status
  BY DEF WorkspaceInStep, MembersInStep, ProjectRow
<1>6. Rights(pr, u, stepUp) = IF projects[pr].pi = u THEN PiRights(status, given)
                              ELSE IF status \in {"rejected", "archived"} THEN (given \cup mine) \ EditRights
                              ELSE given \cup mine
  BY <1>1, <1>3, <1>5 DEF Rights
<1>7. CASE projects[pr].pi = u
  <2>1. Rights(pr, u, stepUp) = PiRights(status, given)
    BY <1>6, <1>7
  <2> QED BY <1>5, <2>1 DEF PiRights, ManagerRights, ViewRights, EditRights
<1>8. CASE projects[pr].pi # u
  <2>1. Rights(pr, u, stepUp) = given \cup mine
    BY <1>6, <1>8 DEF EditRights
  <2> QED BY <1>2, <1>4, <2>1
<1> QED BY <1>7, <1>8

LEMMA ListedAreViewable ==
  ASSUME WorkspaceInStep
  PROVE  ListedIsViewable
<1> SUFFICES ASSUME NEW u \in DOMAIN users, NEW pr \in Project
             PROVE  projects[pr].pi = u \/ IsActive(pr, u) <=> "view_project" \in Rights(pr, u, FALSE)
  BY DEF ListedIsViewable, UserProjects
<1>1. DefaultRights(users[u].role, FALSE) = {}
  BY DEF DefaultRights
<1>2. PICK mine : mine = MemberRights(pr, u)
  OBVIOUS
<1>3. "view_project" \in mine <=> IsActive(pr, u)
  BY <1>2 DEF MemberRights, ManagerRights, ViewRights
<1>4. PICK status \in {"new", "active", "rejected", "archived"} : status = projects[pr].status
  BY DEF WorkspaceInStep, MembersInStep, ProjectRow
<1>5. Rights(pr, u, FALSE) = IF projects[pr].pi = u THEN PiRights(status, {})
                             ELSE IF status \in {"rejected", "archived"} THEN ({} \cup mine) \ EditRights
                             ELSE {} \cup mine
  BY <1>1, <1>2, <1>4 DEF Rights
<1>6. CASE projects[pr].pi = u
  <2>1. Rights(pr, u, FALSE) = PiRights(status, {})
    BY <1>5, <1>6
  <2> QED BY <1>4, <1>6, <2>1 DEF PiRights, ManagerRights, ViewRights, EditRights
<1>7. CASE projects[pr].pi # u
  <2>1. "view_project" \notin EditRights
    BY DEF EditRights
  <2> QED BY <1>3, <1>5, <1>7, <2>1
<1> QED BY <1>6, <1>7

\* Memberships, invitations and the Perun groups agree at every moment, and
\* what people are shown with what they may do.
THEOREM MembershipsAlwaysAgree == Spec => []MembershipsAgree
<1>1. WorkspaceInStep => MembershipsAgree
  BY EditorsDoSeeAll, ListedAreViewable DEF WorkspaceInStep, MembersInStep, MembershipsAgree
<1> QED BY <1>1, WorkspaceStaysInStep, PTL

LEMMA StepKeepsApprovals ==
  ASSUME WorkspaceInStep, [Next]_vars
  PROVE  [ApprovalKept]_pubs
<1>1. CASE PublicationStep
  BY <1>1, PublicationStepKeeps
<1>2. CASE AccountStep \/ MemberStep \/ OrcidStep \/ CatalogueStep \/ Restart
  BY <1>2 DEF AccountStep, MemberStep, OrcidStep, CatalogueStep, Restart, publicationVars
<1>3. CASE UNCHANGED vars
  BY <1>3 DEF vars, publicationVars
<1> QED BY <1>1, <1>2, <1>3 DEF Next

\* An approved publication keeps its text and its approval through every step
\* but another decision, or an update that had looked before the approval.
THEOREM ApprovalsStand == Spec => ApprovalStands
<1>1. WorkspaceInStep /\ [Next]_vars => [ApprovalKept]_pubs
  BY StepKeepsApprovals
<1> QED BY <1>1, WorkspaceStaysInStep, PTL DEF Spec, ApprovalStands
=============================================================================
