------------------------------ MODULE Workspace ------------------------------
(***************************************************************************)
(* Accounts, members, publications, ORCIDs and the catalogue of resources  *)
(* together: they share the users, the rights and the server, which may    *)
(* restart in the middle of any call.                                      *)
(***************************************************************************)
EXTENDS Publications, Catalogue, Orcids

CONSTANTS FirstUsers, FirstPersonal

\* The tables at the beginning are consistent: every account has its first address
\* and its personal project, and what refers to a row refers to one that is there.
ASSUME FirstRowsAssumption ==
  LET Ids == DOMAIN FirstUsers
      SignedIn == {u \in Ids : FirstUsers[u].sub # Nobody}
      Pubs == DOMAIN FirstPubs
  IN  /\ IsFiniteSet(Ids) /\ Ids = 1..Cardinality(Ids) /\ FirstUsers \in [Ids -> UserRow]
      /\ \A u, v \in Ids :
           u # v => /\ FirstUsers[u].email # FirstUsers[v].email
                    /\ FirstUsers[u].sub = FirstUsers[v].sub => FirstUsers[u].sub = Nobody
      /\ \A u \in SignedIn : FirstUsers[u].email = OldAddress[FirstUsers[u].sub]
      /\ DOMAIN FirstPersonal = SignedIn
      /\ \A u \in SignedIn : /\ FirstPersonal[u].title = FirstUsers[u].email
                             /\ FirstPersonal[u].slug = SlugOf[FirstUsers[u].email]
      /\ \A u, v \in SignedIn : u # v => FirstPersonal[u].slug # FirstPersonal[v].slug
      /\ FirstProjects \in
           [Project -> [status : {"new", "active", "rejected", "archived"}, pi : Ids, group : BOOLEAN]]
      /\ IsFiniteSet(Pubs) /\ Pubs \subseteq Nat
      /\ FirstPubs \in
           [Pubs -> [owner : Ids, uid : Uid, status : {"pending", "approved", "rejected"}, text : Nat,
                     decided : Nat, legacy : Project \cup {NoProject}]]
      /\ \A k, l \in Pubs : k # l => <<FirstPubs[k].owner, FirstPubs[k].uid>> # <<FirstPubs[l].owner, FirstPubs[l].uid>>

vars == <<accountVars, callVars, memberVars, publicationVars, catalogueVars, orcids>>

Init ==
  /\ AccountsInit /\ users = FirstUsers /\ personal = FirstPersonal
  /\ MembersInit
  /\ PublicationsInit
  /\ CatalogueInit
  /\ OrcidsInit

\* Only admins and directors have anything to step up to.
StepUps(p) == IF p \in Known /\ HasRole(UserOf(p), "director") THEN BOOLEAN ELSE {FALSE}

AccountStep ==
  /\ \/ \E p \in Person : Request(p) \/ Expire(p) \/ Move(p)
     \/ \E t \in Title : RequestProject(t) \/ \E new \in Title : RequestProjectAgain(t, new)
     \/ \E s \in Session : SignInWrite(s) \/ \E p \in Person : SignInRead(s, p)
  /\ UNCHANGED <<memberVars, publicationVars, catalogueVars, orcids>>

MemberStep ==
  /\ \/ \E s \in Session : AddWrite(s) \/ Invite(s) \/ InviteFails(s)
     \/ \E s \in Session, p \in Person, pr \in Project, batch \in Batch : \E stepUp \in StepUps(p) :
          AddRead(s, p, stepUp, pr, batch)
     \/ \E job \in queue : Send(job)
     \/ \E pr \in Project, p \in Person : Join(pr, p) \/ AcceptInvitation(pr, p)
     \/ \E p \in Person, m \in DOMAIN members : \E stepUp \in StepUps(p) : DeleteMember(p, stepUp, m)
     \/ \E pr \in Project, status \in {"new", "active", "rejected", "archived"} : Decide(pr, status)
  /\ UNCHANGED <<publicationVars, catalogueVars, orcids>>

PublicationStep ==
  /\ \/ \E p \in Person, pr \in Project : \E stepUp \in StepUps(p) :
          \/ CreateByHand(p, stepUp, pr)
          \/ \E w \in Work, type \in IdType : CreateById(p, stepUp, pr, w, type)
          \/ \E works \in (SUBSET Work) \ {{}} : AddToProject(p, stepUp, pr, works)
          \/ \E s \in Session : ListRead(s, p, stepUp, pr)
     \/ \E s \in Session :
          \/ UpdateWrite(s) \/ AssignWrite(s) \/ ListLink(s) \/ ListClear(s)
          \/ RemoveLink(s) \/ RemoveClear(s) \/ RemoveLook(s) \/ RemoveCount(s)
          \/ RemoveRights(s) \/ RemoveUnlink(s) \/ RemoveLast(s)
     \/ \E p \in Person, k \in DOMAIN pubs :
          \/ DeleteOwned(p, k)
          \/ \E status \in {"approved", "rejected"} : Review(p, k, status)
          \/ \E s \in Session :
               \/ UpdateRead(s, p, k)
               \/ \E pr \in Project, stepUp \in StepUps(p) : AssignRead(s, p, k, pr, stepUp)
               \/ \E pr \in Project \cup {NoProject}, stepUp \in StepUps(p) : RemoveRead(s, p, stepUp, k, pr)
  /\ UNCHANGED <<catalogueVars, orcids>>

CatalogueStep ==
  /\ \/ \E p \in Person :
          \/ \E name \in AttributeName, required \in BOOLEAN : CreateAttributeType(p, name, required)
          \/ \E s \in Session, t \in DOMAIN attributeTypes : DeleteTypeRead(s, p, t)
          \/ \E s \in Session, r \in {0} \cup DOMAIN resources, form \in Form : SaveRead(s, p, r, form)
     \/ \E s \in Session : DeleteTypeWrite(s) \/ CreateWrite(s) \/ UpdateResourceWrite(s)
  /\ UNCHANGED <<memberVars, publicationVars, orcids>>

OrcidStep ==
  /\ \E s \in Session :
       \/ \E notice \in Notice : Notify(s, notice)
       \/ ReadEntry(s) \/ Processed(s)
       \/ \E o \in Orcid : DeleteOld(s, o) \/ SaveNew(s, o)
  /\ UNCHANGED <<memberVars, publicationVars, catalogueVars>>

\* Calls in progress end as they are, the cache is gone, the queue is not.
Restart ==
  /\ Spend("accounts")
  /\ call' = [s \in Session |-> NoCall]
  /\ cached' = {}
  /\ lost' = lost \cup UNION {{call[s].project} \X call[s].emails : s \in {t \in Session : call[t].op = "invite"}}
  /\ UNCHANGED <<perun, users, personal, ordinary, projects, members, queue, sent, joined, publicationVars, catalogueVars, orcids>>

Next == AccountStep \/ MemberStep \/ PublicationStep \/ CatalogueStep \/ OrcidStep \/ Restart

Spec == Init /\ [][Next]_vars

\* Types, and what the unique indexes and foreign keys promise across the
\* parts: nobody has two accounts or two memberships of a project, every account
\* that signed in has its personal project, every link its publication, a
\* resource never two values of one attribute, and an ORCID the right account.
TypeOK == AccountsTypeOK /\ MembersTypeOK /\ PublicationsTypeOK /\ CatalogueTypeOK /\ OrcidsTypeOK
=============================================================================
