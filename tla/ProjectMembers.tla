--------------------------- MODULE ProjectMembers ----------------------------
(***************************************************************************)
(* Who may do what in a project: the rights that follow from its state and *)
(* a membership, and the life of a membership: added with an invitation by *)
(* a manager, joined in Perun, accepted here, removed.                     *)
(*                                                                         *)
(* Adding commits the memberships first, then queues the invitations, and  *)
(* a consumer sends them; each of the three may fail by itself.            *)
(***************************************************************************)
EXTENDS UserAccounts

CONSTANTS
  Project,
  FirstProjects,   \* project -> [status, pi, group]
  Batch            \* what a call may add: sets of [email, role]

VARIABLES
  projects,   \* project -> [status, pi, group]; group: Perun has one for it
  members,    \* <<project, user>> -> [role, status, invited]
  queue,      \* jobs: [project, emails, group]
  sent,       \* <<project, address>> Perun has sent an invitation to
  joined,     \* <<project, person>> in the Perun group
  lost        \* <<project, address>> of invitations that failed

\* What a call may add is of the form the handler has validated.
ASSUME MembersAssumption ==
  \A batch \in Batch : IsFiniteSet(batch) /\ batch \subseteq [email : Address, role : {"user", "manager"}]

memberVars == <<projects, members, queue, sent, joined, lost>>

ProjectRow == [status : {"new", "active", "rejected", "archived"}, pi : DOMAIN users, group : BOOLEAN]
MemberRow == [role : {"user", "manager"}, status : {"pending", "active", "removed"}, invited : Address]

-----------------------------------------------------------------------------
(* Rights.                                                                 *)

EditRights == {"edit_project", "edit_publications", "edit_members", "edit_managers", "request_allocation"}
ViewRights == {"view_project", "view_advanced_details", "view_all_members", "view_all_allocations"}

DefaultRights(role, stepUp) ==
  CASE stepUp /\ role = "admin"    -> EditRights \cup ViewRights
    [] stepUp /\ role = "director" -> ViewRights
    [] OTHER -> {}

ManagerRights == ViewRights \cup {"request_allocation", "edit_publications", "edit_members"}

IsActive(pr, u) == <<pr, u>> \in DOMAIN members /\ members[<<pr, u>>].status = "active"

MemberRights(pr, u) ==
  CASE ~IsActive(pr, u) -> {}
    [] IsActive(pr, u) /\ members[<<pr, u>>].role = "manager" -> ManagerRights
    [] OTHER -> {"view_project", "request_allocation"}

\* What the state of the project leaves to its PI.
PiRights(status, given) ==
  CASE status = "active"   -> given \cup ManagerRights \cup {"edit_project", "edit_managers"}
    [] status = "archived" -> (given \cup ManagerRights) \ EditRights
    [] status = "rejected" -> ((given \cup ManagerRights) \ EditRights) \cup {"edit_project"}
    [] status = "new"      -> ((given \cup ManagerRights) \ EditRights) \cup {"request_allocation", "edit_project"}

Rights(pr, u, stepUp) ==
  LET status == projects[pr].status
      given == DefaultRights(users[u].role, stepUp)
      all == given \cup MemberRights(pr, u)
  IN  IF projects[pr].pi = u THEN PiRights(status, given)
      ELSE IF status \in {"rejected", "archived"} THEN all \ EditRights ELSE all

MembersOf(pr, all) == {m \in DOMAIN members : m[1] = pr /\ (all \/ members[m].status = "active")}

ShownMembers(pr, u, stepUp) ==
  LET rights == Rights(pr, u, stepUp)
  IN  IF "view_project" \in rights THEN MembersOf(pr, "view_all_members" \in rights) ELSE {}

UserProjects(u, managerOnly) ==
  {pr \in Project :
     \/ projects[pr].pi = u
     \/ IsActive(pr, u) /\ (managerOnly => members[<<pr, u>>].role = "manager")}

-----------------------------------------------------------------------------
(* Adding members.                                                         *)

MembersInit ==
  /\ projects = FirstProjects
  /\ members = <<>>
  /\ queue = {} /\ sent = {} /\ joined = {} /\ lost = {}

\* Whatever the state of the membership.
ExistingEmails(pr, batch) ==
  {m.email : m \in {n \in batch : \E u \in ByEmail(n.email) : <<pr, u>> \in DOMAIN members}}

\* The memberships are read outside the transaction that inserts.
AddRead(s, p, stepUp, pr, batch) ==
  /\ p \in Known
  /\ (IF \E m \in batch : m.role = "manager" THEN "edit_managers" ELSE "edit_members")
       \in Rights(pr, UserOf(p), stepUp)
  /\ Begin("members", s, [op |-> "add", project |-> pr, batch |-> batch, existing |-> ExistingEmails(pr, batch)])
  /\ UNCHANGED <<accountVars, memberVars>>

Added(c) == {m \in c.batch : m.email \notin c.existing}
Emails(added) == {m.email : m \in added}

\* A row for each address that has none.
WithPlaceholders(emails) ==
  LET unknown == SetToSeq({a \in emails : ByEmail(a) = {}})
      n == Cardinality(DOMAIN users)
  IN  Extend(users, [u \in (n + 1)..(n + Len(unknown)) |->
                       [sub |-> Nobody, email |-> unknown[u - n], role |-> "user"]])

\* The unique index on project and user, against rows and within the batch.
MemberTaken(pr, added) ==
  \/ ExistingEmails(pr, added) # {}
  \/ Cardinality(Emails(added)) < Cardinality(added)

\* All of the batch or nothing.
AddWrite(s) ==
  LET c == call[s]
      added == Added(c)
      table == WithPlaceholders(Emails(added))
      new == {<<c.project, u>> : u \in {v \in DOMAIN table : table[v].email \in Emails(added)}}
      RowOf(m) == CHOOSE a \in added : a.email = table[m[2]].email
  IN  /\ c.op = "add"
      /\ IF MemberTaken(c.project, added) \/ added = {}
         THEN UNCHANGED <<users, members>> /\ End(s)
         ELSE /\ users' = table
              /\ members' = Extend(members, [m \in new |-> [role |-> RowOf(m).role, status |-> "pending",
                                                            invited |-> RowOf(m).email]])
              /\ Become(s, [op |-> "invite", project |-> c.project, emails |-> Emails(added)])
      /\ UNCHANGED <<perun, personal, ordinary, cached, projects, queue, sent, joined, lost>>

\* The group as the project has it now.
Job(pr, emails) == [project |-> pr, emails |-> emails, group |-> projects[pr].group]

Invite(s) ==
  LET c == call[s]
  IN  /\ c.op = "invite"
      /\ queue' = queue \cup {Job(c.project, c.emails)}
      /\ End(s)
      /\ UNCHANGED <<accountVars, projects, members, sent, joined, lost>>

InviteFails(s) ==
  LET c == call[s]
  IN  /\ c.op = "invite"
      /\ lost' = lost \cup ({c.project} \X c.emails)
      /\ End(s)
      /\ UNCHANGED <<accountVars, projects, members, queue, sent, joined>>

\* An error of Perun's is logged and the next address is tried; without a
\* group every one fails.
Delivered(job, ok) ==
  /\ ok # {} => job.group
  /\ sent' = sent \cup ({job.project} \X ok)
  /\ lost' = lost \cup ({job.project} \X (job.emails \ ok))

\* The job is done, whatever came of it.
Send(job) ==
  /\ queue' = queue \ {job}
  /\ \E ok \in SUBSET job.emails : Delivered(job, ok)
  /\ UNCHANGED <<accountVars, callVars, projects, members, joined>>

-----------------------------------------------------------------------------
(* Joining and leaving.                                                    *)

InGroup(pr, p) == <<pr, p>> \in joined

\* The invitation is followed in Perun, by whoever had the address then.
Join(pr, p) ==
  /\ ~InGroup(pr, p) /\ Once("members")
  /\ <<pr, OldAddress[p]>> \in sent \/ (<<pr, NewAddress[p]>> \in sent /\ perun[p].address = NewAddress[p])
  /\ joined' = joined \cup {<<pr, p>>}
  /\ UNCHANGED <<accountVars, projects, members, queue, sent, lost>>

Activate(m) == members' = IF m \in DOMAIN members THEN [members EXCEPT ![m].status = "active"] ELSE members

\* Perun is not asked.
AcceptUnasked(pr, p) ==
  /\ p \in Known /\ projects[pr].group /\ Once("members")
  /\ Activate(<<pr, UserOf(p)>>)
  /\ UNCHANGED <<accountVars, projects, queue, sent, joined, lost>>

\* The redirect back: any membership becomes active, a removed one included.
AcceptInvitation(pr, p) ==
  /\ p \in Known /\ projects[pr].group /\ InGroup(pr, p) /\ Once("members")
  /\ Activate(<<pr, UserOf(p)>>)
  /\ UNCHANGED <<accountVars, projects, queue, sent, joined, lost>>

\* Nothing changes in Perun.
DeleteMember(p, stepUp, m) ==
  /\ p \in Known /\ m \in DOMAIN members
  /\ "edit_members" \in Rights(m[1], UserOf(p), stepUp)
  /\ Once("members")
  /\ members' = [members EXCEPT ![m].status = "removed"]
  /\ UNCHANGED <<accountVars, projects, queue, sent, joined, lost>>

\* What reviews do that meet no other, as far as rights depend on it.
Decide(pr, status) ==
  /\ <<projects[pr].status, status>> \in
       {<<"new", "active">>, <<"new", "rejected">>, <<"rejected", "new">>, <<"active", "archived">>}
  /\ Once("members")
  /\ projects' = [projects EXCEPT ![pr].status = status, ![pr].group = @ \/ status = "active"]
  /\ UNCHANGED <<accountVars, members, queue, sent, joined, lost>>

-----------------------------------------------------------------------------
(* Properties.                                                             *)

MembersTypeOK ==
  /\ projects \in [Project -> ProjectRow]
  /\ \A m \in DOMAIN members : m \in Project \X DOMAIN users /\ members[m] \in MemberRow
  /\ \A j \in queue : j.project \in Project /\ j.emails \in (SUBSET Address) \ {{}}
  /\ joined \subseteq Project \X Person

\* Invitations that wait in the queue, or in a call that has committed.
Waiting ==
  UNION {{c.project} \X c.emails : c \in queue \cup {call[s] : s \in {t \in Session : call[t].op = "invite"}}}

PendingIsInvited ==
  \A m \in DOMAIN members :
    members[m].status = "pending" => <<m[1], members[m].invited>> \in Waiting \cup sent \cup lost

InvitedHasRow ==
  \A i \in Waiting \cup sent : \E m \in DOMAIN members : i = <<m[1], members[m].invited>>

ActiveHasJoined ==
  \A m \in DOMAIN members :
    members[m].status = "active" => <<m[1], users[m[2]].sub>> \in joined

EditorsSeeAll ==
  \A u \in DOMAIN users, pr \in Project, stepUp \in BOOLEAN :
    "edit_members" \in Rights(pr, u, stepUp) =>
      ShownMembers(pr, u, stepUp) = MembersOf(pr, TRUE)

ListedIsViewable ==
  \A u \in DOMAIN users, pr \in Project :
    pr \in UserProjects(u, FALSE) <=> "view_project" \in Rights(pr, u, FALSE)

\* Memberships, invitations and Perun agree at every moment: who is pending has
\* an invitation waiting, sent or known to have failed, nobody is invited
\* without a membership, who is active has joined the group;
\* and what people are shown agrees with what they may do (addProjectMembers
\* and inviteMembers in this order, acceptInvitation, userPermissionsHelper).
MembershipsAgree ==
  PendingIsInvited /\ InvitedHasRow /\ ActiveHasJoined /\ EditorsSeeAll /\ ListedIsViewable
=============================================================================
