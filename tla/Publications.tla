----------------------------- MODULE Publications ----------------------------
(***************************************************************************)
(* Publications: registered by their owner by hand, by identifier or in    *)
(* bulk, linked to projects, reviewed by directors.                        *)
(*                                                                         *)
(* Old rows name their one project in a column; handlers turn it into a    *)
(* link when they meet it.  A work is what an identifier stands for; a     *)
(* row's uid is <<source, work>>, or <<"own", id>> of a random one.        *)
(***************************************************************************)
EXTENDS ProjectMembers

CONSTANTS
  Work,
  IdType,      \* types of identifier a resolver answers for: "doi", "isbn"
  FirstPubs

VARIABLES
  pubs,        \* id -> [owner, uid, status, text, decided, legacy]; text: version, decided: decisions so far
  links        \* <<project, id>>

publicationVars == <<pubs, links>>

NoProject == "no_project"

ASSUME PublicationsAssumption == NoProject \notin Project

Link == Project \X DOMAIN pubs
Uid == ((IdType \cup {"bare"}) \X Work) \cup ({"own"} \X Nat)
PublicationRow ==
  [owner : DOMAIN users, uid : Uid, status : {"pending", "approved", "rejected"}, text : Nat, decided : Nat,
   legacy : Project \cup {NoProject}]

-----------------------------------------------------------------------------
(* Tables.                                                                 *)

PublicationsInit == pubs = FirstPubs /\ links = {}

\* The ids a call in progress remembers.
Remembers(c) ==
  CASE c.op \in {"update", "assign", "remove"} -> {c.pub}
    [] c.op = "list" -> c.todo
    [] OTHER -> {}

NewPub == Max(DOMAIN pubs \cup {0} \cup UNION {Remembers(call[s]) : s \in Session}) + 1

Owned(u) == {k \in DOMAIN pubs : pubs[k].owner = u}
UidTaken(u, uid) == \E k \in Owned(u) : pubs[k].uid = uid
MayEdit(p, stepUp, pr) == p \in Known /\ "edit_publications" \in Rights(pr, UserOf(p), stepUp)

Row(u, uid) ==
  [owner |-> u, uid |-> uid, status |-> "pending", text |-> 0, decided |-> 0, legacy |-> NoProject]

LinksOf(k) == {l \in links : l[2] = k}

\* The old column emptied; no row is changed where there is none any more.
Cleared(K) == [k \in DOMAIN pubs |-> IF k \in K THEN [pubs[k] EXCEPT !.legacy = NoProject] ELSE pubs[k]]

-----------------------------------------------------------------------------
(* What an owner does.                                                     *)

\* Nothing refuses a repeated identifier.
CreateOwnedAgain(p, stepUp, pr, uid) ==
  /\ MayEdit(p, stepUp, pr)
  /\ Once("publications")
  /\ pubs' = Put(pubs, NewPub, Row(UserOf(p), uid))
  /\ links' = links \cup {<<pr, NewPub>>}
  /\ UNCHANGED <<accountVars, memberVars>>

\* Row and link, or neither; a repeated identifier is refused.
CreateOwned(p, stepUp, pr, uid) ==
  LET u == UserOf(p)
  IN  /\ MayEdit(p, stepUp, pr) /\ ~UidTaken(u, uid)
      /\ Once("publications")
      /\ pubs' = Put(pubs, NewPub, Row(u, uid))
      /\ links' = links \cup {<<pr, NewPub>>}
      /\ UNCHANGED <<accountVars, memberVars>>

CreateByHand(p, stepUp, pr) == CreateOwned(p, stepUp, pr, <<"own", NewPub>>)

\* Of the type given or detected, if its resolver answers.
CreateById(p, stepUp, pr, work, type) == CreateOwned(p, stepUp, pr, <<type, work>>)

\* In bulk what the owner has already is linked again, if it was stored with
\* the bare identifier; a new row has no URL and fails with the whole batch.
AddToProject(p, stepUp, pr, works) ==
  LET u == UserOf(p)
      reused == {k \in DOMAIN pubs : pubs[k].owner = u /\ pubs[k].uid \in {<<"bare", w>> : w \in works}}
  IN  /\ MayEdit(p, stepUp, pr)
      /\ {pubs[k].uid[2] : k \in reused} = works
      /\ Once("publications")
      /\ links' = links \cup ({pr} \X reused)
      /\ pubs' = Cleared(reused)
      /\ UNCHANGED <<accountVars, memberVars>>

\* The status is looked at here and not again.
UpdateUnseen(s, p, k) ==
  /\ p \in Known /\ k \in Owned(UserOf(p))
  /\ Begin("publications", s, [op |-> "update", pub |-> k, decided |-> pubs[k].decided])
  /\ UNCHANGED <<accountVars, memberVars, publicationVars>>

UpdateRead(s, p, k) ==
  /\ p \in Known /\ k \in Owned(UserOf(p)) /\ pubs[k].status # "approved"
  /\ Begin("publications", s, [op |-> "update", pub |-> k, decided |-> pubs[k].decided])
  /\ UNCHANGED <<accountVars, memberVars, publicationVars>>

UpdateWrite(s) ==
  LET k == call[s].pub
  IN  /\ call[s].op = "update"
      /\ pubs' = IF k \in DOMAIN pubs THEN [pubs EXCEPT ![k].text = @ + 1, ![k].status = "pending"] ELSE pubs
      /\ End(s)
      /\ UNCHANGED <<accountVars, memberVars, links>>

AssignRead(s, p, k, pr, stepUp) ==
  /\ p \in Known /\ k \in Owned(UserOf(p))
  /\ Begin("publications", s, [op |-> "assign", pub |-> k, by |-> p, project |-> pr, stepUp |-> stepUp])
  /\ UNCHANGED <<accountVars, memberVars, publicationVars>>

\* Linked, and the old column emptied; not if the publication is gone.
AssignWrite(s) ==
  LET c == call[s]
  IN  /\ c.op = "assign"
      /\ IF MayEdit(c.by, c.stepUp, c.project) /\ c.pub \in DOMAIN pubs
         THEN links' = links \cup {<<c.project, c.pub>>} /\ pubs' = Cleared({c.pub})
         ELSE UNCHANGED publicationVars
      /\ End(s)
      /\ UNCHANGED <<accountVars, memberVars>>

\* In any status, and from all projects.
DeleteOwned(p, k) ==
  /\ p \in Known /\ k \in Owned(UserOf(p)) /\ Once("publications")
  /\ pubs' = [i \in DOMAIN pubs \ {k} |-> pubs[i]]
  /\ links' = links \ LinksOf(k)
  /\ UNCHANGED <<accountVars, memberVars>>

-----------------------------------------------------------------------------
(* What the members of a project do.                                       *)

\* Listing makes links of the project's old rows, one after the other: it inserts
\* the link, which fails if the publication is gone, and empties the column.
ListRead(s, p, stepUp, pr) ==
  LET old == {k \in DOMAIN pubs : pubs[k].legacy = pr}
  IN  /\ p \in Known /\ "view_project" \in Rights(pr, UserOf(p), stepUp) /\ old # {}
      /\ Begin("publications", s, [op |-> "list", project |-> pr, todo |-> old, linked |-> {}])
      /\ UNCHANGED <<accountVars, memberVars, publicationVars>>

ListLink(s) ==
  LET c == call[s]
  IN  /\ c.op = "list" /\ c.linked = {}
      /\ \E k \in c.todo :
           IF k \in DOMAIN pubs
           THEN links' = links \cup {<<c.project, k>>} /\ Become(s, [c EXCEPT !.linked = {k}])
           ELSE UNCHANGED links /\ End(s)
      /\ UNCHANGED <<accountVars, memberVars, pubs>>

ListClear(s) ==
  LET c == call[s]
  IN  /\ c.op = "list" /\ c.linked # {}
      /\ pubs' = Cleared(c.linked)
      /\ IF c.todo = c.linked THEN End(s)
         ELSE Become(s, [c EXCEPT !.todo = @ \ c.linked, !.linked = {}])
      /\ UNCHANGED <<accountVars, memberVars, links>>

\* From the project named, or from the one it is linked to.
RemoveRead(s, p, stepUp, k, pr) ==
  /\ p \in Known /\ k \in DOMAIN pubs
  /\ Begin("publications", s,
           [op |-> "remove", at |-> IF pubs[k].legacy = NoProject THEN "look" ELSE "link",
            pub |-> k, by |-> p, stepUp |-> stepUp, project |-> pr, legacy |-> pubs[k].legacy])
  /\ UNCHANGED <<accountVars, memberVars, publicationVars>>

Removing(s, at) == call[s].op = "remove" /\ call[s].at = at
Proceed(s, at) == Become(s, [call[s] EXCEPT !.at = at])

\* The old column as it was read becomes a link, to the project that is named
\* if one is, before anything is looked for.
RemoveLink(s) ==
  LET c == call[s]
  IN  /\ Removing(s, "link")
      /\ IF c.pub \in DOMAIN pubs
         THEN /\ links' = links \cup {<<IF c.project = NoProject THEN c.legacy ELSE c.project, c.pub>>}
              /\ Proceed(s, "clear")
         ELSE UNCHANGED links /\ End(s)
      /\ UNCHANGED <<accountVars, memberVars, pubs>>

RemoveClear(s) ==
  /\ Removing(s, "clear")
  /\ pubs' = Cleared({call[s].pub})
  /\ Proceed(s, "look")
  /\ UNCHANGED <<accountVars, memberVars, links>>

\* Any link there is, if no project is named; that it is the only one is asked next.
RemoveLook(s) ==
  LET c == call[s]
      found == {l \in LinksOf(c.pub) : c.project \in {NoProject, l[1]}}
  IN  /\ Removing(s, "look")
      /\ \/ found = {} /\ End(s)
         \/ \E l \in found :
              Become(s, [c EXCEPT !.project = l[1], !.at = IF c.project = NoProject THEN "count" ELSE "rights"])
      /\ UNCHANGED <<accountVars, memberVars, publicationVars>>

RemoveCount(s) ==
  /\ Removing(s, "count")
  /\ IF Cardinality(LinksOf(call[s].pub)) > 1 THEN End(s) ELSE Proceed(s, "rights")
  /\ UNCHANGED <<accountVars, memberVars, publicationVars>>

RemoveRights(s) ==
  LET c == call[s]
  IN  /\ Removing(s, "rights")
      /\ IF MayEdit(c.by, c.stepUp, c.project) THEN Proceed(s, "unlink") ELSE End(s)
      /\ UNCHANGED <<accountVars, memberVars, publicationVars>>

RemoveUnlink(s) ==
  LET c == call[s]
  IN  /\ Removing(s, "unlink")
      /\ links' = links \ {<<c.project, c.pub>>}
      /\ Proceed(s, "last")
      /\ UNCHANGED <<accountVars, memberVars, pubs>>

RemoveLast(s) ==
  /\ Removing(s, "last")
  /\ pubs' = Cleared({call[s].pub})
  /\ End(s)
  /\ UNCHANGED <<accountVars, memberVars, links>>

-----------------------------------------------------------------------------
(* What directors do: approve, without a look at the status, or reject.    *)

Review(p, k, status) ==
  /\ p \in Known /\ HasRole(UserOf(p), "director") /\ k \in DOMAIN pubs /\ Once("publications")
  /\ pubs' = [pubs EXCEPT ![k].status = status, ![k].decided = @ + 1]
  /\ UNCHANGED <<accountVars, memberVars, links>>

-----------------------------------------------------------------------------
(* Properties.                                                             *)

PublicationsTypeOK ==
  /\ \A k \in DOMAIN pubs : pubs[k] \in PublicationRow
  /\ \A k, l \in DOMAIN pubs : k # l => <<pubs[k].owner, pubs[k].uid>> # <<pubs[l].owner, pubs[l].uid>>
  /\ links \subseteq Link

\* Of a step: the text of an approved publication stays, and its approval, but
\* for another decision, or an update that had looked before the approval.
ApprovalKept ==
  \A k \in DOMAIN pubs \cap DOMAIN pubs' :
    pubs[k].status = "approved" /\ (pubs'[k].text # pubs[k].text \/ pubs'[k].status # "approved") =>
      \/ pubs'[k].decided > pubs[k].decided
      \/ \E s \in Session : /\ call[s].op = "update" /\ call'[s] = NoCall
                            /\ call[s].pub = k /\ call[s].decided < pubs[k].decided

\* An approval stands for the text that was reviewed: the text of an approved
\* publication changes, or its approval goes, only by another decision, with
\* the publication, or by an update that had looked at the status before the
\* approval (updateOwnedPublication against approvePublication).
ApprovalStands == [][ApprovalKept]_pubs
=============================================================================
