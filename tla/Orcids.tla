------------------------------- MODULE Orcids --------------------------------
(***************************************************************************)
(* The ORCIDs of the users, as Perun's notifications tell them.  A         *)
(* notification names several people; their rows are compared and changed  *)
(* one statement at a time, outside any transaction.                       *)
(***************************************************************************)
EXTENDS UserAccounts

CONSTANTS
  Orcid,
  Notice      \* sequences of [login, orcids]

VARIABLE orcids    \* <<user, ORCID>>

ASSUME NoticeAssumption ==
  \A notice \in Notice : notice \in Seq([login : Person, orcids : SUBSET Orcid])

OrcidRow == (DOMAIN users) \X Orcid

OrcidsInit == orcids = {}

OrcidsOf(u) == {o \in Orcid : <<u, o>> \in orcids}

Compared(c) == c.op = "notice" /\ c.old = {} /\ c.new = {}

Notify(s, notice) ==
  /\ Begin("notices", s, [op |-> "notice", todo |-> notice, user |-> 0, old |-> {}, new |-> {}])
  /\ UNCHANGED <<accountVars, orcids>>

\* Who has never signed in is passed over.
ReadEntry(s) ==
  LET c == call[s]
      entry == Head(c.todo)
      u == UserOf(entry.login)
  IN  /\ Compared(c) /\ c.todo # <<>>
      /\ Become(s, IF entry.login \notin Known THEN [c EXCEPT !.todo = Tail(@)]
                   ELSE [c EXCEPT !.todo = Tail(@), !.user = u,
                                  !.old = OrcidsOf(u) \ entry.orcids, !.new = entry.orcids \ OrcidsOf(u)])
      /\ UNCHANGED <<accountVars, orcids>>

DeleteOld(s, o) ==
  LET c == call[s]
  IN  /\ c.op = "notice" /\ o \in c.old
      /\ orcids' = orcids \ {<<c.user, o>>}
      /\ Become(s, [c EXCEPT !.old = @ \ {o}])
      /\ UNCHANGED accountVars

\* The unique index: what another notification has saved meanwhile ends this
\* one, with whatever it had left to do.
SaveNew(s, o) ==
  LET c == call[s]
  IN  /\ c.op = "notice" /\ c.old = {} /\ o \in c.new
      /\ IF <<c.user, o>> \in orcids THEN UNCHANGED orcids /\ End(s)
         ELSE /\ orcids' = orcids \cup {<<c.user, o>>}
              /\ Become(s, [c EXCEPT !.new = @ \ {o}])
      /\ UNCHANGED accountVars

Processed(s) ==
  /\ Compared(call[s]) /\ call[s].todo = <<>>
  /\ End(s)
  /\ UNCHANGED <<accountVars, orcids>>

-----------------------------------------------------------------------------
(* Properties.                                                             *)

\* What Perun ever said of a person.
NamedOf(p) ==
  UNION {entry.orcids : entry \in {e \in UNION {ToSet(notice) : notice \in Notice} : e.login = p}}

\* An ORCID belongs to an account that has signed in and whose subject Perun
\* named it for, however sign-ins and notifications overlap.
OrcidsTypeOK ==
  \A row \in orcids : row \in OrcidRow /\ users[row[1]].sub # Nobody /\ row[2] \in NamedOf(users[row[1]].sub)
=============================================================================
