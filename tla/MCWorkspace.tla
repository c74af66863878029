----------------------------- MODULE MCWorkspace -----------------------------
(***************************************************************************)
(* A PI with an active and a new project, an admin, and a guest who is     *)
(* invited; one publication from before links, two works to register.      *)
(***************************************************************************)
EXTENDS Workspace

MCOld == [pi |-> "pi@a", boss |-> "boss@a", guest |-> "guest@a"]
MCNew == [pi |-> "me@a", boss |-> "boss@a", guest |-> "p.i@a"]
\* The slug drops the dot, and capitals.
MCTitle == {"pi@a", "me@a", "boss@a", "guest@a", "p.i@a", "Guest@A"}
MCSlug == [t \in MCTitle |-> CASE t = "p.i@a" -> "pi@a" [] t = "Guest@A" -> "guest@a" [] OTHER -> t]
MCEntitled == [pi |-> {}, boss |-> {"admin", "director"}, guest |-> {}]

MCUsers == <<[sub |-> "pi", email |-> "pi@a", role |-> "user"], [sub |-> "boss", email |-> "boss@a", role |-> "admin"]>>
MCPersonal == <<[title |-> "pi@a", slug |-> "pi@a"], [title |-> "boss@a", slug |-> "boss@a"]>>

MCProjects == [a |-> [status |-> "active", pi |-> 1, group |-> TRUE],
               b |-> [status |-> "new", pi |-> 1, group |-> FALSE]]

As(email, role) == [email |-> email, role |-> role]
MCBatch == {{As("guest@a", "user")}, {As("guest@a", "manager"), As("boss@a", "user")},
            {As("guest@a", "user"), As("guest@a", "manager")}, {As("p.i@a", "user")}}

MCPubs == 0 :> [owner |-> 1, uid |-> <<"bare", "w">>, status |-> "pending", text |-> 0, decided |-> 0, legacy |-> "a"]

\* A required attribute given without a value, and one given twice.
MCTypes == <<[name |-> "cores", required |-> TRUE]>>
Entry(key, value) == [key |-> key, value |-> value]
MCForm == {[name |-> "cloud", attributes |-> <<Entry("cores", "8"), Entry("cores", "4"), Entry("quantity_ram", "1")>>],
           [name |-> "cloud", attributes |-> <<Entry("cores", ""), Entry("cores", "4")>>],
           [name |-> "grid", attributes |-> <<Entry("cores", "2")>>]}

\* Two of one person, the second of someone who has not signed in as well.
Of(login, names) == [login |-> login, orcids |-> names]
MCNotice == {<<Of("pi", {"o1", "o2"})>>, <<Of("guest", {"o2"}), Of("pi", {"o2", "o3"})>>}

Budget(accounts, inMembers, publications, catalogue, notices) ==
  [accounts |-> accounts, members |-> inMembers, publications |-> publications, catalogue |-> catalogue, notices |-> notices]
MCBudgets == {Budget(3, 1, 0, 0, 0), Budget(2, 2, 0, 0, 0), Budget(1, 3, 0, 0, 0), Budget(0, 1, 2, 0, 0),
              Budget(0, 0, 3, 0, 0), Budget(1, 0, 0, 4, 0), Budget(1, 0, 0, 0, 3)}

Sessions == Permutations(Session)
=============================================================================
