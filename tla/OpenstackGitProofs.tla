-------------------------- MODULE OpenstackGitProofs --------------------------
(***************************************************************************)
(* GitInStep is an invariant of the calls that share the clone, for every  *)
(* choice of the constants: every tree holds documents that are sound      *)
(* where they lie, and every call that has made a branch is alone with it. *)
(* What a call leaves behind in the clone (StagedInTurn) and what a call   *)
(* that nobody disturbs finds there (OneAtATime) are invariants on top.    *)
(***************************************************************************)
EXTENDS OpenstackGit, FiniteSetTheorems, WellFoundedInduction, TLAPS

DocumentOf(r) ==
  BuildYaml(filed[r].filing.payload, filed[r].filing.project, filed[r].filing.requestors)

OfferedUnder(cat, d) ==
  LET offered == Catalog(cat)
  IN  /\ d.domain \in offered.domains
      /\ DOMAIN d.quota \subseteq offered.quotaKeys
      /\ {d.flavors[i] : i \in DOMAIN d.flavors} \subseteq offered.flavors
      /\ \A nets \in {d.external, d.shared} :
           /\ {nets[i] : i \in DOMAIN nets} \subseteq offered.networks
           /\ Cardinality({nets[i] : i \in DOMAIN nets}) = Len(nets)

Sound(d) ==
  /\ d.entitledTo = d.name
  /\ d.contacts # {}
  /\ \A k \in DOMAIN d.quota : d.quota[k] > 0
  /\ \E v \in 1..MaxTerraform : OfferedUnder(CatalogOf[v], d)

SoundAt(p, d) == d = Missing \/ (d \in Documents /\ FilePath(d) = p /\ Sound(d))

Tree ==
  {t \in [RepoPath -> (1..MaxTerraform) \cup Documents \cup {Missing}] :
     t[Terraform] \in 1..MaxTerraform /\ \A p \in Path : SoundAt(p, t[p])}

BranchRow == [tree : Tree, fork : Tree]

IsRepository(branches) ==
  /\ IsFiniteSet(DOMAIN branches) /\ DOMAIN branches \subseteq Branch
  /\ Base \in DOMAIN branches
  /\ branches \in [DOMAIN branches -> BranchRow]

HasCloneFields(c) ==
  c = [head |-> c.head, index |-> c.index, work |-> c.work, branch |-> c.branch,
       tracking |-> c.tracking]

IsClone(c) ==
  /\ HasCloneFields(c)
  /\ IsRepository(c.branch)
  /\ c.head \in DOMAIN c.branch /\ c.index \in Tree /\ c.work \in Tree

Place == {"idle", "base", "pull", "list", "create", "write", "add", "commit", "push",
          "propose", "restore", "record"}

\* A call that has its branch, and has not proposed it yet.
HasBranch == {"write", "add", "commit", "push", "propose"}

HandlerState ==
  [pc : Place, request : RequestId \cup {0}, branch : Branch, taken : SUBSET Branch,
   document : Documents \cup {Missing}, failed : BOOLEAN]

FiledRow == [filing : Filing, day : Nat, catalog : 1..MaxTerraform]

GitShapes ==
  /\ today \in 0..MaxDay /\ catalog \in 1..MaxTerraform
  /\ DOMAIN filed \subseteq RequestId /\ filed \in [DOMAIN filed -> FiledRow]
  /\ processed \subseteq DOMAIN filed
  /\ IsRepository(origin) /\ IsClone(clone) /\ clone.tracking = DOMAIN origin
  /\ DOMAIN proposal \subseteq DOMAIN origin \ {Base}
  /\ proposal \in [DOMAIN proposal -> {"opened", "merged", "closed"}]
  /\ handler \in [Handler -> HandlerState]
  /\ overlapped \in BOOLEAN /\ failures \in Nat /\ restarts \in Nat

\* What was filed was valid on its day, under the catalogue of its day.
FiledWereValid ==
  /\ \A r \in DOMAIN filed :
       /\ filed[r].day <= today
       /\ ValidPayload(filed[r].filing.payload, CatalogOf[filed[r].catalog], filed[r].day)
  /\ restarts = 0 => catalog = 1 /\ \A r \in DOMAIN filed : filed[r].catalog = 1

\* A call knows its request, has a document to write and, once it has made a
\* branch, one that nobody else uses and no merge request has been made for.
HandlerInStep(h) ==
  LET me == handler[h]
  IN  /\ me.branch \in DOMAIN clone.branch
      /\ IsFiniteSet(me.taken)
      /\ me.pc # "idle" => /\ me.request \in DOMAIN filed
                           /\ me.document = DocumentOf(me.request)
                           /\ FilePath(me.document) \in Path
                           /\ SoundAt(FilePath(me.document), me.document)
      /\ me.pc = "create" => DOMAIN origin \subseteq me.taken \cup DOMAIN clone.branch
      /\ me.pc \in HasBranch => me.branch[1] = me.request /\ me.branch \notin DOMAIN proposal
      /\ me.pc = "propose" => me.branch \in DOMAIN origin

BranchesAreApart ==
  \A g, h \in Handler :
    g # h /\ handler[g].pc \in HasBranch /\ handler[h].pc \in HasBranch =>
      handler[g].branch # handler[h].branch

BranchesHaveRequests ==
  \A b \in (DOMAIN clone.branch \cup DOMAIN origin) \ {Base} : b[1] \in DOMAIN filed

GitInStep ==
  /\ GitShapes /\ FiledWereValid
  /\ \A h \in Handler : HandlerInStep(h)
  /\ BranchesAreApart /\ BranchesHaveRequests

\* The calls that keep the clone off its base branch.
OffBase == HasBranch \cup {"restore"}

Unbroken == failures = 0 /\ restarts = 0

\* As long as nothing broke, what is written waits for its add and what is
\* staged for its commit, and someone is about to return to the base branch.
StagedInTurn ==
  Unbroken =>
    /\ \A p \in RepoPath : clone.work[p] # clone.index[p] =>
         \E h \in Handler : At(h, "add") /\ FilePath(handler[h].document) = p
    /\ \A p \in RepoPath : clone.index[p] # HeadTree[p] =>
         \E h \in Handler : At(h, "commit") /\ FilePath(handler[h].document) = p
    /\ clone.head # Base => \E h \in Handler : handler[h].pc \in OffBase

Calm == ~overlapped /\ failures = 0 /\ restarts = 0

ChangesOnly(row, d) ==
  \A p \in RepoPath : row.tree[p] # row.fork[p] => p = FilePath(d) /\ row.tree[p] = d

With(tree, d) == [tree EXCEPT ![FilePath(d)] = d]

\* What the call finds when nobody disturbs it.
FindsItsOwn(h) ==
  LET me == handler[h]
  IN  /\ me.pc \in OffBase => clone.head = me.branch /\ me.branch # Base
      /\ me.pc \in {"write", "add", "commit"} => HeadTree = clone.branch[clone.head].fork
      /\ me.pc \notin {"commit"} => clone.index = HeadTree
      /\ me.pc \notin {"add", "commit"} => clone.work = HeadTree
      /\ me.pc = "add" => clone.work = With(HeadTree, me.document)
      /\ me.pc = "commit" => /\ clone.index = With(HeadTree, me.document)
                             /\ clone.work = With(HeadTree, me.document)
      /\ me.pc \notin OffBase => clone.head = Base

OneAtATime ==
  Calm =>
    /\ \A g, h \in Handler : g # h => At(g, "idle") \/ At(h, "idle")
    /\ clone.branch[Base].tree = clone.branch[Base].fork
    /\ \A b \in DOMAIN clone.branch \ {Base} : ChangesOnly(clone.branch[b], DocumentOf(b[1]))
    /\ \A b \in DOMAIN origin \ {Base} : ChangesOnly(origin[b], DocumentOf(b[1]))
    /\ \A h \in Handler : (\A g \in Handler \ {h} : At(g, "idle")) => FindsItsOwn(h)

-----------------------------------------------------------------------------
(* Branches, documents and trees                                           *)

LEMMA BaseIsABranch ==
  /\ Base \in Branch /\ 0 \notin RequestId /\ RequestId \subseteq Nat
  /\ \A b \in Branch : b # Base <=> b[1] \in RequestId
  /\ \A r \in RequestId, k \in Nat : /\ <<r, k>> \in Branch /\ <<r, k>> # Base
                                     /\ <<r, k>>[1] = r
BY GitAssumption DEF Base, Branch

LEMMA LeastOfNaturals ==
  ASSUME NEW S \in SUBSET Nat, S # {}
  PROVE  Min(S) \in S
<1>1. PICK k \in S : \A j \in S : <<j, k>> \notin OpToRel(<, Nat)
  BY NatLessThanWellFounded, WFMin
<1>2. ASSUME NEW j \in S, j < k
      PROVE  FALSE
  <2>1. <<j, k>> \in Nat \X Nat /\ <<j, k>>[1] < <<j, k>>[2]
    BY <1>2
  <2>2. <<j, k>> \in OpToRel(<, Nat)
    BY <2>1, Zenon DEF OpToRel
  <2> QED BY <1>1, <2>2
<1>3. \A j \in S : k <= j
  BY <1>2
<1> QED BY <1>3 DEF Min

\* More suffixes are tried than there are names that could be taken.
LEMMA FreeSuffixIsFree ==
  ASSUME NEW r, NEW taken, IsFiniteSet(taken)
  PROVE  FreeSuffix(r, taken) \in Nat /\ <<r, FreeSuffix(r, taken)>> \notin taken
<1> DEFINE n == Cardinality(taken)
           free == {k \in 0..n : <<r, k>> \notin taken}
           f == [k \in 0..n |-> <<r, k>>]
<1>1. n \in Nat
  BY FS_CardinalityType
<1>2. IsFiniteSet(0..n) /\ Cardinality(0..n) = n + 1
  BY <1>1, FS_Interval
<1>3. free # {}
  <2>1. SUFFICES ASSUME free = {} PROVE FALSE
    OBVIOUS
  <2>2. f \in Injection(0..n, taken)
    BY <2>1 DEF Injection, IsInjective
  <2>3. Cardinality(0..n) <= n
    BY <2>2, FS_Injection
  <2> QED BY <1>1, <1>2, <2>3
<1>4. free \in SUBSET Nat
  BY <1>1
<1>5. Min(free) \in free
  BY <1>3, <1>4, LeastOfNaturals
<1> QED BY <1>4, <1>5 DEF FreeSuffix

\* A list without duplicates has as many elements as entries.
LEMMA EachNameOnce ==
  ASSUME NEW names, Len(names) \in Nat, DOMAIN names = 1..Len(names), NoDuplicates(names)
  PROVE  Cardinality({names[i] : i \in DOMAIN names}) = Len(names)
<1> DEFINE S == {names[i] : i \in DOMAIN names}
           f == [i \in 1..Len(names) |-> names[i]]
<1>1. f \in Bijection(1..Len(names), S)
  BY DEF NoDuplicates, Bijection, Injection, Surjection, IsInjective
<1>2. ExistsBijection(1..Len(names), S)
  BY <1>1 DEF ExistsBijection
<1> QED BY <1>2, FS_CountingElements

\* What the second check lets through is sound where it will be written.
LEMMA BuiltIsSound ==
  ASSUME NEW f \in Filing, catalog \in 1..MaxTerraform, CanBuild(f)
  PROVE  LET d == BuildYaml(f.payload, f.project, f.requestors)
         IN  d \in Documents /\ FilePath(d) \in Path /\ Sound(d)
<1> DEFINE d == BuildYaml(f.payload, f.project, f.requestors)
           cat == CatalogOf[catalog]
<1>1. d \in Documents /\ FilePath(d) \in Path
  BY FilingAssumption DEF Documents
<1>2. /\ d.entitledTo = d.name /\ d.contacts = Contacts(f.project)
      /\ d.quota = f.payload.quota /\ d.domain = f.payload.domain
      /\ d.flavors = f.payload.flavors
      /\ d.external = f.payload.external /\ d.shared = f.payload.shared
  BY DEF BuildYaml
<1>3. /\ ValidPayload(f.payload, cat, today) /\ Contacts(f.project) # {}
      /\ NormalQuota(f.payload.quota)
  BY DEF CanBuild
<1>4. \A k \in DOMAIN d.quota : d.quota[k] > 0
  BY <1>2, <1>3, FilingAssumption DEF NormalQuota
<1>5. OfferedUnder(cat, d)
  <2>1. /\ f.payload.domain \in AllowedDomains
        /\ DOMAIN f.payload.quota \subseteq QuotaKeys
        /\ \A i \in DOMAIN f.payload.flavors : f.payload.flavors[i] \in Assignable(cat.flavors)
        /\ \A i \in DOMAIN f.payload.external : f.payload.external[i] \in Assignable(cat.networks)
        /\ \A i \in DOMAIN f.payload.shared : f.payload.shared[i] \in Assignable(cat.networks)
        /\ NoDuplicates(f.payload.external) /\ NoDuplicates(f.payload.shared)
    BY <1>3 DEF ValidPayload, QuotaKeysAllowed, FlavorsAllowed, NetworksAllowed, NetworksAssignable
  <2>2. \A names \in {f.payload.external, f.payload.shared} :
          Cardinality({names[i] : i \in DOMAIN names}) = Len(names)
    BY <2>1, EachNameOnce, FilingAssumption
  <2>3. /\ Catalog(cat).domains = AllowedDomains /\ Catalog(cat).quotaKeys = QuotaKeys
        /\ Catalog(cat).flavors = Assignable(cat.flavors)
        /\ Catalog(cat).networks = Assignable(cat.networks)
    BY DEF Catalog
  <2> HIDE DEF d, cat
  <2> QED BY <1>2, <2>1, <2>2, <2>3 DEF OfferedUnder
<1> QED BY <1>1, <1>2, <1>3, <1>4, <1>5 DEF Sound

\* What the maintainers enter by hand differs in its date alone.
LEMMA EnteredIsSound ==
  ASSUME NEW p, NEW d, d # Missing, SoundAt(p, d), d.disableDate # Unlimited
  PROVE  SoundAt(p, [d EXCEPT !.disableDate = Unlimited])
<1> DEFINE e == [d EXCEPT !.disableDate = Unlimited]
<1>1. PICK f \in Filing : d = BuildYaml(f.payload, f.project, f.requestors)
  <2>1. ASSUME NEW f \in Filing,
               d = [BuildYaml(f.payload, f.project, f.requestors) EXCEPT !.disableDate = Unlimited]
        PROVE  FALSE
    BY <2>1 DEF BuildYaml
  <2> QED BY <2>1 DEF SoundAt, Documents
<1>2. e \in Documents
  BY <1>1 DEF Documents
<1>3. /\ e.entitledTo = d.entitledTo /\ e.name = d.name /\ e.contacts = d.contacts
      /\ e.quota = d.quota /\ e.domain = d.domain /\ e.flavors = d.flavors
      /\ e.external = d.external /\ e.shared = d.shared
  BY <1>1 DEF BuildYaml
<1>4. FilePath(e) = p
  BY <1>3 DEF SoundAt, FilePath
<1>5. Sound(e)
  <2> HIDE DEF e
  <2>1. Sound(d)
    BY DEF SoundAt
  <2>2. \A v \in 1..MaxTerraform : OfferedUnder(CatalogOf[v], d) => OfferedUnder(CatalogOf[v], e)
    <3> SUFFICES ASSUME NEW cat, OfferedUnder(cat, d) PROVE OfferedUnder(cat, e)
      OBVIOUS
    <3>1. {e.flavors[i] : i \in DOMAIN e.flavors} = {d.flavors[i] : i \in DOMAIN d.flavors}
      BY <1>3
    <3>2. {e.external, e.shared} = {d.external, d.shared}
      BY <1>3
    <3> QED BY <1>3, <3>1, <3>2, Zenon DEF OfferedUnder
  <2> QED BY <1>3, <2>1, <2>2, Zenon DEF Sound
<1> QED BY <1>2, <1>4, <1>5 DEF SoundAt

LEMMA TerraformHasNoPath ==
  /\ Terraform \in RepoPath /\ Terraform \notin Path
  /\ Path \subseteq RepoPath /\ \A p \in RepoPath : p # Terraform => p \in Path
BY PathAssumption DEF RepoPath

\* A tree put together from sound trees is sound.
LEMMA PickedTreeIsSound ==
  ASSUME NEW s \in Tree, NEW t \in Tree, NEW u,
         u = [p \in RepoPath |-> u[p]], \A p \in RepoPath : u[p] = s[p] \/ u[p] = t[p]
  PROVE  u \in Tree
<1>1. \A p \in RepoPath : u[p] \in (1..MaxTerraform) \cup Documents \cup {Missing}
  BY DEF Tree
<1>2. u \in [RepoPath -> (1..MaxTerraform) \cup Documents \cup {Missing}]
  BY <1>1
<1>3. u[Terraform] \in 1..MaxTerraform
  BY TerraformHasNoPath DEF Tree
<1>4. \A p \in Path : SoundAt(p, u[p])
  BY TerraformHasNoPath DEF Tree
<1> QED BY <1>2, <1>3, <1>4 DEF Tree

LEMMA WrittenTreeIsSound ==
  ASSUME NEW t \in Tree, NEW p \in Path, NEW d, SoundAt(p, d)
  PROVE  [t EXCEPT ![p] = d] \in Tree
<1> DEFINE u == [t EXCEPT ![p] = d]
<1>1. u \in [RepoPath -> (1..MaxTerraform) \cup Documents \cup {Missing}]
  BY TerraformHasNoPath DEF Tree, SoundAt
<1>2. u[Terraform] \in 1..MaxTerraform
  BY TerraformHasNoPath DEF Tree
<1>3. \A q \in Path : SoundAt(q, u[q])
  BY TerraformHasNoPath DEF Tree
<1> QED BY <1>1, <1>2, <1>3 DEF Tree

LEMMA MergedTreeIsSound ==
  ASSUME NEW b \in BranchRow, NEW theirs \in Tree
  PROVE  MergeOf(b, theirs) \in Tree
<1> DEFINE u == MergeOf(b, theirs)
<1>1. u = [p \in RepoPath |-> u[p]] /\ \A p \in RepoPath : u[p] = b.tree[p] \/ u[p] = theirs[p]
  BY DEF MergeOf
<1>2. b.tree \in Tree
  BY DEF BranchRow
<1> HIDE DEF u
<1>3. u \in Tree
  BY <1>1, <1>2, PickedTreeIsSound
<1> QED BY <1>3 DEF u

LEMMA CarriedTreeIsSound ==
  ASSUME NEW from \in Tree, NEW tree \in Tree
  PROVE  Carry(from, tree) \in Tree
<1> DEFINE u == Carry(from, tree)
<1>1. u = [p \in RepoPath |-> u[p]] /\ \A p \in RepoPath : u[p] = from[p] \/ u[p] = tree[p]
  BY DEF Carry
<1> HIDE DEF u
<1>2. u \in Tree
  BY <1>1, PickedTreeIsSound
<1> QED BY <1>2 DEF u

LEMMA EmptyTreeIsSound == EmptyTree \in Tree
<1>1. \A p \in RepoPath : EmptyTree[p] = IF p = Terraform THEN 1 ELSE Missing
  BY DEF EmptyTree
<1>2. 1 \in 1..MaxTerraform
  BY GitAssumption
<1>3. EmptyTree \in [RepoPath -> (1..MaxTerraform) \cup Documents \cup {Missing}]
  BY <1>2 DEF EmptyTree
<1> QED BY <1>1, <1>2, <1>3, TerraformHasNoPath DEF Tree, SoundAt

LEMMA TerraformOfATree ==
  ASSUME NEW t \in Tree
  PROVE  t[Terraform] \in 1..MaxTerraform /\ DOMAIN t = RepoPath
BY DEF Tree

\* One more branch, or one that is replaced.
LEMMA PutBranch ==
  ASSUME NEW branches, IsRepository(branches), NEW b \in Branch, NEW row \in BranchRow
  PROVE  LET more == Put(branches, b, row)
         IN  /\ IsRepository(more)
             /\ DOMAIN more = DOMAIN branches \cup {b} /\ more[b] = row
             /\ \A c \in DOMAIN branches \ {b} : more[c] = branches[c]
<1>1. IsFiniteSet(DOMAIN branches \cup {b})
  BY FS_AddElement DEF IsRepository
<1> QED BY <1>1 DEF IsRepository, Put

LEMMA ReplaceBranch ==
  ASSUME NEW branches, IsRepository(branches), NEW b \in DOMAIN branches, NEW row \in BranchRow
  PROVE  /\ IsRepository([branches EXCEPT ![b] = row])
         /\ [branches EXCEPT ![b] = row][b] = row
BY DEF IsRepository

LEMMA FreshCloneIsSound ==
  ASSUME NEW remote, IsRepository(remote)
  PROVE  LET c == FreshClone(remote)
         IN  /\ IsClone(c)
             /\ c.head = Base /\ c.tracking = DOMAIN remote
             /\ c.index = remote[Base].tree /\ c.work = remote[Base].tree
             /\ DOMAIN c.branch = {Base}
             /\ c.branch[Base] = [tree |-> remote[Base].tree, fork |-> remote[Base].tree]
<1> DEFINE c == FreshClone(remote)
           row == [tree |-> remote[Base].tree, fork |-> remote[Base].tree]
<1>1. remote[Base].tree \in Tree /\ row \in BranchRow
  BY DEF IsRepository, BranchRow
<1>2. /\ HasCloneFields(c)
      /\ c.head = Base /\ c.tracking = DOMAIN remote
      /\ c.index = remote[Base].tree /\ c.work = remote[Base].tree
      /\ c.branch = Put(<<>>, Base, row)
  BY DEF FreshClone, HasCloneFields
<1>3. DOMAIN c.branch = {Base} /\ c.branch[Base] = row /\ c.branch \in [{Base} -> BranchRow]
  BY <1>1, <1>2 DEF Put
<1> HIDE DEF c, row
<1>4. IsRepository(c.branch)
  <2>1. IsFiniteSet({Base})
    BY FS_Singleton
  <2> QED BY <1>3, <2>1, BaseIsABranch DEF IsRepository
<1>5. IsClone(c)
  BY <1>1, <1>2, <1>3, <1>4 DEF IsClone
<1> QED BY <1>2, <1>3, <1>5 DEF c, row

-----------------------------------------------------------------------------
(* What the git commands do to the clone                                   *)

LEMMA CloneFields ==
  ASSUME IsClone(clone)
  PROVE  /\ clone.head \in DOMAIN clone.branch /\ clone.branch[clone.head] \in BranchRow
         /\ clone.branch[clone.head].fork \in Tree
         /\ HeadTree \in Tree /\ clone.index \in Tree /\ clone.work \in Tree
         /\ Base \in DOMAIN clone.branch /\ clone.branch[Base] \in BranchRow
         /\ clone.branch[Base].tree \in Tree /\ clone.branch[Base].fork \in Tree
         /\ DOMAIN clone.branch \subseteq Branch
BY DEF IsClone, IsRepository, BranchRow, HeadTree

LEMMA CheckedOutClone ==
  ASSUME IsClone(clone), NEW b \in DOMAIN clone.branch, NEW tree \in Tree
  PROVE  LET c == CheckedOut(b, tree)
         IN  /\ IsClone(c) /\ c.head = b /\ c.branch = clone.branch
             /\ c.index = Carry(clone.index, tree) /\ c.work = Carry(clone.work, tree)
             /\ c.tracking = clone.tracking
<1> DEFINE c == CheckedOut(b, tree)
<1>1. Carry(clone.index, tree) \in Tree /\ Carry(clone.work, tree) \in Tree
  BY CloneFields, CarriedTreeIsSound
<1>2. HasCloneFields(clone) /\ IsRepository(clone.branch)
  BY DEF IsClone
<1>3. /\ HasCloneFields(c) /\ c.head = b /\ c.branch = clone.branch
      /\ c.index = Carry(clone.index, tree) /\ c.work = Carry(clone.work, tree)
      /\ c.tracking = clone.tracking
  <2>1. c = [clone EXCEPT !.head = b, !.index = Carry(clone.index, tree),
                          !.work = Carry(clone.work, tree)]
    BY DEF CheckedOut
  <2> HIDE DEF c
  <2> QED BY <1>2, <2>1 DEF HasCloneFields
<1> HIDE DEF c
<1>4. IsClone(c)
  BY <1>1, <1>2, <1>3 DEF IsClone
<1> QED BY <1>3, <1>4 DEF c

LEMMA BaseCheckedOut ==
  ASSUME IsClone(clone), NEW h \in Handler, CheckOutBase(h)
  PROVE  /\ IsClone(clone') /\ clone'.head = Base /\ clone'.branch = clone.branch
         /\ clone'.index = Carry(clone.index, clone.branch[Base].tree)
         /\ clone'.work = Carry(clone.work, clone.branch[Base].tree)
         /\ clone'.tracking = clone.tracking \cup DOMAIN origin
<1> DEFINE c == CheckedOut(Base, clone.branch[Base].tree)
<1>1. /\ IsClone(c) /\ c.head = Base /\ c.branch = clone.branch
      /\ c.index = Carry(clone.index, clone.branch[Base].tree)
      /\ c.work = Carry(clone.work, clone.branch[Base].tree)
      /\ c.tracking = clone.tracking
  BY CloneFields, CheckedOutClone
<1>2. clone' = [c EXCEPT !.tracking = @ \cup DOMAIN origin]
  BY DEF CheckOutBase
<1> HIDE DEF c
<1>3. HasCloneFields(c)
  BY <1>1 DEF IsClone
<1>4. /\ HasCloneFields(clone') /\ clone'.tracking = c.tracking \cup DOMAIN origin
      /\ clone'.head = c.head /\ clone'.index = c.index /\ clone'.work = c.work
      /\ clone'.branch = c.branch
  BY <1>2, <1>3 DEF HasCloneFields
<1> QED BY <1>1, <1>4 DEF IsClone

LEMMA BasePulled ==
  ASSUME IsClone(clone), IsRepository(origin), NEW h \in Handler, Pull(h)
  PROVE  LET theirs == origin[Base].tree
         IN  /\ IsClone(clone') /\ clone'.head = clone.head
             /\ DOMAIN clone'.branch = DOMAIN clone.branch
             /\ clone'.tracking = clone.tracking
             /\ GoTo(h, "list")
             /\ \/ clone' = clone /\ theirs = clone.branch[clone.head].fork
                \/ /\ CanCheckOut(theirs)
                   /\ clone'.branch[clone.head] = [tree |-> theirs, fork |-> theirs]
                   /\ \A b \in DOMAIN clone.branch \ {clone.head} : clone'.branch[b] = clone.branch[b]
                   /\ clone'.index = Carry(clone.index, theirs)
                   /\ clone'.work = Carry(clone.work, theirs)
<1> DEFINE theirs == origin[Base].tree
           row == [tree |-> theirs, fork |-> theirs]
           c == CheckedOut(clone.head, theirs)
<1>1. theirs \in Tree
  BY DEF IsRepository, BranchRow
<1>2. row \in BranchRow
  BY <1>1 DEF BranchRow
<1>3. /\ GoTo(h, "list")
      /\ \/ UNCHANGED clone /\ theirs = clone.branch[clone.head].fork
         \/ CanCheckOut(theirs) /\ clone' = [c EXCEPT !.branch[clone.head] = row]
  BY DEF Pull, MayForward
<1>4. /\ IsClone(c) /\ c.head = clone.head /\ c.branch = clone.branch
      /\ c.index = Carry(clone.index, theirs) /\ c.work = Carry(clone.work, theirs)
      /\ c.tracking = clone.tracking
  <2> HIDE DEF theirs
  <2> QED BY <1>1, CloneFields, CheckedOutClone
<1> HIDE DEF theirs, row, c
<1>5. CASE UNCHANGED clone /\ theirs = clone.branch[clone.head].fork
  BY <1>3, <1>5 DEF theirs
<1>6. CASE CanCheckOut(theirs) /\ clone' = [c EXCEPT !.branch[clone.head] = row]
  <2>1. HasCloneFields(c) /\ IsRepository(clone.branch)
    BY <1>4 DEF IsClone
  <2>2. /\ HasCloneFields(clone') /\ clone'.head = clone.head
        /\ clone'.branch = [clone.branch EXCEPT ![clone.head] = row]
        /\ clone'.index = c.index /\ clone'.work = c.work /\ clone'.tracking = c.tracking
    BY <1>4, <1>6, <2>1 DEF HasCloneFields
  <2>3. /\ IsRepository(clone'.branch) /\ clone'.branch[clone.head] = row
        /\ DOMAIN clone'.branch = DOMAIN clone.branch
        /\ \A b \in DOMAIN clone.branch \ {clone.head} : clone'.branch[b] = clone.branch[b]
    BY <1>2, <2>1, <2>2, CloneFields, ReplaceBranch DEF IsRepository
  <2>4. IsClone(clone')
    BY <1>4, <2>2, <2>3 DEF IsClone
  <2> QED BY <1>3, <1>4, <1>6, <2>2, <2>3, <2>4, Zenon DEF theirs, row
<1> QED BY <1>3, <1>5, <1>6

LEMMA BranchCreated ==
  ASSUME IsClone(clone), NEW h \in Handler, CreateBranch(h), handler[h].request \in RequestId,
         IsFiniteSet(handler[h].taken)
  PROVE  \E b \in Branch :
           /\ b \notin handler[h].taken /\ b \notin DOMAIN clone.branch
           /\ b # Base /\ b[1] = handler[h].request
           /\ IsClone(clone') /\ clone'.head = b
           /\ DOMAIN clone'.branch = DOMAIN clone.branch \cup {b}
           /\ clone'.branch[b] = clone.branch[clone.head]
           /\ \A c \in DOMAIN clone.branch : clone'.branch[c] = clone.branch[c]
           /\ clone'.index = clone.index /\ clone'.work = clone.work
           /\ clone'.tracking = clone.tracking
           /\ handler' = [handler EXCEPT ![h].pc = "write", ![h].branch = b, ![h].taken = {}]
<1> DEFINE r == handler[h].request
           b == <<r, FreeSuffix(r, handler[h].taken)>>
           row == clone.branch[clone.head]
<1>1. b \in Branch /\ b \notin handler[h].taken /\ b # Base /\ b[1] = r
  BY FreeSuffixIsFree, BaseIsABranch
<1>2. /\ b \notin DOMAIN clone.branch
      /\ clone' = [clone EXCEPT !.head = b, !.branch = Put(clone.branch, b, row)]
      /\ handler' = [handler EXCEPT ![h].pc = "write", ![h].branch = b, ![h].taken = {}]
  BY DEF CreateBranch
<1> HIDE DEF b, row
<1>3. HasCloneFields(clone) /\ IsRepository(clone.branch)
  BY DEF IsClone
<1>4. /\ HasCloneFields(clone') /\ clone'.head = b
      /\ clone'.branch = Put(clone.branch, b, row)
      /\ clone'.index = clone.index /\ clone'.work = clone.work
      /\ clone'.tracking = clone.tracking
  BY <1>2, <1>3 DEF HasCloneFields
<1>5. row \in BranchRow
  BY CloneFields DEF row
<1>6. /\ IsRepository(clone'.branch) /\ DOMAIN clone'.branch = DOMAIN clone.branch \cup {b}
      /\ clone'.branch[b] = row
      /\ \A c \in DOMAIN clone.branch : clone'.branch[c] = clone.branch[c]
  BY <1>1, <1>2, <1>3, <1>4, <1>5, PutBranch
<1>7. IsClone(clone')
  BY <1>4, <1>6 DEF IsClone
<1> QED BY <1>1, <1>2, <1>4, <1>6, <1>7 DEF row

LEMMA FileWritten ==
  ASSUME IsClone(clone), NEW h \in Handler, WriteFile(h),
         FilePath(handler[h].document) \in Path,
         SoundAt(FilePath(handler[h].document), handler[h].document)
  PROVE  /\ IsClone(clone') /\ clone'.head = clone.head /\ clone'.branch = clone.branch
         /\ clone'.index = clone.index
         /\ clone'.work = With(clone.work, handler[h].document)
         /\ clone'.tracking = clone.tracking
<1> DEFINE p == FilePath(handler[h].document)
           d == handler[h].document
<1>1. clone' = [clone EXCEPT !.work[p] = d]
  BY DEF WriteFile
<1>2. With(clone.work, d) = [clone.work EXCEPT ![p] = d]
  BY DEF With
<1>3. With(clone.work, d) \in Tree
  BY <1>2, CloneFields, WrittenTreeIsSound
<1> HIDE DEF p, d
<1>4. HasCloneFields(clone)
  BY DEF IsClone
<1>5. /\ HasCloneFields(clone') /\ clone'.head = clone.head /\ clone'.branch = clone.branch
      /\ clone'.index = clone.index /\ clone'.work = [clone.work EXCEPT ![p] = d]
      /\ clone'.tracking = clone.tracking
  BY <1>1, <1>4 DEF HasCloneFields
<1>6. IsClone(clone')
  BY <1>2, <1>3, <1>5 DEF IsClone
<1> QED BY <1>2, <1>5, <1>6 DEF d

LEMMA FileAdded ==
  ASSUME IsClone(clone), NEW h \in Handler, Add(h)
  PROVE  /\ IsClone(clone') /\ clone'.head = clone.head /\ clone'.branch = clone.branch
         /\ clone'.index = [clone.index EXCEPT ![FilePath(handler[h].document)] =
                                                  clone.work[FilePath(handler[h].document)]]
         /\ clone'.work = clone.work
         /\ clone'.tracking = clone.tracking
<1> DEFINE p == FilePath(handler[h].document)
           u == [clone.index EXCEPT ![p] = clone.work[p]]
<1>1. clone' = [clone EXCEPT !.index[p] = clone.work[p]]
  BY DEF Add
<1>2. u \in Tree
  <2>1. DOMAIN clone.index = RepoPath /\ clone.index = [q \in RepoPath |-> clone.index[q]]
    BY CloneFields DEF Tree
  <2>2. \A q \in RepoPath : u[q] = clone.index[q] \/ u[q] = clone.work[q]
    BY <2>1
  <2>3. u = [q \in RepoPath |-> u[q]]
    BY <2>1
  <2> HIDE DEF u
  <2> QED BY <2>2, <2>3, CloneFields, PickedTreeIsSound
<1> HIDE DEF p
<1>3. HasCloneFields(clone)
  BY DEF IsClone
<1>4. /\ HasCloneFields(clone') /\ clone'.head = clone.head /\ clone'.branch = clone.branch
      /\ clone'.index = u /\ clone'.work = clone.work
      /\ clone'.tracking = clone.tracking
  BY <1>1, <1>3 DEF HasCloneFields
<1> HIDE DEF u
<1>5. IsClone(clone')
  BY <1>2, <1>4 DEF IsClone
<1> QED BY <1>4, <1>5 DEF u, p

LEMMA StagedIsCommitted ==
  ASSUME IsClone(clone), NEW h \in Handler, Commit(h)
  PROVE  /\ IsClone(clone') /\ clone'.head = clone.head
         /\ DOMAIN clone'.branch = DOMAIN clone.branch
         /\ clone'.branch[clone.head].tree = clone.index
         /\ clone'.branch[clone.head].fork = clone.branch[clone.head].fork
         /\ \A b \in DOMAIN clone.branch \ {clone.head} : clone'.branch[b] = clone.branch[b]
         /\ clone'.index = clone.index /\ clone'.work = clone.work
         /\ clone'.tracking = clone.tracking
<1> DEFINE row == [tree |-> clone.index, fork |-> clone.branch[clone.head].fork]
<1>1. HasCloneFields(clone) /\ IsRepository(clone.branch)
  BY DEF IsClone
<1>2. row \in BranchRow
  BY CloneFields DEF BranchRow
<1>3. clone' = [clone EXCEPT !.branch[clone.head].tree = clone.index]
  BY DEF Commit
<1>4. [clone.branch[clone.head] EXCEPT !.tree = clone.index] = row
  BY CloneFields DEF BranchRow
<1>5. clone' = [clone EXCEPT !.branch = [clone.branch EXCEPT ![clone.head] = row]]
  BY <1>3, <1>4
<1> HIDE DEF row
<1>6. /\ HasCloneFields(clone') /\ clone'.head = clone.head
      /\ clone'.branch = [clone.branch EXCEPT ![clone.head] = row]
      /\ clone'.index = clone.index /\ clone'.work = clone.work
      /\ clone'.tracking = clone.tracking
  BY <1>1, <1>5 DEF HasCloneFields
<1>7. IsRepository(clone'.branch) /\ clone'.branch[clone.head] = row
  BY <1>1, <1>2, <1>6, CloneFields, ReplaceBranch
<1>8. IsClone(clone')
  BY <1>6, <1>7, CloneFields DEF IsClone
<1>9. row.tree = clone.index /\ row.fork = clone.branch[clone.head].fork
  BY DEF row
<1> QED BY <1>1, <1>6, <1>7, <1>8, <1>9 DEF IsRepository

LEMMA BranchPushed ==
  ASSUME IsClone(clone), IsRepository(origin), clone.tracking = DOMAIN origin,
         NEW h \in Handler, Push(h), handler[h].branch \in DOMAIN clone.branch
  PROVE  LET b == handler[h].branch
         IN  /\ IsClone(clone') /\ clone'.head = clone.head /\ clone'.branch = clone.branch
             /\ clone'.index = clone.index /\ clone'.work = clone.work
             /\ clone'.tracking = DOMAIN origin'
             /\ IsRepository(origin') /\ DOMAIN origin' = DOMAIN origin \cup {b}
             /\ origin'[b] = clone.branch[b]
             /\ \A c \in DOMAIN origin \ {b} : origin'[c] = origin[c]
<1> DEFINE b == handler[h].branch
<1>1. /\ origin' = Put(origin, b, clone.branch[b])
      /\ clone' = [clone EXCEPT !.tracking = clone.tracking \cup {b}]
  BY DEF Push
<1> HIDE DEF b
<1>2. HasCloneFields(clone) /\ IsRepository(clone.branch)
  BY DEF IsClone
<1>3. b \in Branch /\ clone.branch[b] \in BranchRow
  BY <1>2 DEF b, IsRepository
<1>4. /\ HasCloneFields(clone') /\ clone'.head = clone.head /\ clone'.branch = clone.branch
      /\ clone'.index = clone.index /\ clone'.work = clone.work
      /\ clone'.tracking = clone.tracking \cup {b}
  BY <1>1, <1>2 DEF HasCloneFields
<1>5. /\ IsRepository(origin') /\ DOMAIN origin' = DOMAIN origin \cup {b}
      /\ origin'[b] = clone.branch[b]
      /\ \A c \in DOMAIN origin \ {b} : origin'[c] = origin[c]
  <2> DEFINE row == clone.branch[b]
             more == Put(origin, b, row)
  <2>1. row \in BranchRow
    BY <1>3
  <2>2. /\ IsRepository(more) /\ DOMAIN more = DOMAIN origin \cup {b} /\ more[b] = row
        /\ \A c \in DOMAIN origin \ {b} : more[c] = origin[c]
    <3>1. IsFiniteSet(DOMAIN origin \cup {b})
      BY FS_AddElement DEF IsRepository
    <3> HIDE DEF row
    <3> QED BY <1>3, <2>1, <3>1 DEF IsRepository, Put
  <2> QED BY <1>1, <2>2
<1>6. IsClone(clone')
  BY <1>2, <1>4 DEF IsClone
<1> QED BY <1>4, <1>5, <1>6 DEF b

LEMMA BaseRestored ==
  ASSUME IsClone(clone), NEW h \in Handler, Restore(h)
  PROVE  /\ IsClone(clone') /\ clone'.branch = clone.branch
         /\ clone'.tracking = clone.tracking
         /\ IF CanCheckOut(clone.branch[Base].tree)
            THEN /\ clone'.head = Base
                 /\ clone'.index = Carry(clone.index, clone.branch[Base].tree)
                 /\ clone'.work = Carry(clone.work, clone.branch[Base].tree)
            ELSE clone' = clone
<1> DEFINE c == CheckedOut(Base, clone.branch[Base].tree)
<1>1. /\ IsClone(c) /\ c.head = Base /\ c.branch = clone.branch
      /\ c.index = Carry(clone.index, clone.branch[Base].tree)
      /\ c.work = Carry(clone.work, clone.branch[Base].tree)
      /\ c.tracking = clone.tracking
  BY CloneFields, CheckedOutClone
<1>2. clone' = IF CanCheckOut(clone.branch[Base].tree) THEN c ELSE clone
  BY DEF Restore
<1> HIDE DEF c
<1> QED BY <1>1, <1>2

-----------------------------------------------------------------------------
(* What a step does to the calls                                           *)

OnlyMoves(h) ==
  /\ handler' \in [Handler -> HandlerState]
  /\ \A k \in Handler \ {h} : handler'[k] = handler[k]

LEMMA GoToMoves ==
  ASSUME handler \in [Handler -> HandlerState], NEW h \in Handler, NEW place \in Place,
         GoTo(h, place)
  PROVE  /\ OnlyMoves(h) /\ handler'[h].pc = place
         /\ handler'[h].request = handler[h].request /\ handler'[h].branch = handler[h].branch
         /\ handler'[h].taken = handler[h].taken /\ handler'[h].document = handler[h].document
         /\ handler'[h].failed = handler[h].failed
BY DEF GoTo, OnlyMoves, HandlerState

LEMMA IdleIsAState ==
  /\ Idle \in HandlerState /\ Idle.pc = "idle" /\ Idle.branch = Base /\ Idle.taken = {}
  /\ Idle.request = 0 /\ Idle.failed = FALSE /\ Idle.document = Missing
BY BaseIsABranch DEF Idle, HandlerState, Place

LEMMA ReturnMoves ==
  ASSUME handler \in [Handler -> HandlerState], NEW h \in Handler, Return(h)
  PROVE  OnlyMoves(h) /\ handler'[h] = Idle
BY IdleIsAState DEF Return, OnlyMoves

LEMMA AfterTryMoves ==
  ASSUME handler \in [Handler -> HandlerState], NEW h \in Handler, AfterTry(h)
  PROVE  /\ OnlyMoves(h)
         /\ \/ handler'[h] = Idle
            \/ /\ handler'[h].pc = "record" /\ handler'[h].request = handler[h].request
               /\ handler'[h].branch = handler[h].branch
               /\ handler'[h].taken = handler[h].taken
               /\ handler'[h].document = handler[h].document
<1>1. CASE Return(h)
  BY <1>1, ReturnMoves
<1>2. CASE GoTo(h, "record")
  BY <1>2, GoToMoves DEF Place
<1> QED BY <1>1, <1>2 DEF AfterTry

LEMMA BreakOffMoves ==
  ASSUME handler \in [Handler -> HandlerState], NEW h \in Handler, BreakOff(h)
  PROVE  /\ OnlyMoves(h)
         /\ \/ handler'[h] = Idle /\ handler[h].pc \notin HasBranch
            \/ /\ \/ handler[h].pc \in HasBranch /\ handler'[h].pc = "restore"
                  \/ handler[h].pc = "restore" /\ handler'[h].pc = "record"
               /\ handler'[h].request = handler[h].request
               /\ handler'[h].branch = handler[h].branch
               /\ handler'[h].taken = handler[h].taken
               /\ handler'[h].document = handler[h].document
<1>1. CASE handler[h].pc \in HasBranch
  <2>1. handler' = [handler EXCEPT ![h].pc = "restore", ![h].failed = TRUE]
    BY <1>1 DEF BreakOff, HasBranch, At
  <2> QED BY <1>1, <2>1 DEF OnlyMoves, HandlerState, Place
<1>2. CASE handler[h].pc = "restore"
  <2>1. AfterTry(h)
    BY <1>2 DEF BreakOff, At
  <2> QED BY <1>2, <2>1, AfterTryMoves DEF HasBranch
<1>3. CASE handler[h].pc \notin HasBranch \cup {"restore"}
  <2>1. Return(h)
    BY <1>3 DEF BreakOff, HasBranch, At
  <2> QED BY <1>3, <2>1, ReturnMoves
<1> QED BY <1>1, <1>2, <1>3

LEMMA CreateMoves ==
  ASSUME handler \in [Handler -> HandlerState], NEW h \in Handler, NEW b \in Branch,
         handler' = [handler EXCEPT ![h].pc = "write", ![h].branch = b, ![h].taken = {}]
  PROVE  /\ OnlyMoves(h) /\ handler'[h].pc = "write" /\ handler'[h].taken = {}
         /\ handler'[h].request = handler[h].request /\ handler'[h].branch = b
         /\ handler'[h].document = handler[h].document
BY DEF OnlyMoves, HandlerState, Place

\* The steps that are no restart take no branch and no request away.
RepositoryGrows ==
  /\ DOMAIN clone.branch \subseteq DOMAIN clone'.branch
  /\ DOMAIN origin \subseteq DOMAIN origin'
  /\ DOMAIN origin' \subseteq DOMAIN origin \cup DOMAIN clone.branch
  /\ DOMAIN filed \subseteq DOMAIN filed'
  /\ \A r \in DOMAIN filed : filed'[r] = filed[r]

LEMMA DocumentStays ==
  ASSUME RepositoryGrows, NEW r \in DOMAIN filed
  PROVE  r \in DOMAIN filed' /\ DocumentOf(r)' = DocumentOf(r)
BY DEF RepositoryGrows, DocumentOf

\* What a call that does not move needs survives what another does.
LEMMA StaysInStep ==
  ASSUME NEW k \in Handler, HandlerInStep(k), handler'[k] = handler[k], RepositoryGrows,
         \A b \in DOMAIN proposal' \ DOMAIN proposal :
           handler[k].pc \in HasBranch => handler[k].branch # b
  PROVE  HandlerInStep(k)'
<1>1. PICK me : me = handler[k] /\ me = handler'[k]
  OBVIOUS
<1>2. me.request \in DOMAIN filed =>
        me.request \in DOMAIN filed' /\ DocumentOf(me.request)' = DocumentOf(me.request)
  BY DocumentStays
<1>3. \A p, d : SoundAt(p, d)' = SoundAt(p, d)
  BY DEF SoundAt, Sound, OfferedUnder, Documents
<1> QED BY <1>1, <1>2, <1>3 DEF HandlerInStep, RepositoryGrows

LEMMA MovesInStep ==
  ASSUME NEW h \in Handler, HandlerInStep(h), handler[h].pc # "idle", RepositoryGrows,
         handler'[h].request = handler[h].request, handler'[h].document = handler[h].document,
         handler'[h].branch \in DOMAIN clone'.branch, IsFiniteSet(handler'[h].taken),
         handler'[h].pc = "create" =>
           DOMAIN origin' \subseteq handler'[h].taken \cup DOMAIN clone'.branch,
         handler'[h].pc \in HasBranch => /\ handler'[h].branch[1] = handler[h].request
                                         /\ handler'[h].branch \notin DOMAIN proposal',
         handler'[h].pc = "propose" => handler'[h].branch \in DOMAIN origin'
  PROVE  HandlerInStep(h)'
<1>1. PICK r, d : /\ r = handler[h].request /\ r = handler'[h].request
                  /\ d = handler[h].document /\ d = handler'[h].document
  OBVIOUS
<1>2. /\ r \in DOMAIN filed /\ d = DocumentOf(r)
      /\ FilePath(d) \in Path /\ SoundAt(FilePath(d), d)
  BY <1>1 DEF HandlerInStep
<1>3. r \in DOMAIN filed' /\ DocumentOf(r)' = DocumentOf(r)
  BY <1>2, DocumentStays
<1>4. \A p, e : SoundAt(p, e)' = SoundAt(p, e)
  BY DEF SoundAt, Sound, OfferedUnder, Documents
<1> QED BY <1>1, <1>2, <1>3, <1>4 DEF HandlerInStep

LEMMA IdleInStep ==
  ASSUME NEW h \in Handler, handler'[h] = Idle, Base \in DOMAIN clone'.branch
  PROVE  HandlerInStep(h)'
<1>1. IsFiniteSet({})
  BY FS_EmptySet
<1> QED BY <1>1, IdleIsAState DEF HandlerInStep, HasBranch

LEMMA OneMoves ==
  ASSUME GitInStep, NEW h \in Handler, OnlyMoves(h), RepositoryGrows, HandlerInStep(h)',
         \A b \in DOMAIN proposal' \ DOMAIN proposal :
           handler[h].pc \in HasBranch /\ b = handler[h].branch,
         handler'[h].pc \in HasBranch =>
           \/ handler[h].pc \in HasBranch /\ handler'[h].branch = handler[h].branch
           \/ handler'[h].branch \notin DOMAIN clone.branch
  PROVE  (\A k \in Handler : HandlerInStep(k)') /\ BranchesAreApart'
<1>1. ASSUME NEW k \in Handler, k # h
      PROVE  HandlerInStep(k)'
  <2>1. HandlerInStep(k) /\ handler'[k] = handler[k]
    BY <1>1 DEF GitInStep, OnlyMoves
  <2>2. \A b \in DOMAIN proposal' \ DOMAIN proposal :
          handler[k].pc \in HasBranch => handler[k].branch # b
    BY <1>1 DEF GitInStep, BranchesAreApart
  <2> QED BY <2>1, <2>2, StaysInStep
<1>2. ASSUME NEW k \in Handler, k # h, handler'[k].pc \in HasBranch, handler'[h].pc \in HasBranch
      PROVE  handler'[k].branch # handler'[h].branch
  <2>1. handler'[k] = handler[k] /\ handler[k].branch \in DOMAIN clone.branch
    BY <1>2 DEF OnlyMoves, GitInStep, HandlerInStep
  <2> QED BY <1>2, <2>1 DEF GitInStep, BranchesAreApart
<1>3. BranchesAreApart'
  <2> SUFFICES ASSUME NEW g \in Handler, NEW k \in Handler, g # k,
                      handler'[g].pc \in HasBranch, handler'[k].pc \in HasBranch
               PROVE  handler'[g].branch # handler'[k].branch
    BY DEF BranchesAreApart, HasBranch
  <2>1. CASE g = h
    BY <1>2, <2>1
  <2>2. CASE k = h
    BY <1>2, <2>2
  <2>3. CASE g # h /\ k # h
    BY <2>3 DEF OnlyMoves, GitInStep, BranchesAreApart
  <2> QED BY <2>1, <2>2, <2>3
<1> QED BY <1>1, <1>3

LEMMA NobodyMoves ==
  ASSUME GitInStep, handler' = handler, RepositoryGrows, DOMAIN proposal' \subseteq DOMAIN proposal
  PROVE  (\A k \in Handler : HandlerInStep(k)') /\ BranchesAreApart'
<1>1. ASSUME NEW k \in Handler
      PROVE  HandlerInStep(k)'
  BY StaysInStep DEF GitInStep
<1>2. BranchesAreApart'
  BY DEF GitInStep, BranchesAreApart, HasBranch
<1> QED BY <1>1, <1>2

LEMMA FiledStay ==
  ASSUME GitShapes, FiledWereValid, filed' = filed, catalog' = catalog, today' \in Nat, today <= today',
         restarts' \in Nat, restarts' >= restarts
  PROVE  FiledWereValid'
<1>1. \A r \in DOMAIN filed : filed[r].day <= today'
  BY GitAssumption DEF FiledWereValid, GitShapes, FiledRow
<1>2. restarts \in Nat
  BY DEF GitShapes
<1>3. restarts' = 0 => restarts = 0
  BY <1>2
<1>4. CatalogOf' = CatalogOf
  BY DEF CatalogOf
<1>5. \A r \in DOMAIN filed :
        ValidPayload(filed'[r].filing.payload, CatalogOf[filed'[r].catalog], filed'[r].day)
  BY DEF FiledWereValid
<1> QED BY <1>1, <1>3, <1>5, Zenon DEF FiledWereValid

-----------------------------------------------------------------------------
(* GitInStep is inductive: the git commands                                *)

\* Steps that leave branches, origin and requests to others are in step as
\* soon as the call that takes them is.
LEMMA CloneStep ==
  ASSUME GitInStep, NEW h \in Handler, OnlyMoves(h), HandlerInStep(h)',
         IsClone(clone'), DOMAIN clone'.branch = DOMAIN clone.branch,
         clone'.tracking = DOMAIN origin,
         UNCHANGED <<today, filed, catalog, origin, proposal, overlapped, restarts>>,
         processed' \subseteq DOMAIN filed, failures' \in Nat,
         handler'[h].pc \in HasBranch =>
           handler[h].pc \in HasBranch /\ handler'[h].branch = handler[h].branch
  PROVE  GitInStep'
<1>1. RepositoryGrows
  BY DEF RepositoryGrows
<1>2. (\A k \in Handler : HandlerInStep(k)') /\ BranchesAreApart'
  BY <1>1, OneMoves
<1>3. GitShapes'
  BY DEF GitShapes, GitInStep, OnlyMoves
<1>4. FiledWereValid'
  BY FiledStay DEF GitInStep, GitShapes
<1>5. BranchesHaveRequests'
  BY DEF BranchesHaveRequests, GitInStep
<1> QED BY <1>2, <1>3, <1>4, <1>5 DEF GitInStep

LEMMA CheckOutBaseInStep ==
  ASSUME GitInStep, NEW h \in Handler, CheckOutBase(h)
  PROVE  GitInStep'
<1>1. /\ IsClone(clone) /\ handler \in [Handler -> HandlerState] /\ HandlerInStep(h)
      /\ clone.tracking = DOMAIN origin /\ processed \subseteq DOMAIN filed /\ failures \in Nat
  BY DEF GitInStep, GitShapes
<1>2. IsClone(clone') /\ clone'.branch = clone.branch /\ clone'.tracking = DOMAIN origin
  BY <1>1, BaseCheckedOut
<1>3. /\ OnlyMoves(h) /\ handler'[h].pc = "pull" /\ handler'[h].request = handler[h].request
      /\ handler'[h].branch = handler[h].branch /\ handler'[h].taken = handler[h].taken
      /\ handler'[h].document = handler[h].document
  BY <1>1, GoToMoves DEF CheckOutBase, Place
<1>4. /\ handler[h].pc = "base"
      /\ UNCHANGED <<today, filed, processed, refused, catalog, origin, proposal, overlapped,
                     failures, restarts>>
  BY DEF CheckOutBase, At
<1>5. RepositoryGrows
  BY <1>2, <1>4 DEF RepositoryGrows
<1>6. HandlerInStep(h)'
  <2>1. handler[h].branch \in DOMAIN clone.branch /\ IsFiniteSet(handler[h].taken)
    BY <1>1 DEF HandlerInStep
  <2> QED BY <1>1, <1>2, <1>3, <1>4, <1>5, <2>1, MovesInStep DEF HasBranch
<1> QED BY <1>1, <1>2, <1>3, <1>4, <1>6, CloneStep DEF HasBranch

LEMMA PullInStep ==
  ASSUME GitInStep, NEW h \in Handler, Pull(h)
  PROVE  GitInStep'
<1>1. /\ IsClone(clone) /\ handler \in [Handler -> HandlerState] /\ HandlerInStep(h)
      /\ clone.tracking = DOMAIN origin /\ processed \subseteq DOMAIN filed /\ failures \in Nat
      /\ IsRepository(origin)
  BY DEF GitInStep, GitShapes
<1>2. /\ IsClone(clone') /\ DOMAIN clone'.branch = DOMAIN clone.branch
      /\ clone'.tracking = DOMAIN origin /\ GoTo(h, "list")
  BY <1>1, BasePulled
<1>3. /\ handler[h].pc = "pull"
      /\ UNCHANGED <<today, filed, processed, refused, catalog, origin, proposal, overlapped,
                     failures, restarts>>
  BY DEF Pull, At
<1>4. RepositoryGrows
  BY <1>2, <1>3 DEF RepositoryGrows
<1>5. /\ OnlyMoves(h) /\ handler'[h].pc = "list" /\ handler'[h].request = handler[h].request
      /\ handler'[h].branch = handler[h].branch /\ handler'[h].taken = handler[h].taken
      /\ handler'[h].document = handler[h].document
  BY <1>1, <1>2, GoToMoves DEF Place
<1>6. handler[h].branch \in DOMAIN clone.branch /\ IsFiniteSet(handler[h].taken)
  BY <1>1 DEF HandlerInStep
<1>7. HandlerInStep(h)'
  BY <1>1, <1>2, <1>3, <1>4, <1>5, <1>6, MovesInStep DEF HasBranch
<1> QED BY <1>1, <1>2, <1>3, <1>5, <1>7, CloneStep DEF HasBranch

LEMMA ListBranchesInStep ==
  ASSUME GitInStep, NEW h \in Handler, ListBranches(h)
  PROVE  GitInStep'
<1>1. /\ IsClone(clone) /\ handler \in [Handler -> HandlerState] /\ HandlerInStep(h)
      /\ clone.tracking = DOMAIN origin /\ processed \subseteq DOMAIN filed /\ failures \in Nat
      /\ IsRepository(origin)
  BY DEF GitInStep, GitShapes
<1>2. /\ handler[h].pc = "list"
      /\ handler' = [handler EXCEPT ![h].pc = "create", ![h].taken = KnownBranches]
      /\ UNCHANGED <<today, filed, processed, refused, catalog, clone, origin, proposal, overlapped,
                     failures, restarts>>
  BY DEF ListBranches, At
<1>3. /\ KnownBranches = DOMAIN clone.branch \cup DOMAIN origin
      /\ KnownBranches \subseteq Branch /\ IsFiniteSet(KnownBranches)
  BY <1>1, FS_Union DEF KnownBranches, IsClone, IsRepository
<1>4. /\ OnlyMoves(h) /\ handler'[h].pc = "create" /\ handler'[h].taken = KnownBranches
      /\ handler'[h].request = handler[h].request /\ handler'[h].branch = handler[h].branch
      /\ handler'[h].document = handler[h].document
  <2> HIDE DEF KnownBranches
  <2> QED BY <1>1, <1>2, <1>3 DEF OnlyMoves, HandlerState, Place
<1>5. RepositoryGrows
  BY <1>2 DEF RepositoryGrows
<1>6. HandlerInStep(h)'
  <2>1. handler[h].branch \in DOMAIN clone.branch
    BY <1>1 DEF HandlerInStep
  <2> QED BY <1>1, <1>2, <1>3, <1>4, <1>5, <2>1, MovesInStep DEF HasBranch
<1> QED BY <1>1, <1>2, <1>4, <1>6, CloneStep DEF HasBranch

LEMMA CreateBranchInStep ==
  ASSUME GitInStep, NEW h \in Handler, CreateBranch(h)
  PROVE  GitInStep'
<1>1. /\ IsClone(clone) /\ handler \in [Handler -> HandlerState] /\ HandlerInStep(h)
      /\ clone.tracking = DOMAIN origin /\ IsRepository(origin)
  BY DEF GitInStep, GitShapes
<1>2. /\ handler[h].pc = "create"
      /\ UNCHANGED <<today, filed, processed, refused, catalog, origin, proposal, overlapped,
                     failures, restarts>>
  BY DEF CreateBranch, At
<1>3. /\ handler[h].request \in DOMAIN filed /\ IsFiniteSet(handler[h].taken)
      /\ DOMAIN origin \subseteq handler[h].taken \cup DOMAIN clone.branch
      /\ handler[h].request \in RequestId
  BY <1>1, <1>2 DEF HandlerInStep, GitInStep, GitShapes
<1>4. PICK b \in Branch :
        /\ b \notin handler[h].taken /\ b \notin DOMAIN clone.branch
        /\ b # Base /\ b[1] = handler[h].request
        /\ IsClone(clone') /\ DOMAIN clone'.branch = DOMAIN clone.branch \cup {b}
        /\ clone'.tracking = clone.tracking
        /\ handler' = [handler EXCEPT ![h].pc = "write", ![h].branch = b, ![h].taken = {}]
  BY <1>1, <1>3, BranchCreated
<1>5. /\ OnlyMoves(h) /\ handler'[h].pc = "write" /\ handler'[h].taken = {}
      /\ handler'[h].request = handler[h].request /\ handler'[h].branch = b
      /\ handler'[h].document = handler[h].document
  BY <1>1, <1>4, CreateMoves
<1>6. RepositoryGrows
  BY <1>2, <1>4 DEF RepositoryGrows
<1>7. b \notin DOMAIN proposal'
  BY <1>2, <1>3, <1>4 DEF GitInStep, GitShapes
<1>8. HandlerInStep(h)'
  <2>1. IsFiniteSet({})
    BY FS_EmptySet
  <2> QED BY <1>1, <1>2, <1>4, <1>5, <1>6, <1>7, <2>1, MovesInStep DEF HasBranch
<1>9. (\A k \in Handler : HandlerInStep(k)') /\ BranchesAreApart'
  BY <1>2, <1>4, <1>5, <1>6, <1>8, OneMoves
<1>10. GitShapes'
  BY <1>1, <1>2, <1>4, <1>5 DEF GitInStep, GitShapes, OnlyMoves
<1>11. FiledWereValid'
  BY <1>2, FiledStay DEF GitInStep, GitShapes
<1>12. BranchesHaveRequests'
  BY <1>2, <1>3, <1>4 DEF BranchesHaveRequests, GitInStep
<1> QED BY <1>9, <1>10, <1>11, <1>12 DEF GitInStep

\* The commands between the branch and the push leave the call its branch.
LEMMA KeepsItsBranch ==
  ASSUME GitInStep, NEW h \in Handler, NEW place \in HasBranch, GoTo(h, place),
         handler[h].pc \in HasBranch, place # "propose",
         IsClone(clone'), DOMAIN clone'.branch = DOMAIN clone.branch,
         clone'.tracking = clone.tracking,
         UNCHANGED <<today, filed, processed, refused, catalog, origin, proposal, overlapped,
                     failures, restarts>>
  PROVE  GitInStep'
<1>1. /\ handler \in [Handler -> HandlerState] /\ HandlerInStep(h)
      /\ clone.tracking = DOMAIN origin /\ processed \subseteq DOMAIN filed /\ failures \in Nat
  BY DEF GitInStep, GitShapes
<1>2. place \in Place
  BY DEF HasBranch, Place
<1>3. /\ OnlyMoves(h) /\ handler'[h].pc = place /\ handler'[h].request = handler[h].request
      /\ handler'[h].branch = handler[h].branch /\ handler'[h].taken = handler[h].taken
      /\ handler'[h].document = handler[h].document
  BY <1>1, <1>2, GoToMoves
<1>4. RepositoryGrows
  BY DEF RepositoryGrows
<1>5. HandlerInStep(h)'
  <2>1. /\ handler[h].branch \in DOMAIN clone.branch /\ IsFiniteSet(handler[h].taken)
        /\ handler[h].branch[1] = handler[h].request /\ handler[h].branch \notin DOMAIN proposal
    BY <1>1 DEF HandlerInStep
  <2>2. place # "create" /\ handler[h].pc # "idle"
    BY DEF HasBranch
  <2> QED BY <1>1, <1>3, <1>4, <2>1, <2>2, MovesInStep
<1> QED BY <1>1, <1>3, <1>5, CloneStep

LEMMA WriteFileInStep ==
  ASSUME GitInStep, NEW h \in Handler, WriteFile(h)
  PROVE  GitInStep'
<1>1. /\ handler[h].pc = "write" /\ GoTo(h, "add")
      /\ UNCHANGED <<today, filed, processed, refused, catalog, origin, proposal, overlapped,
                     failures, restarts>>
  BY DEF WriteFile, At
<1>2. /\ IsClone(clone) /\ FilePath(handler[h].document) \in Path
      /\ SoundAt(FilePath(handler[h].document), handler[h].document)
  BY <1>1 DEF GitInStep, GitShapes, HandlerInStep
<1>3. IsClone(clone') /\ clone'.branch = clone.branch /\ clone'.tracking = clone.tracking
  BY <1>2, FileWritten
<1> QED BY <1>1, <1>3, KeepsItsBranch DEF HasBranch

LEMMA AddInStep ==
  ASSUME GitInStep, NEW h \in Handler, Add(h)
  PROVE  GitInStep'
<1>1. /\ handler[h].pc = "add" /\ GoTo(h, "commit")
      /\ UNCHANGED <<today, filed, processed, refused, catalog, origin, proposal, overlapped,
                     failures, restarts>>
  BY DEF Add, At
<1>2. IsClone(clone') /\ clone'.branch = clone.branch /\ clone'.tracking = clone.tracking
  BY FileAdded DEF GitInStep, GitShapes
<1> QED BY <1>1, <1>2, KeepsItsBranch DEF HasBranch

LEMMA CommitInStep ==
  ASSUME GitInStep, NEW h \in Handler, Commit(h)
  PROVE  GitInStep'
<1>1. /\ handler[h].pc = "commit" /\ GoTo(h, "push")
      /\ UNCHANGED <<today, filed, processed, refused, catalog, origin, proposal, overlapped,
                     failures, restarts>>
  BY DEF Commit, At
<1>2. /\ IsClone(clone') /\ DOMAIN clone'.branch = DOMAIN clone.branch
      /\ clone'.tracking = clone.tracking
  BY StagedIsCommitted DEF GitInStep, GitShapes
<1> QED BY <1>1, <1>2, KeepsItsBranch DEF HasBranch

LEMMA PushInStep ==
  ASSUME GitInStep, NEW h \in Handler, Push(h)
  PROVE  GitInStep'
<1>1. /\ IsClone(clone) /\ handler \in [Handler -> HandlerState] /\ HandlerInStep(h)
      /\ clone.tracking = DOMAIN origin /\ IsRepository(origin)
  BY DEF GitInStep, GitShapes
<1>2. /\ handler[h].pc = "push" /\ GoTo(h, "propose")
      /\ UNCHANGED <<today, filed, processed, refused, catalog, proposal, overlapped, failures, restarts>>
  BY DEF Push, At
<1>3. /\ handler[h].branch \in DOMAIN clone.branch /\ IsFiniteSet(handler[h].taken)
      /\ handler[h].branch[1] = handler[h].request /\ handler[h].branch \notin DOMAIN proposal
  BY <1>1, <1>2 DEF HandlerInStep, HasBranch
<1>4. /\ IsClone(clone') /\ clone'.branch = clone.branch /\ clone'.tracking = DOMAIN origin'
      /\ IsRepository(origin') /\ DOMAIN origin' = DOMAIN origin \cup {handler[h].branch}
  BY <1>1, <1>3, BranchPushed
<1>5. /\ OnlyMoves(h) /\ handler'[h].pc = "propose" /\ handler'[h].request = handler[h].request
      /\ handler'[h].branch = handler[h].branch /\ handler'[h].taken = handler[h].taken
      /\ handler'[h].document = handler[h].document
  BY <1>1, <1>2, GoToMoves DEF Place
<1>6. RepositoryGrows
  BY <1>2, <1>3, <1>4 DEF RepositoryGrows
<1>7. HandlerInStep(h)'
  BY <1>1, <1>2, <1>3, <1>4, <1>5, <1>6, MovesInStep
<1>8. (\A k \in Handler : HandlerInStep(k)') /\ BranchesAreApart'
  BY <1>2, <1>5, <1>6, <1>7, OneMoves DEF HasBranch
<1>9. GitShapes'
  BY <1>2, <1>4, <1>5 DEF GitInStep, GitShapes, OnlyMoves
<1>10. FiledWereValid'
  BY <1>2, FiledStay DEF GitInStep, GitShapes
<1>11. BranchesHaveRequests'
  BY <1>2, <1>3, <1>4 DEF BranchesHaveRequests, GitInStep
<1> QED BY <1>8, <1>9, <1>10, <1>11 DEF GitInStep

LEMMA ProposeInStep ==
  ASSUME GitInStep, NEW h \in Handler, Propose(h)
  PROVE  GitInStep'
<1>1. /\ IsClone(clone) /\ handler \in [Handler -> HandlerState] /\ HandlerInStep(h)
      /\ clone.tracking = DOMAIN origin /\ IsRepository(origin)
      /\ proposal \in [DOMAIN proposal -> {"opened", "merged", "closed"}]
      /\ DOMAIN proposal \subseteq DOMAIN origin \ {Base}
  BY DEF GitInStep, GitShapes
<1>2. /\ handler[h].pc = "propose" /\ GoTo(h, "restore")
      /\ proposal' = Put(proposal, handler[h].branch, "opened")
      /\ UNCHANGED <<today, filed, processed, refused, catalog, clone, origin, overlapped, failures, restarts>>
  BY DEF Propose, At
<1>3. /\ handler[h].branch \in DOMAIN clone.branch /\ IsFiniteSet(handler[h].taken)
      /\ handler[h].branch[1] = handler[h].request /\ handler[h].branch \in DOMAIN origin
      /\ handler[h].request \in RequestId
  BY <1>1, <1>2 DEF HandlerInStep, HasBranch, GitInStep, GitShapes
<1>4. /\ DOMAIN proposal' = DOMAIN proposal \cup {handler[h].branch}
      /\ proposal' \in [DOMAIN proposal' -> {"opened", "merged", "closed"}]
  BY <1>1, <1>2 DEF Put
<1>5. handler[h].branch # Base
  BY <1>1, <1>3, BaseIsABranch DEF IsRepository
<1>6. /\ OnlyMoves(h) /\ handler'[h].pc = "restore" /\ handler'[h].request = handler[h].request
      /\ handler'[h].branch = handler[h].branch /\ handler'[h].taken = handler[h].taken
      /\ handler'[h].document = handler[h].document
  BY <1>1, <1>2, GoToMoves DEF Place
<1>7. RepositoryGrows
  BY <1>2 DEF RepositoryGrows
<1>8. HandlerInStep(h)'
  BY <1>1, <1>2, <1>3, <1>6, <1>7, MovesInStep DEF HasBranch
<1>9. (\A k \in Handler : HandlerInStep(k)') /\ BranchesAreApart'
  BY <1>2, <1>4, <1>6, <1>7, <1>8, OneMoves DEF HasBranch
<1>10. GitShapes'
  BY <1>1, <1>2, <1>3, <1>4, <1>5, <1>6 DEF GitInStep, GitShapes, OnlyMoves
<1>11. FiledWereValid'
  BY <1>2, FiledStay DEF GitInStep, GitShapes
<1>12. BranchesHaveRequests'
  BY <1>2 DEF BranchesHaveRequests, GitInStep
<1> QED BY <1>9, <1>10, <1>11, <1>12 DEF GitInStep

LEMMA RestoreInStep ==
  ASSUME GitInStep, NEW h \in Handler, Restore(h)
  PROVE  GitInStep'
<1>1. /\ IsClone(clone) /\ handler \in [Handler -> HandlerState] /\ HandlerInStep(h)
      /\ clone.tracking = DOMAIN origin /\ processed \subseteq DOMAIN filed /\ failures \in Nat
  BY DEF GitInStep, GitShapes
<1>2. IsClone(clone') /\ clone'.branch = clone.branch /\ clone'.tracking = clone.tracking
  BY <1>1, BaseRestored
<1>3. /\ handler[h].pc = "restore" /\ (Return(h) \/ GoTo(h, "record"))
      /\ UNCHANGED <<today, filed, processed, refused, catalog, origin, proposal, overlapped,
                     failures, restarts>>
  BY DEF Restore, AfterTry, At
<1>4. RepositoryGrows
  BY <1>2, <1>3 DEF RepositoryGrows
<1>5. CASE Return(h)
  <2>1. OnlyMoves(h) /\ handler'[h] = Idle
    BY <1>1, <1>5, ReturnMoves
  <2>2. HandlerInStep(h)'
    BY <1>2, <2>1, IdleInStep DEF IsClone, IsRepository
  <2> QED BY <1>1, <1>2, <1>3, <2>1, <2>2, CloneStep, IdleIsAState DEF HasBranch
<1>6. CASE GoTo(h, "record")
  <2>1. /\ OnlyMoves(h) /\ handler'[h].pc = "record" /\ handler'[h].request = handler[h].request
        /\ handler'[h].branch = handler[h].branch /\ handler'[h].taken = handler[h].taken
        /\ handler'[h].document = handler[h].document
    BY <1>1, <1>6, GoToMoves DEF Place
  <2>2. handler[h].branch \in DOMAIN clone.branch /\ IsFiniteSet(handler[h].taken)
    BY <1>1 DEF HandlerInStep
  <2>3. HandlerInStep(h)'
    BY <1>1, <1>2, <1>3, <1>4, <2>1, <2>2, MovesInStep DEF HasBranch
  <2> QED BY <1>1, <1>2, <1>3, <2>1, <2>3, CloneStep DEF HasBranch
<1> QED BY <1>3, <1>5, <1>6

LEMMA RecordInStep ==
  ASSUME GitInStep, NEW h \in Handler, Record(h)
  PROVE  GitInStep'
<1>1. /\ IsClone(clone) /\ handler \in [Handler -> HandlerState] /\ HandlerInStep(h)
      /\ clone.tracking = DOMAIN origin /\ processed \subseteq DOMAIN filed /\ failures \in Nat
  BY DEF GitInStep, GitShapes
<1>2. /\ handler[h].pc = "record" /\ Return(h) /\ processed' = processed \cup {handler[h].request}
      /\ UNCHANGED <<today, filed, refused, catalog, clone, origin, proposal, overlapped,
                     failures, restarts>>
  BY DEF Record, At
<1>3. OnlyMoves(h) /\ handler'[h] = Idle
  BY <1>1, <1>2, ReturnMoves
<1>4. HandlerInStep(h)'
  BY <1>1, <1>2, <1>3, IdleInStep DEF IsClone, IsRepository
<1>5. processed' \subseteq DOMAIN filed
  BY <1>1, <1>2 DEF HandlerInStep
<1> QED BY <1>1, <1>2, <1>3, <1>4, <1>5, CloneStep, IdleIsAState DEF HasBranch

LEMMA BreakOffInStep ==
  ASSUME GitInStep, NEW h \in Handler, BreakOff(h), handler[h].pc # "idle", failures' \in Nat,
         UNCHANGED <<today, filed, processed, refused, catalog, clone, origin, proposal, overlapped,
                     restarts>>
  PROVE  GitInStep'
<1>1. /\ IsClone(clone) /\ handler \in [Handler -> HandlerState] /\ HandlerInStep(h)
      /\ clone.tracking = DOMAIN origin /\ processed \subseteq DOMAIN filed
  BY DEF GitInStep, GitShapes
<1>2. RepositoryGrows
  BY DEF RepositoryGrows
<1>3. /\ OnlyMoves(h) /\ HandlerInStep(h)' /\ handler'[h].pc \notin HasBranch
  <2>1. CASE handler'[h] = Idle /\ OnlyMoves(h)
    <3>1. HandlerInStep(h)'
      BY <1>1, <2>1, IdleInStep DEF IsClone, IsRepository
    <3> QED BY <2>1, <3>1, IdleIsAState DEF HasBranch
  <2>2. CASE /\ OnlyMoves(h) /\ handler'[h].pc \in {"restore", "record"}
             /\ handler'[h].request = handler[h].request
             /\ handler'[h].branch = handler[h].branch
             /\ handler'[h].taken = handler[h].taken
             /\ handler'[h].document = handler[h].document
    <3>1. handler[h].branch \in DOMAIN clone.branch /\ IsFiniteSet(handler[h].taken)
      BY <1>1 DEF HandlerInStep
    <3>2. HandlerInStep(h)'
      BY <1>1, <1>2, <2>2, <3>1, MovesInStep DEF HasBranch
    <3> QED BY <2>2, <3>2 DEF HasBranch
  <2> QED BY <1>1, <2>1, <2>2, BreakOffMoves
<1> QED BY <1>1, <1>3, CloneStep

LEMMA FailInStep ==
  ASSUME GitInStep, NEW h \in Handler, Fail(h)
  PROVE  GitInStep'
<1>1. /\ handler[h].pc # "idle" /\ BreakOff(h) /\ failures' = failures + 1
      /\ UNCHANGED <<today, filed, processed, refused, catalog, clone, origin, proposal, overlapped,
                     restarts>>
  BY DEF Fail, At
<1>2. failures' \in Nat
  BY <1>1 DEF GitInStep, GitShapes
<1> QED BY <1>1, <1>2, BreakOffInStep

LEMMA RefusedInStep ==
  ASSUME GitInStep, NEW h \in Handler, Refused(h)
  PROVE  GitInStep'
<1>1. /\ BreakOff(h)
      /\ UNCHANGED <<today, filed, processed, refused, catalog, clone, origin, proposal, overlapped,
                     failures, restarts>>
  BY DEF Refused
<1>2. handler[h].pc # "idle"
  BY DEF Refused, RefusedByGit, At
<1>3. failures' \in Nat
  BY <1>1 DEF GitInStep, GitShapes
<1> QED BY <1>1, <1>2, <1>3, BreakOffInStep

-----------------------------------------------------------------------------
(* GitInStep is inductive: filing, approving, the server and the others    *)

LEMMA FileInStep ==
  ASSUME GitInStep, NEW r \in RequestId, NEW f \in Filing, File(r, f)
  PROVE  GitInStep'
<1>1. /\ r \notin DOMAIN filed
      /\ ValidPayload(f.payload, CatalogOf[catalog], today)
      /\ filed' = Put(filed, r, [filing |-> f, day |-> today, catalog |-> catalog])
      /\ UNCHANGED <<today, processed, refused, catalog, clone, origin, proposal, handler, overlapped,
                     failures, restarts>>
  BY DEF File
<1>2. today \in Nat /\ filed \in [DOMAIN filed -> FiledRow] /\ catalog \in 1..MaxTerraform
  BY GitAssumption DEF GitInStep, GitShapes
<1>3. /\ DOMAIN filed' = DOMAIN filed \cup {r}
      /\ filed'[r] = [filing |-> f, day |-> today, catalog |-> catalog]
      /\ \A q \in DOMAIN filed : filed'[q] = filed[q]
      /\ filed' = [q \in DOMAIN filed' |-> filed'[q]]
  BY <1>1 DEF Put
<1>4. filed' \in [DOMAIN filed' -> FiledRow]
  <2>1. filed'[r] \in FiledRow
    BY <1>2, <1>3 DEF FiledRow
  <2> QED BY <1>2, <1>3, <2>1
<1>5. RepositoryGrows
  BY <1>1, <1>3 DEF RepositoryGrows
<1>6. (\A k \in Handler : HandlerInStep(k)') /\ BranchesAreApart'
  BY <1>1, <1>5, NobodyMoves
<1>7. GitShapes'
  BY <1>1, <1>3, <1>4 DEF GitInStep, GitShapes
<1>8. FiledWereValid'
  <2>1. CatalogOf' = CatalogOf
    BY DEF CatalogOf
  <2>2. \A q \in DOMAIN filed' :
          /\ filed'[q].day <= today
          /\ ValidPayload(filed'[q].filing.payload, CatalogOf[filed'[q].catalog], filed'[q].day)
          /\ restarts = 0 => filed'[q].catalog = 1
    <3> SUFFICES ASSUME NEW q \in DOMAIN filed'
                 PROVE  /\ filed'[q].day <= today
                        /\ ValidPayload(filed'[q].filing.payload, CatalogOf[filed'[q].catalog],
                                        filed'[q].day)
                        /\ restarts = 0 => filed'[q].catalog = 1
      OBVIOUS
    <3>1. CASE q = r
      <4>1. filed'[q].filing = f /\ filed'[q].day = today /\ filed'[q].catalog = catalog
        BY <1>3, <3>1
      <4>2. restarts = 0 => catalog = 1
        BY DEF GitInStep, FiledWereValid
      <4> QED BY <1>1, <1>2, <4>1, <4>2
    <3>2. CASE q # r
      <4>1. q \in DOMAIN filed /\ filed'[q] = filed[q]
        BY <1>3, <3>2
      <4> QED BY <4>1 DEF GitInStep, FiledWereValid
    <3> QED BY <3>1, <3>2
  <2>3. restarts' = restarts /\ catalog' = catalog /\ today' = today
    BY <1>1
  <2>4. restarts = 0 => catalog = 1
    BY DEF GitInStep, FiledWereValid
  <2> QED BY <2>1, <2>2, <2>3, <2>4, Zenon DEF FiledWereValid
<1>9. BranchesHaveRequests'
  BY <1>1, <1>3 DEF BranchesHaveRequests, GitInStep
<1> QED BY <1>6, <1>7, <1>8, <1>9 DEF GitInStep

LEMMA StartProcessingInStep ==
  ASSUME GitInStep, NEW h \in Handler, NEW r \in RequestId, StartProcessing(h, r)
  PROVE  GitInStep'
<1> DEFINE f == filed[r].filing
           d == BuildYaml(f.payload, f.project, f.requestors)
<1>1. /\ r \in DOMAIN filed /\ handler[h].pc = "idle"
      /\ overlapped' = (overlapped \/ \E g \in Handler : ~At(g, "idle"))
      /\ UNCHANGED <<today, filed, processed, catalog, clone, origin, proposal, failures, restarts>>
  BY DEF StartProcessing, At
<1>2. RepositoryGrows
  BY <1>1 DEF RepositoryGrows
<1>3. overlapped' \in BOOLEAN
  BY <1>1 DEF GitInStep, GitShapes
<1>4. FiledWereValid' /\ BranchesHaveRequests'
  <2>1. FiledWereValid'
    BY <1>1, FiledStay DEF GitInStep, GitShapes
  <2> QED BY <1>1, <2>1 DEF BranchesHaveRequests, GitInStep
<1>5. CASE ~CanBuild(f)
  <2>1. handler' = handler
    BY <1>5 DEF StartProcessing
  <2>2. (\A k \in Handler : HandlerInStep(k)') /\ BranchesAreApart'
    BY <1>1, <1>2, <2>1, NobodyMoves
  <2>3. GitShapes'
    BY <1>1, <1>3, <2>1 DEF GitInStep, GitShapes
  <2> QED BY <1>4, <2>2, <2>3 DEF GitInStep
<1>6. CASE CanBuild(f)
  <2>1. handler' = [handler EXCEPT ![h] =
                      [Idle EXCEPT !.pc = "base", !.request = r, !.document = d]]
    BY <1>6 DEF StartProcessing
  <2>2. d \in Documents /\ FilePath(d) \in Path /\ Sound(d)
    <3>1. f \in Filing /\ catalog \in 1..MaxTerraform
      BY <1>1 DEF GitInStep, GitShapes, FiledRow
    <3> QED BY <1>6, <3>1, BuiltIsSound
  <2>3. PICK e : e = d /\ e = DocumentOf(r) /\ e = DocumentOf(r)'
    BY <1>1 DEF DocumentOf
  <2> HIDE DEF d
  <2>4. handler \in [Handler -> HandlerState]
    BY DEF GitInStep, GitShapes
  <2>5. PICK me : me = [Idle EXCEPT !.pc = "base", !.request = r, !.document = e]
    OBVIOUS
  <2>6. /\ me \in HandlerState /\ me.pc = "base" /\ me.request = r /\ me.document = e
        /\ me.branch = Base /\ me.taken = {}
    <3>1. Idle \in HandlerState /\ Idle.branch = Base /\ Idle.taken = {}
      BY IdleIsAState
    <3> QED BY <2>2, <2>3, <2>5, <3>1 DEF HandlerState, Place
  <2>7. OnlyMoves(h) /\ handler'[h] = me
    BY <2>1, <2>3, <2>4, <2>5, <2>6 DEF OnlyMoves
  <2>8. HandlerInStep(h)'
    <3>1. Base \in DOMAIN clone'.branch /\ r \in DOMAIN filed'
      BY <1>1 DEF GitInStep, GitShapes, IsClone, IsRepository
    <3>2. SoundAt(FilePath(e), e)' /\ FilePath(e) \in Path
      <4>1. SoundAt(FilePath(e), e) /\ FilePath(e) \in Path
        BY <2>2, <2>3 DEF SoundAt
      <4>2. \A p, x : SoundAt(p, x)' = SoundAt(p, x)
        BY DEF SoundAt, Sound, OfferedUnder, Documents
      <4> QED BY <4>1, <4>2
    <3>3. IsFiniteSet({})
      BY FS_EmptySet
    <3> QED BY <2>3, <2>6, <2>7, <3>1, <3>2, <3>3 DEF HandlerInStep, HasBranch
  <2>9. (\A k \in Handler : HandlerInStep(k)') /\ BranchesAreApart'
    BY <1>1, <1>2, <2>6, <2>7, <2>8, OneMoves DEF HasBranch
  <2>10. GitShapes'
    BY <1>1, <1>3, <2>7 DEF GitInStep, GitShapes, OnlyMoves
  <2> QED BY <1>4, <2>9, <2>10 DEF GitInStep
<1> QED BY <1>5, <1>6

LEMMA StopInStep ==
  ASSUME GitInStep, Stop
  PROVE  GitInStep'
<1>1. PICK tree : /\ tree = clone \/ tree = FreshClone(origin)
                  /\ Restart(tree)
  BY DEF Stop
<1>2. /\ restarts' = restarts + 1 /\ handler' = [h \in Handler |-> Idle]
      /\ clone' = tree /\ catalog' = tree.work[Terraform]
      /\ UNCHANGED <<today, filed, processed, refused, origin, proposal, overlapped, failures>>
  BY <1>1 DEF Restart
<1>3. IsClone(clone) /\ clone.tracking = DOMAIN origin /\ IsRepository(origin)
  BY DEF GitInStep, GitShapes
<1>4. IsClone(tree) /\ tree.tracking = DOMAIN origin
      /\ DOMAIN tree.branch \subseteq DOMAIN clone.branch
  <2>1. CASE tree = clone
    BY <1>3, <2>1
  <2>2. CASE tree = FreshClone(origin)
    <3>1. /\ IsClone(FreshClone(origin)) /\ FreshClone(origin).tracking = DOMAIN origin
          /\ DOMAIN FreshClone(origin).branch = {Base}
      BY <1>3, FreshCloneIsSound
    <3>2. Base \in DOMAIN clone.branch
      BY <1>3 DEF IsClone, IsRepository
    <3> QED BY <2>2, <3>1, <3>2
  <2> QED BY <1>1, <2>1, <2>2
<1>5. catalog' \in 1..MaxTerraform
  BY <1>2, <1>4, TerraformOfATree DEF IsClone
<1>6. \A h \in Handler : handler'[h] = Idle /\ HandlerInStep(h)'
  BY <1>2, <1>4, IdleInStep DEF IsClone, IsRepository
<1>7. BranchesAreApart'
  BY <1>6, IdleIsAState DEF BranchesAreApart, HasBranch
<1>8. GitShapes'
  <2>1. handler' \in [Handler -> HandlerState]
    BY <1>2, IdleIsAState
  <2>2. IsClone(clone') /\ clone'.tracking = DOMAIN origin'
    BY <1>2, <1>4
  <2> QED BY <1>2, <1>5, <2>1, <2>2 DEF GitInStep, GitShapes
<1>9. FiledWereValid'
  <2>1. restarts' # 0
    BY <1>2 DEF GitInStep, GitShapes
  <2>2. CatalogOf' = CatalogOf
    BY DEF CatalogOf
  <2>3. \A r \in DOMAIN filed' :
          /\ filed'[r].day <= today'
          /\ ValidPayload(filed'[r].filing.payload, CatalogOf[filed'[r].catalog], filed'[r].day)
    BY <1>2 DEF GitInStep, FiledWereValid
  <2> QED BY <2>1, <2>2, <2>3, Zenon DEF FiledWereValid
<1>10. BranchesHaveRequests'
  BY <1>2, <1>4 DEF BranchesHaveRequests, GitInStep
<1> QED BY <1>6, <1>7, <1>8, <1>9, <1>10 DEF GitInStep

\* What the maintainers do changes the base branch, or the state of a merge request.
LEMMA MaintainersInStep ==
  ASSUME GitInStep, NEW tree \in Tree,
         \/ origin' = [origin EXCEPT ![Base] = [tree |-> tree, fork |-> tree]]
         \/ origin' = origin,
         DOMAIN proposal' = DOMAIN proposal,
         proposal' \in [DOMAIN proposal' -> {"opened", "merged", "closed"}],
         UNCHANGED <<today, filed, processed, refused, catalog, clone, handler, overlapped, failures,
                     restarts>>
  PROVE  GitInStep'
<1>1. IsRepository(origin) /\ Base \in DOMAIN origin
  BY DEF GitInStep, GitShapes, IsRepository
<1>2. [tree |-> tree, fork |-> tree] \in BranchRow
  BY DEF BranchRow
<1>3. IsRepository(origin') /\ DOMAIN origin' = DOMAIN origin
  <2> DEFINE row == [tree |-> tree, fork |-> tree]
  <2>1. CASE origin' = [origin EXCEPT ![Base] = row]
    <3> HIDE DEF row
    <3> QED BY <1>1, <1>2, <2>1, ReplaceBranch DEF row
  <2>2. CASE origin' = origin
    BY <1>1, <2>2
  <2> QED BY <2>1, <2>2
<1>4. RepositoryGrows
  BY <1>3 DEF RepositoryGrows
<1>5. (\A k \in Handler : HandlerInStep(k)') /\ BranchesAreApart'
  BY <1>4, NobodyMoves
<1>6. GitShapes'
  BY <1>3 DEF GitInStep, GitShapes
<1>7. FiledWereValid'
  BY FiledStay DEF GitInStep, GitShapes
<1>8. BranchesHaveRequests'
  BY <1>3 DEF BranchesHaveRequests, GitInStep
<1> QED BY <1>5, <1>6, <1>7, <1>8 DEF GitInStep

LEMMA SettleInStep ==
  ASSUME GitInStep, NEW b \in DOMAIN proposal, NEW state \in {"merged", "closed"}, Settle(b, state)
  PROVE  GitInStep'
<1>1. /\ proposal' = [proposal EXCEPT ![b] = state]
      /\ UNCHANGED <<today, filed, processed, refused, catalog, clone, handler, overlapped, failures,
                     restarts>>
  BY DEF Settle
<1>2. /\ DOMAIN proposal' = DOMAIN proposal
      /\ proposal' \in [DOMAIN proposal' -> {"opened", "merged", "closed"}]
  BY <1>1 DEF GitInStep, GitShapes
<1>3. origin[b] \in BranchRow /\ origin[Base].tree \in Tree
  BY DEF GitInStep, GitShapes, IsRepository, BranchRow
<1> DEFINE merged == MergeOf(origin[b], origin[Base].tree)
<1>4. merged \in Tree
  BY <1>3, MergedTreeIsSound
<1>5. \/ origin' = [origin EXCEPT ![Base] = [tree |-> merged, fork |-> merged]]
      \/ origin' = origin
  BY DEF Settle
<1> HIDE DEF merged
<1> QED BY <1>1, <1>2, <1>4, <1>5, MaintainersInStep

LEMMA EditTerraformInStep ==
  ASSUME GitInStep, EditTerraform
  PROVE  GitInStep'
<1> DEFINE edited == [origin[Base].tree EXCEPT ![Terraform] = @ + 1]
<1>1. /\ origin[Base].tree[Terraform] < MaxTerraform
      /\ origin' = [origin EXCEPT ![Base] = [tree |-> edited, fork |-> edited]]
      /\ UNCHANGED <<today, filed, processed, refused, catalog, clone, proposal, handler, overlapped,
                     failures, restarts>>
  BY DEF EditTerraform
<1>2. origin[Base].tree \in Tree
  BY DEF GitInStep, GitShapes, IsRepository, BranchRow
<1>3. edited \in Tree
  <2>1. edited[Terraform] \in 1..MaxTerraform
    BY <1>1, <1>2, TerraformHasNoPath, GitAssumption DEF Tree
  <2>2. edited \in [RepoPath -> (1..MaxTerraform) \cup Documents \cup {Missing}]
    BY <1>2, <2>1, TerraformHasNoPath DEF Tree
  <2>3. \A p \in Path : edited[p] = origin[Base].tree[p]
    BY <1>2, TerraformHasNoPath DEF Tree
  <2> HIDE DEF edited
  <2> QED BY <1>2, <2>1, <2>2, <2>3 DEF Tree
<1>4. DOMAIN proposal' = DOMAIN proposal /\ proposal' \in [DOMAIN proposal' -> {"opened", "merged", "closed"}]
  BY <1>1 DEF GitInStep, GitShapes
<1> HIDE DEF edited
<1> QED BY <1>1, <1>3, <1>4, MaintainersInStep

LEMMA EnterByHandInStep ==
  ASSUME GitInStep, NEW b \in DOMAIN proposal, NEW p \in Path, EnterByHand(b, p)
  PROVE  GitInStep'
<1> DEFINE d == origin[b].tree[p]
           e == [d EXCEPT !.disableDate = Unlimited]
           entered == [origin[Base].tree EXCEPT ![p] = e]
<1>1. /\ d # Missing /\ d.disableDate # Unlimited
      /\ origin' = [origin EXCEPT ![Base] = [tree |-> entered, fork |-> entered]]
      /\ UNCHANGED <<today, filed, processed, refused, catalog, clone, proposal, handler, overlapped,
                     failures, restarts>>
  BY DEF EnterByHand
<1>2. origin[Base].tree \in Tree /\ origin[b].tree \in Tree
  BY DEF GitInStep, GitShapes, IsRepository, BranchRow
<1>3. SoundAt(p, d)
  BY <1>2 DEF Tree
<1> HIDE DEF d
<1>4. SoundAt(p, e)
  BY <1>1, <1>3, EnteredIsSound
<1> HIDE DEF e
<1>5. entered \in Tree
  BY <1>2, <1>4, WrittenTreeIsSound
<1>6. DOMAIN proposal' = DOMAIN proposal /\ proposal' \in [DOMAIN proposal' -> {"opened", "merged", "closed"}]
  BY <1>1 DEF GitInStep, GitShapes
<1> HIDE DEF entered
<1> QED BY <1>1, <1>5, <1>6, MaintainersInStep

LEMMA NextDayInStep ==
  ASSUME GitInStep, NextDay
  PROVE  GitInStep'
<1>1. /\ today < MaxDay /\ today' = today + 1
      /\ UNCHANGED <<filed, processed, refused, catalog, clone, origin, proposal, handler, overlapped,
                     failures, restarts>>
  BY DEF NextDay
<1>2. today' \in 0..MaxDay /\ today' \in Nat /\ today <= today' /\ restarts \in Nat
  BY <1>1, GitAssumption DEF GitInStep, GitShapes
<1>3. RepositoryGrows
  BY <1>1 DEF RepositoryGrows
<1>4. (\A k \in Handler : HandlerInStep(k)') /\ BranchesAreApart'
  BY <1>1, <1>3, NobodyMoves
<1>5. GitShapes'
  BY <1>1, <1>2 DEF GitInStep, GitShapes
<1>6. FiledWereValid'
  BY <1>1, <1>2, FiledStay DEF GitInStep
<1>7. BranchesHaveRequests'
  BY <1>1 DEF BranchesHaveRequests, GitInStep
<1> QED BY <1>4, <1>5, <1>6, <1>7 DEF GitInStep

LEMMA InitInStep ==
  ASSUME Init
  PROVE  GitInStep
<1> DEFINE row == [tree |-> EmptyTree, fork |-> EmptyTree]
<1>1. /\ today = 0 /\ filed = <<>> /\ processed = {} /\ catalog = 1
      /\ origin = Put(<<>>, Base, row) /\ clone = FreshClone(origin) /\ proposal = <<>>
      /\ handler = [h \in Handler |-> Idle] /\ overlapped = FALSE /\ failures = 0 /\ restarts = 0
  BY DEF Init
<1>2. row \in BranchRow
  BY EmptyTreeIsSound DEF BranchRow
<1> HIDE DEF row
<1>3. IsRepository(origin) /\ DOMAIN origin = {Base}
  <2>1. DOMAIN origin = {Base} /\ origin[Base] = row /\ origin = [b \in {Base} |-> row]
    BY <1>1 DEF Put
  <2>2. IsFiniteSet({Base})
    BY FS_Singleton
  <2> QED BY <1>2, <2>1, <2>2, BaseIsABranch DEF IsRepository
<1>4. IsClone(clone) /\ clone.tracking = DOMAIN origin /\ DOMAIN clone.branch = {Base}
  BY <1>1, <1>3, FreshCloneIsSound
<1>5. /\ DOMAIN filed = {} /\ filed \in [DOMAIN filed -> FiledRow]
      /\ DOMAIN proposal = {} /\ proposal \in [DOMAIN proposal -> {"opened", "merged", "closed"}]
  BY <1>1
<1>6. handler \in [Handler -> HandlerState]
  BY <1>1, IdleIsAState
<1>7. GitShapes
  <2>1. /\ today \in 0..MaxDay /\ catalog \in 1..MaxTerraform
        /\ overlapped \in BOOLEAN /\ failures \in Nat /\ restarts \in Nat
    <3>1. 0 \in 0..MaxDay /\ 1 \in 1..MaxTerraform
      BY GitAssumption
    <3> QED BY <1>1, <3>1, Zenon
  <2>2. DOMAIN filed \subseteq RequestId /\ DOMAIN proposal \subseteq DOMAIN origin \ {Base}
    BY <1>5
  <2>3. processed \subseteq DOMAIN filed
    BY <1>1
  <2> QED BY <1>3, <1>4, <1>5, <1>6, <2>1, <2>2, <2>3, Zenon DEF GitShapes
<1>8. FiledWereValid
  BY <1>1, <1>5 DEF FiledWereValid
<1>9. ASSUME NEW h \in Handler
      PROVE  HandlerInStep(h)
  <2>1. handler[h] = Idle /\ IsFiniteSet({})
    BY <1>1, FS_EmptySet
  <2> QED BY <1>4, <2>1, IdleIsAState DEF HandlerInStep, HasBranch
<1>10. BranchesAreApart
  BY <1>1, IdleIsAState DEF BranchesAreApart, HasBranch
<1>11. BranchesHaveRequests
  BY <1>3, <1>4 DEF BranchesHaveRequests
<1> QED BY <1>7, <1>8, <1>9, <1>10, <1>11 DEF GitInStep

LEMMA StutterInStep ==
  ASSUME GitInStep, UNCHANGED vars
  PROVE  GitInStep'
<1>1. UNCHANGED <<today, filed, processed, refused, catalog, clone, origin, proposal, handler,
                  overlapped, failures, restarts>>
  BY DEF vars
<1>2. RepositoryGrows
  BY <1>1 DEF RepositoryGrows
<1>3. (\A k \in Handler : HandlerInStep(k)') /\ BranchesAreApart'
  BY <1>1, <1>2, NobodyMoves
<1>4. GitShapes'
  BY <1>1 DEF GitInStep, GitShapes
<1>5. FiledWereValid'
  BY <1>1, FiledStay, GitAssumption DEF GitInStep, GitShapes
<1>6. BranchesHaveRequests'
  BY <1>1 DEF BranchesHaveRequests, GitInStep
<1> QED BY <1>3, <1>4, <1>5, <1>6 DEF GitInStep

LEMMA NextInStep ==
  ASSUME GitInStep, [Next]_vars
  PROVE  GitInStep'
<1>1. ASSUME NEW r \in RequestId, NEW f \in Filing, File(r, f)
      PROVE  GitInStep'
  BY <1>1, FileInStep
<1>2. ASSUME NEW h \in Handler, NEW r \in RequestId, StartProcessing(h, r)
      PROVE  GitInStep'
  BY <1>2, StartProcessingInStep
<1>3. ASSUME NEW h \in Handler, GitStep(h)
      PROVE  GitInStep'
  BY <1>3, CheckOutBaseInStep, PullInStep, ListBranchesInStep, CreateBranchInStep, WriteFileInStep,
     AddInStep, CommitInStep, PushInStep, ProposeInStep, RestoreInStep, RecordInStep, RefusedInStep
     DEF GitStep
<1>4. ASSUME NEW h \in Handler, Fail(h)
      PROVE  GitInStep'
  BY <1>4, FailInStep
<1>5. CASE Stop
  BY <1>5, StopInStep
<1>6. ASSUME NEW b \in DOMAIN proposal, NEW state \in {"merged", "closed"}, Settle(b, state)
      PROVE  GitInStep'
  BY <1>6, SettleInStep
<1>7. CASE EditTerraform
  BY <1>7, EditTerraformInStep
<1>8. ASSUME NEW b \in DOMAIN proposal, NEW p \in Path, EnterByHand(b, p)
      PROVE  GitInStep'
  BY <1>8, EnterByHandInStep
<1>9. CASE NextDay
  BY <1>9, NextDayInStep
<1>10. CASE UNCHANGED vars
  BY <1>10, StutterInStep
<1> QED BY <1>1, <1>2, <1>3, <1>4, <1>5, <1>6, <1>7, <1>8, <1>9, <1>10 DEF Next

\* Every call on the shared clone is in step with it, whatever the others do to
\* it: each branch is made by one call for its own request, and every file in
\* any tree is sound where it lies (commitAndOpenMergeRequest, prepareBranch).
THEOREM CallsKeepInStep == Spec => []GitInStep
<1>1. Init => GitInStep
  BY InitInStep
<1>2. GitInStep /\ [Next]_vars => GitInStep'
  BY NextInStep
<1> QED BY <1>1, <1>2, PTL DEF Spec

-----------------------------------------------------------------------------
(* What the runs check                                                     *)

LEMMA TreesHaveTheirShape ==
  ASSUME NEW t \in Tree
  PROVE  IsTree(t)
BY DEF Tree, IsTree, SoundAt

\* The repository, its clone and the calls under way keep their shapes.
THEOREM GitTypesHold == Spec => []TypeOK
<1>1. GitInStep => TypeOK
  <2> SUFFICES ASSUME GitInStep PROVE TypeOK
    OBVIOUS
  <2>1. /\ today \in 0..MaxDay /\ catalog \in 1..MaxTerraform
        /\ DOMAIN filed \subseteq RequestId /\ processed \subseteq DOMAIN filed
        /\ clone.tracking \subseteq DOMAIN origin
        /\ DOMAIN proposal \subseteq DOMAIN origin \ {Base}
    BY DEF GitInStep, GitShapes
  <2>2. \A b \in DOMAIN origin : b \in Branch /\ IsTree(origin[b].tree) /\ IsTree(origin[b].fork)
    BY TreesHaveTheirShape DEF GitInStep, GitShapes, IsRepository, BranchRow
  <2>3. \A b \in DOMAIN clone.branch : b \in Branch /\ IsTree(clone.branch[b].tree)
    BY TreesHaveTheirShape DEF GitInStep, GitShapes, IsClone, IsRepository, BranchRow
  <2>4. IsTree(clone.index) /\ IsTree(clone.work) /\ clone.head \in DOMAIN clone.branch
    BY TreesHaveTheirShape DEF GitInStep, GitShapes, IsClone
  <2>5. \A h \in Handler : handler[h].branch \in DOMAIN clone.branch
    BY DEF GitInStep, HandlerInStep
  <2> QED BY <2>1, <2>2, <2>3, <2>4, <2>5 DEF TypeOK
<1> QED BY <1>1, CallsKeepInStep, PTL

\* Whatever calls got in each other's way, every YAML file on GitLab lies where
\* its name and domain say and asks for nothing the server did not offer
\* (buildYaml, writeYamlFile, OpenstackConstraintsService).
THEOREM FilesAreSound == Spec => []DocumentsAreSound
<1>1. GitInStep => DocumentsAreSound
  <2> SUFFICES ASSUME GitInStep, NEW b \in DOMAIN origin, NEW p \in Path,
                      origin[b].tree[p] # Missing
               PROVE  FilePath(origin[b].tree[p]) = p /\ Sound(origin[b].tree[p])
    BY Zenon DEF DocumentsAreSound, Sound, OfferedUnder, Offered
  <2>1. origin[b].tree \in Tree
    BY DEF GitInStep, GitShapes, IsRepository, BranchRow
  <2> QED BY <2>1 DEF Tree, SoundAt
<1> QED BY <1>1, CallsKeepInStep, PTL

LateCause(r) ==
  LET f == filed[r].filing
  IN  \/ \E k \in DOMAIN f.payload.quota : f.payload.quota[k] < 1
      \/ ~LabelsResolve(f.payload)
      \/ Contacts(f.project) = {}
      \/ f.payload.disableDate \in filed[r].day..(today - 1)
      \/ restarts > 0 /\ catalog # filed[r].catalog

\* The second check differs from the first in the quota values alone, unless the
\* day or the catalogue did.
LEMMA SecondCheckIsLate ==
  ASSUME GitInStep, NEW r \in DOMAIN filed, ~CanBuild(filed[r].filing)
  PROVE  LateCause(r)
<1> DEFINE f == filed[r].filing
           row == filed[r]
<1>1. /\ f \in Filing /\ row.day \in Nat /\ row.day <= today /\ today \in Nat /\ restarts \in Nat
      /\ ValidPayload(f.payload, CatalogOf[row.catalog], row.day)
      /\ restarts = 0 => catalog = row.catalog
  BY GitAssumption DEF GitInStep, GitShapes, FiledWereValid, FiledRow
<1>2. /\ f.payload.disableDate \in Int
      /\ \A k \in DOMAIN f.payload.quota : f.payload.quota[k] \in Int
  BY <1>1, FilingAssumption
<1>3. CASE catalog # row.catalog
  BY <1>1, <1>3 DEF LateCause
<1>4. CASE catalog = row.catalog
  <2>1. CASE ~DisableDateAllowed(f.payload.disableDate, today)
    <3>1. f.payload.disableDate \in row.day..(today - 1)
      BY <1>1, <1>2, <2>1 DEF ValidPayload, DisableDateAllowed
    <3> QED BY <3>1 DEF LateCause
  <2>2. CASE DisableDateAllowed(f.payload.disableDate, today)
    <3>1. ValidPayload(f.payload, CatalogOf[catalog], today)
      BY <1>1, <1>4, <2>2 DEF ValidPayload
    <3>2. \/ Contacts(f.project) = {} \/ ~LabelsResolve(f.payload) \/ ~NormalQuota(f.payload.quota)
      BY <3>1 DEF CanBuild
    <3>3. QuotaKeysAllowed(f.payload.quota)
      BY <3>1 DEF ValidPayload
    <3>4. ~NormalQuota(f.payload.quota) =>
            \E k \in DOMAIN f.payload.quota : f.payload.quota[k] < 1
      BY <1>2, <3>3 DEF NormalQuota
    <3> QED BY <3>2, <3>4 DEF LateCause
  <2> QED BY <2>1, <2>2
<1> QED BY <1>3, <1>4

\* What filing accepted is refused after its approval only for what filing does
\* not check, because its end has passed, or because a restarted server reads
\* another catalogue (validateRequestPayload, normalizeQuota, resolveLabels).
THEOREM RefusalsComeLate == Spec => RefusalsHaveALateCause
<1>1. GitInStep /\ [Next]_vars => [\A r \in refused' \ refused : LateCause(r)]_vars
  <2> SUFFICES ASSUME GitInStep, [Next]_vars, NEW r \in refused' \ refused
               PROVE  LateCause(r)
    OBVIOUS
  <2>1. PICK h \in Handler, q \in RequestId : StartProcessing(h, q)
    BY DEF Next, vars, File, GitStep, CheckOutBase, Pull, ListBranches, CreateBranch, WriteFile,
       Add, Commit, Push, Propose, Restore, Record, Refused, Fail, Stop, Restart, Settle,
       EditTerraform, EnterByHand, NextDay
  <2>2. q \in DOMAIN filed /\ ~CanBuild(filed[q].filing) /\ r = q
    BY <2>1 DEF StartProcessing
  <2> QED BY <2>2, SecondCheckIsLate
<1>2. [\A r \in refused' \ refused : LateCause(r)]_vars =>
        [\A r \in refused' \ refused :
           LET f == filed[r].filing
           IN  \/ \E k \in DOMAIN f.payload.quota : f.payload.quota[k] < 1
               \/ ~LabelsResolve(f.payload)
               \/ Contacts(f.project) = {}
               \/ f.payload.disableDate \in filed[r].day..(today - 1)
               \/ restarts > 0 /\ catalog # filed[r].catalog]_vars
  BY DEF LateCause
<1> QED BY <1>1, <1>2, CallsKeepInStep, PTL DEF Spec, RefusalsHaveALateCause

\* A merge request that was merged or closed is not taken up again: nobody
\* proposes a branch for the second time (prepareBranch, ensureMergeRequest).
THEOREM SettledAreLeftAlone == Spec => SettledStaysSettled
<1>1. GitInStep /\ [Next]_vars =>
        [\A b \in DOMAIN proposal : proposal[b] # "opened" => proposal'[b] = proposal[b]]_vars
  <2> SUFFICES ASSUME GitInStep, [Next]_vars, NEW b \in DOMAIN proposal, proposal[b] # "opened",
                      proposal' # proposal
               PROVE  proposal'[b] = proposal[b]
    OBVIOUS
  <2>1. \/ \E h \in Handler : Propose(h)
        \/ \E c \in DOMAIN proposal, state \in {"merged", "closed"} : Settle(c, state)
    BY DEF Next, vars, File, StartProcessing, GitStep, CheckOutBase, Pull, ListBranches, CreateBranch,
       WriteFile, Add, Commit, Push, Restore, Record, Refused, Fail, Stop, Restart,
       EditTerraform, EnterByHand, NextDay
  <2>2. ASSUME NEW h \in Handler, Propose(h)
        PROVE  proposal'[b] = proposal[b]
    <3>1. handler[h].pc = "propose" /\ proposal' = Put(proposal, handler[h].branch, "opened")
      BY <2>2 DEF Propose, At
    <3>2. handler[h].branch \notin DOMAIN proposal
      BY <3>1 DEF GitInStep, HandlerInStep, HasBranch
    <3> QED BY <3>1, <3>2 DEF Put
  <2>3. ASSUME NEW c \in DOMAIN proposal, NEW state \in {"merged", "closed"}, Settle(c, state)
        PROVE  proposal'[b] = proposal[b]
    BY <2>3 DEF Settle
  <2> QED BY <2>1, <2>2, <2>3
<1> QED BY <1>1, CallsKeepInStep, PTL DEF Spec, SettledStaysSettled

-----------------------------------------------------------------------------
(* What calls leave in the clone                                           *)

\* What a check-out or a pull carries along was there before, and what was in
\* step with the old tree is in step with the new one.
LEMMA CarriedWasThere ==
  ASSUME IsClone(clone), NEW tree \in Tree,
         \A p \in RepoPath : Dirty(p) =>
           \/ tree[p] = HeadTree[p]
           \/ clone.index[p] = tree[p] /\ clone.work[p] = tree[p],
         NEW p \in RepoPath
  PROVE  /\ Carry(clone.work, tree)[p] # Carry(clone.index, tree)[p] => clone.work[p] # clone.index[p]
         /\ Carry(clone.index, tree)[p] # tree[p] => clone.index[p] # HeadTree[p]
<1>1. CASE Dirty(p)
  BY <1>1 DEF Carry
<1>2. CASE ~Dirty(p)
  BY <1>2 DEF Carry
<1> QED BY <1>1, <1>2

\* Commands that write and stage nothing leave what is waiting to those it waits for.
LEMMA WaitingStays ==
  ASSUME StagedInTurn, NEW h \in Handler, OnlyMoves(h), handler[h].pc \notin {"add", "commit"},
         Unbroken' => Unbroken,
         \A p \in RepoPath : clone'.work[p] # clone'.index[p] => clone.work[p] # clone.index[p],
         \A p \in RepoPath : clone'.index[p] # HeadTree'[p] => clone.index[p] # HeadTree[p],
         clone'.head # Base => \/ handler'[h].pc \in OffBase
                               \/ clone.head # Base /\ handler[h].pc \notin OffBase
                               \/ \E k \in Handler \ {h} : handler[k].pc \in OffBase
  PROVE  StagedInTurn'
<1> SUFFICES ASSUME Unbroken'
             PROVE  /\ \A p \in RepoPath : clone'.work[p] # clone'.index[p] =>
                         \E k \in Handler : At(k, "add")' /\ FilePath(handler'[k].document) = p
                    /\ \A p \in RepoPath : clone'.index[p] # HeadTree'[p] =>
                         \E k \in Handler : At(k, "commit")' /\ FilePath(handler'[k].document) = p
                    /\ clone'.head # Base => \E k \in Handler : handler'[k].pc \in OffBase
  BY DEF StagedInTurn, Unbroken, OffBase, HasBranch
<1>1. /\ \A p \in RepoPath : clone.work[p] # clone.index[p] =>
           \E k \in Handler : At(k, "add") /\ FilePath(handler[k].document) = p
      /\ \A p \in RepoPath : clone.index[p] # HeadTree[p] =>
           \E k \in Handler : At(k, "commit") /\ FilePath(handler[k].document) = p
      /\ clone.head # Base => \E k \in Handler : handler[k].pc \in OffBase
  BY DEF StagedInTurn, Unbroken
<1>2. \A k \in Handler, place \in {"add", "commit"} :
        At(k, place) => At(k, place)' /\ handler'[k].document = handler[k].document
  BY DEF At, OnlyMoves
<1>3. ASSUME NEW p \in RepoPath, clone'.work[p] # clone'.index[p]
      PROVE  \E k \in Handler : At(k, "add")' /\ FilePath(handler'[k].document) = p
  <2>1. PICK k \in Handler : At(k, "add") /\ FilePath(handler[k].document) = p
    BY <1>1, <1>3
  <2> QED BY <1>2, <2>1
<1>4. ASSUME NEW p \in RepoPath, clone'.index[p] # HeadTree'[p]
      PROVE  \E k \in Handler : At(k, "commit")' /\ FilePath(handler'[k].document) = p
  <2>1. PICK k \in Handler : At(k, "commit") /\ FilePath(handler[k].document) = p
    BY <1>1, <1>4
  <2> QED BY <1>2, <2>1
<1>5. ASSUME clone'.head # Base
      PROVE  \E k \in Handler : handler'[k].pc \in OffBase
  BY <1>1, <1>5 DEF OnlyMoves
<1> QED BY <1>3, <1>4, <1>5

LEMMA CheckOutBaseStages ==
  ASSUME GitInStep, StagedInTurn, NEW h \in Handler, CheckOutBase(h)
  PROVE  StagedInTurn'
<1> DEFINE tree == clone.branch[Base].tree
<1>1. IsClone(clone) /\ handler \in [Handler -> HandlerState]
  BY DEF GitInStep, GitShapes
<1>2. /\ handler[h].pc = "base" /\ GoTo(h, "pull") /\ CanCheckOut(tree)
      /\ UNCHANGED <<failures, restarts>>
  BY DEF CheckOutBase, At
<1>3. OnlyMoves(h)
  BY <1>1, <1>2, GoToMoves DEF Place
<1>4. /\ clone'.head = Base /\ HeadTree' = tree
      /\ clone'.index = Carry(clone.index, tree) /\ clone'.work = Carry(clone.work, tree)
  BY <1>1, BaseCheckedOut DEF HeadTree
<1>5. tree \in Tree
  BY <1>1, CloneFields
<1>6. \A p \in RepoPath : Dirty(p) =>
        \/ tree[p] = HeadTree[p]
        \/ clone.index[p] = tree[p] /\ clone.work[p] = tree[p]
  BY <1>2 DEF CanCheckOut
<1> HIDE DEF tree
<1>7. \A p \in RepoPath :
        /\ clone'.work[p] # clone'.index[p] => clone.work[p] # clone.index[p]
        /\ clone'.index[p] # HeadTree'[p] => clone.index[p] # HeadTree[p]
  BY <1>1, <1>4, <1>5, <1>6, CarriedWasThere
<1>8. Unbroken' => Unbroken
  BY <1>2, <1>4 DEF Unbroken
<1> QED BY <1>2, <1>3, <1>4, <1>7, <1>8, WaitingStays

LEMMA PullStages ==
  ASSUME GitInStep, StagedInTurn, NEW h \in Handler, Pull(h)
  PROVE  StagedInTurn'
<1> DEFINE theirs == origin[Base].tree
<1>1. /\ IsClone(clone) /\ handler \in [Handler -> HandlerState] /\ IsRepository(origin)
      /\ theirs \in Tree
  BY DEF GitInStep, GitShapes, IsRepository, BranchRow
<1>2. /\ handler[h].pc = "pull" /\ UNCHANGED <<failures, restarts>>
      /\ clone'.head = clone.head /\ GoTo(h, "list")
  BY <1>1, BasePulled DEF Pull, At
<1>3. OnlyMoves(h) /\ (Unbroken' => Unbroken)
  BY <1>1, <1>2, GoToMoves DEF Place, Unbroken
<1>4. CASE clone' = clone
  BY <1>2, <1>3, <1>4, WaitingStays DEF OffBase, HasBranch, HeadTree
<1>5. CASE /\ CanCheckOut(theirs)
           /\ clone'.branch[clone.head] = [tree |-> theirs, fork |-> theirs]
           /\ clone'.index = Carry(clone.index, theirs) /\ clone'.work = Carry(clone.work, theirs)
  <2>1. HeadTree' = theirs
    BY <1>2, <1>5 DEF HeadTree
  <2>2. \A p \in RepoPath : Dirty(p) =>
          \/ theirs[p] = HeadTree[p]
          \/ clone.index[p] = theirs[p] /\ clone.work[p] = theirs[p]
    BY <1>5 DEF CanCheckOut
  <2> HIDE DEF theirs
  <2>3. \A p \in RepoPath :
          /\ clone'.work[p] # clone'.index[p] => clone.work[p] # clone.index[p]
          /\ clone'.index[p] # HeadTree'[p] => clone.index[p] # HeadTree[p]
    BY <1>1, <1>5, <2>1, <2>2, CarriedWasThere
  <2> QED BY <1>2, <1>3, <2>3, WaitingStays DEF OffBase, HasBranch
<1> QED BY <1>1, <1>4, <1>5, BasePulled

LEMMA CreateBranchStages ==
  ASSUME GitInStep, StagedInTurn, NEW h \in Handler, CreateBranch(h)
  PROVE  StagedInTurn'
<1>1. /\ IsClone(clone) /\ handler \in [Handler -> HandlerState]
      /\ IsFiniteSet(handler[h].taken) /\ handler[h].request \in RequestId
      /\ handler[h].pc = "create" /\ UNCHANGED <<failures, restarts>>
  BY DEF CreateBranch, At, GitInStep, GitShapes, HandlerInStep
<1>2. PICK b \in Branch :
        /\ clone'.head = b /\ clone'.branch[b] = clone.branch[clone.head]
        /\ clone'.index = clone.index /\ clone'.work = clone.work
        /\ handler' = [handler EXCEPT ![h].pc = "write", ![h].branch = b, ![h].taken = {}]
  BY <1>1, BranchCreated
<1>3. OnlyMoves(h) /\ handler'[h].pc = "write"
  BY <1>1, <1>2, CreateMoves
<1>4. HeadTree' = HeadTree
  BY <1>2 DEF HeadTree
<1>5. Unbroken' => Unbroken
  BY <1>1, <1>2 DEF Unbroken
<1> QED BY <1>1, <1>2, <1>3, <1>4, <1>5, WaitingStays DEF OffBase, HasBranch

LEMMA WriteFileStages ==
  ASSUME GitInStep, StagedInTurn, NEW h \in Handler, WriteFile(h)
  PROVE  StagedInTurn'
<1> DEFINE p0 == FilePath(handler[h].document)
<1>1. /\ IsClone(clone) /\ handler \in [Handler -> HandlerState] /\ handler[h].pc = "write"
      /\ p0 \in Path /\ SoundAt(p0, handler[h].document)
      /\ GoTo(h, "add") /\ UNCHANGED <<failures, restarts>>
  BY DEF WriteFile, At, GitInStep, GitShapes, HandlerInStep
<1>2. /\ clone'.head = clone.head /\ clone'.branch = clone.branch /\ clone'.index = clone.index
      /\ clone'.work = With(clone.work, handler[h].document)
  BY <1>1, FileWritten
<1>3. /\ OnlyMoves(h) /\ handler'[h].pc = "add" /\ handler'[h].document = handler[h].document
  BY <1>1, GoToMoves DEF Place
<1>4. SUFFICES ASSUME Unbroken'
               PROVE  /\ \A p \in RepoPath : clone'.work[p] # clone'.index[p] =>
                           \E k \in Handler : At(k, "add")' /\ FilePath(handler'[k].document) = p
                      /\ \A p \in RepoPath : clone'.index[p] # HeadTree'[p] =>
                           \E k \in Handler : At(k, "commit")' /\ FilePath(handler'[k].document) = p
                      /\ clone'.head # Base => \E k \in Handler : handler'[k].pc \in OffBase
  BY DEF StagedInTurn, Unbroken, OffBase, HasBranch
<1>5. Unbroken /\ HeadTree' = HeadTree
  BY <1>1, <1>2, <1>4 DEF Unbroken, HeadTree
<1>6. \A k \in Handler \ {h} : handler'[k] = handler[k]
  BY <1>3 DEF OnlyMoves
<1>7. ASSUME NEW p \in RepoPath, clone'.work[p] # clone'.index[p]
      PROVE  \E k \in Handler : At(k, "add")' /\ FilePath(handler'[k].document) = p
  <2>1. CASE p = p0
    BY <1>3, <2>1 DEF At
  <2>2. CASE p # p0
    <3>1. clone'.work[p] = clone.work[p]
      BY <1>1, <1>2, <2>2, CloneFields DEF With, Tree
    <3>2. PICK k \in Handler : At(k, "add") /\ FilePath(handler[k].document) = p
      BY <1>2, <1>5, <1>7, <3>1 DEF StagedInTurn
    <3> QED BY <1>1, <1>6, <3>2 DEF At
  <2> QED BY <2>1, <2>2
<1>8. ASSUME NEW p \in RepoPath, clone'.index[p] # HeadTree'[p]
      PROVE  \E k \in Handler : At(k, "commit")' /\ FilePath(handler'[k].document) = p
  <2>1. PICK k \in Handler : At(k, "commit") /\ FilePath(handler[k].document) = p
    BY <1>2, <1>5, <1>8 DEF StagedInTurn
  <2> QED BY <1>1, <1>6, <2>1 DEF At
<1> QED BY <1>3, <1>7, <1>8 DEF OffBase, HasBranch

LEMMA AddStages ==
  ASSUME GitInStep, StagedInTurn, NEW h \in Handler, Add(h)
  PROVE  StagedInTurn'
<1> DEFINE p0 == FilePath(handler[h].document)
<1>1. /\ IsClone(clone) /\ handler \in [Handler -> HandlerState] /\ handler[h].pc = "add"
      /\ GoTo(h, "commit") /\ UNCHANGED <<failures, restarts>>
  BY DEF Add, At, GitInStep, GitShapes
<1>2. /\ clone'.head = clone.head /\ clone'.branch = clone.branch
      /\ clone'.index = [clone.index EXCEPT ![p0] = clone.work[p0]]
      /\ clone'.work = clone.work
  BY <1>1, FileAdded
<1>3. /\ OnlyMoves(h) /\ handler'[h].pc = "commit" /\ handler'[h].document = handler[h].document
  BY <1>1, GoToMoves DEF Place
<1>4. SUFFICES ASSUME Unbroken'
               PROVE  /\ \A p \in RepoPath : clone'.work[p] # clone'.index[p] =>
                           \E k \in Handler : At(k, "add")' /\ FilePath(handler'[k].document) = p
                      /\ \A p \in RepoPath : clone'.index[p] # HeadTree'[p] =>
                           \E k \in Handler : At(k, "commit")' /\ FilePath(handler'[k].document) = p
                      /\ clone'.head # Base => \E k \in Handler : handler'[k].pc \in OffBase
  BY DEF StagedInTurn, Unbroken, OffBase, HasBranch
<1>5. Unbroken /\ HeadTree' = HeadTree
  BY <1>1, <1>2, <1>4 DEF Unbroken, HeadTree
<1>6. \A k \in Handler \ {h} : handler'[k] = handler[k]
  BY <1>3 DEF OnlyMoves
<1>7. \A p \in RepoPath : clone'.index[p] = IF p = p0 THEN clone.work[p] ELSE clone.index[p]
  BY <1>1, <1>2, CloneFields DEF Tree
<1>8. ASSUME NEW p \in RepoPath, clone'.work[p] # clone'.index[p]
      PROVE  \E k \in Handler : At(k, "add")' /\ FilePath(handler'[k].document) = p
  <2>1. p # p0 /\ clone.work[p] # clone.index[p]
    BY <1>2, <1>7, <1>8
  <2>2. PICK k \in Handler : At(k, "add") /\ FilePath(handler[k].document) = p
    BY <1>5, <2>1 DEF StagedInTurn
  <2>3. k # h
    BY <2>1, <2>2
  <2> QED BY <1>6, <2>2, <2>3 DEF At
<1>9. ASSUME NEW p \in RepoPath, clone'.index[p] # HeadTree'[p]
      PROVE  \E k \in Handler : At(k, "commit")' /\ FilePath(handler'[k].document) = p
  <2>1. CASE p = p0
    BY <1>3, <2>1 DEF At
  <2>2. CASE p # p0
    <3>1. PICK k \in Handler : At(k, "commit") /\ FilePath(handler[k].document) = p
      BY <1>5, <1>7, <1>9, <2>2 DEF StagedInTurn
    <3> QED BY <1>1, <1>6, <3>1 DEF At
  <2> QED BY <2>1, <2>2
<1> QED BY <1>3, <1>8, <1>9 DEF OffBase, HasBranch

LEMMA CommitStages ==
  ASSUME GitInStep, StagedInTurn, NEW h \in Handler, Commit(h)
  PROVE  StagedInTurn'
<1>1. /\ IsClone(clone) /\ handler \in [Handler -> HandlerState] /\ handler[h].pc = "commit"
      /\ GoTo(h, "push") /\ UNCHANGED <<failures, restarts>>
  BY DEF Commit, At, GitInStep, GitShapes
<1>2. /\ clone'.head = clone.head /\ clone'.branch[clone.head].tree = clone.index
      /\ clone'.index = clone.index /\ clone'.work = clone.work
  BY <1>1, StagedIsCommitted
<1>3. OnlyMoves(h) /\ handler'[h].pc = "push"
  BY <1>1, GoToMoves DEF Place
<1>4. SUFFICES ASSUME Unbroken'
               PROVE  /\ \A p \in RepoPath : clone'.work[p] # clone'.index[p] =>
                           \E k \in Handler : At(k, "add")' /\ FilePath(handler'[k].document) = p
                      /\ \A p \in RepoPath : clone'.index[p] # HeadTree'[p] =>
                           \E k \in Handler : At(k, "commit")' /\ FilePath(handler'[k].document) = p
                      /\ clone'.head # Base => \E k \in Handler : handler'[k].pc \in OffBase
  BY DEF StagedInTurn, Unbroken, OffBase, HasBranch
<1>5. Unbroken /\ HeadTree' = clone.index
  BY <1>1, <1>2, <1>4 DEF Unbroken, HeadTree
<1>6. ASSUME NEW p \in RepoPath, clone'.work[p] # clone'.index[p]
      PROVE  \E k \in Handler : At(k, "add")' /\ FilePath(handler'[k].document) = p
  <2>1. PICK k \in Handler : At(k, "add") /\ FilePath(handler[k].document) = p
    BY <1>2, <1>5, <1>6 DEF StagedInTurn
  <2> QED BY <1>1, <1>3, <2>1 DEF At, OnlyMoves
<1> QED BY <1>2, <1>3, <1>5, <1>6 DEF OffBase, HasBranch

LEMMA RestoreStages ==
  ASSUME GitInStep, StagedInTurn, NEW h \in Handler, Restore(h)
  PROVE  StagedInTurn'
<1> DEFINE tree == clone.branch[Base].tree
<1>1. /\ IsClone(clone) /\ handler \in [Handler -> HandlerState] /\ handler[h].pc = "restore"
      /\ Return(h) \/ GoTo(h, "record")
      /\ UNCHANGED <<failures, restarts>>
  BY DEF Restore, AfterTry, At, GitInStep, GitShapes
<1>2. OnlyMoves(h)
  BY <1>1, ReturnMoves, GoToMoves DEF Place
<1>3. CASE CanCheckOut(tree)
  <2>1. /\ clone'.head = Base /\ HeadTree' = tree
        /\ clone'.index = Carry(clone.index, tree) /\ clone'.work = Carry(clone.work, tree)
    BY <1>1, <1>3, BaseRestored DEF HeadTree
  <2>2. tree \in Tree
    BY <1>1, CloneFields
  <2>3. \A p \in RepoPath : Dirty(p) =>
          \/ tree[p] = HeadTree[p]
          \/ clone.index[p] = tree[p] /\ clone.work[p] = tree[p]
    BY <1>3 DEF CanCheckOut
  <2> HIDE DEF tree
  <2>4. \A p \in RepoPath :
          /\ clone'.work[p] # clone'.index[p] => clone.work[p] # clone.index[p]
          /\ clone'.index[p] # HeadTree'[p] => clone.index[p] # HeadTree[p]
    BY <1>1, <2>1, <2>2, <2>3, CarriedWasThere
  <2>5. Unbroken' => Unbroken
    BY <1>1, <2>1 DEF Unbroken
  <2> QED BY <1>1, <1>2, <2>1, <2>4, <2>5, WaitingStays
<1>4. CASE ~CanCheckOut(tree)
  <2>1. clone' = clone
    BY <1>1, <1>4, BaseRestored
  <2>2. CASE ~Unbroken
    BY <1>1, <2>1, <2>2 DEF StagedInTurn, Unbroken
  <2>3. CASE Unbroken
    <3>1. PICK p \in RepoPath : Dirty(p)
      BY <1>4, <2>3 DEF CanCheckOut, Unbroken
    <3>2. clone.work[p] # clone.index[p] \/ clone.index[p] # HeadTree[p]
      BY <3>1 DEF Dirty
    <3>3. PICK k \in Handler : At(k, "add") \/ At(k, "commit")
      BY <2>3, <3>2 DEF StagedInTurn
    <3>4. k \in Handler \ {h} /\ handler[k].pc \in OffBase
      BY <1>1, <3>3 DEF At, OffBase, HasBranch
    <3>5. HeadTree' = HeadTree
      BY <2>1 DEF HeadTree
    <3> QED BY <1>1, <1>2, <2>1, <2>3, <3>4, <3>5, WaitingStays
  <2> QED BY <2>2, <2>3
<1> QED BY <1>3, <1>4

\* Calls that touch neither the clone nor what waits.
LEMMA CloneStaysStages ==
  ASSUME GitInStep, StagedInTurn, NEW h \in Handler, OnlyMoves(h),
         clone'.head = clone.head, clone'.branch = clone.branch, clone'.index = clone.index,
         clone'.work = clone.work,
         UNCHANGED <<failures, restarts>>,
         handler[h].pc \notin {"add", "commit"},
         handler[h].pc \in OffBase => handler'[h].pc \in OffBase
  PROVE  StagedInTurn'
<1>1. HeadTree' = HeadTree
  BY DEF HeadTree
<1>2. Unbroken' => Unbroken
  BY DEF Unbroken
<1> QED BY <1>1, <1>2, WaitingStays

LEMMA GitStepStages ==
  ASSUME GitInStep, StagedInTurn, NEW h \in Handler, GitStep(h)
  PROVE  StagedInTurn'
<1>1. handler \in [Handler -> HandlerState] /\ IsClone(clone)
  BY DEF GitInStep, GitShapes
<1>2. CASE ListBranches(h)
  <2>1. /\ handler' = [handler EXCEPT ![h].pc = "create", ![h].taken = KnownBranches]
        /\ handler[h].pc = "list" /\ UNCHANGED <<clone, failures, restarts>>
    BY <1>2 DEF ListBranches, At
  <2>2. KnownBranches \subseteq Branch
    BY DEF KnownBranches, GitInStep, GitShapes, IsClone, IsRepository
  <2>3. OnlyMoves(h)
    <3> HIDE DEF KnownBranches
    <3> QED BY <1>1, <2>1, <2>2 DEF OnlyMoves, HandlerState, Place
  <2> QED BY <2>1, <2>3, CloneStaysStages DEF OffBase, HasBranch
<1>3. CASE Push(h)
  <2>1. handler[h].pc = "push" /\ GoTo(h, "propose") /\ UNCHANGED <<failures, restarts>>
    BY <1>3 DEF Push, At
  <2>2. /\ clone'.head = clone.head /\ clone'.branch = clone.branch /\ clone'.index = clone.index
        /\ clone'.work = clone.work
    BY <1>3, BranchPushed DEF GitInStep, GitShapes, HandlerInStep
  <2>3. OnlyMoves(h) /\ handler'[h].pc = "propose"
    BY <1>1, <2>1, GoToMoves DEF Place
  <2> QED BY <2>1, <2>2, <2>3, CloneStaysStages DEF OffBase, HasBranch
<1>4. CASE Propose(h)
  <2>1. handler[h].pc = "propose" /\ GoTo(h, "restore") /\ UNCHANGED <<clone, failures, restarts>>
    BY <1>4 DEF Propose, At
  <2>2. OnlyMoves(h) /\ handler'[h].pc = "restore"
    BY <1>1, <2>1, GoToMoves DEF Place
  <2> QED BY <2>1, <2>2, CloneStaysStages DEF OffBase, HasBranch
<1>5. CASE Record(h)
  <2>1. handler[h].pc = "record" /\ Return(h) /\ UNCHANGED <<clone, failures, restarts>>
    BY <1>5 DEF Record, At
  <2>2. OnlyMoves(h)
    BY <1>1, <2>1, ReturnMoves
  <2> QED BY <2>1, <2>2, CloneStaysStages DEF OffBase, HasBranch
<1>6. CASE Refused(h)
  <2>1. RefusedByGit(h) /\ BreakOff(h) /\ UNCHANGED <<clone, failures, restarts>>
    BY <1>6 DEF Refused
  <2>2. OnlyMoves(h)
    BY <1>1, <2>1, BreakOffMoves
  <2>3. handler[h].pc \in {"base", "pull", "create"}
    BY <2>1 DEF RefusedByGit, At
  <2> QED BY <2>1, <2>2, <2>3, CloneStaysStages DEF OffBase, HasBranch
<1> QED BY <1>2, <1>3, <1>4, <1>5, <1>6, CheckOutBaseStages, PullStages, CreateBranchStages,
           WriteFileStages, AddStages, CommitStages, RestoreStages DEF GitStep

LEMMA NextStages ==
  ASSUME GitInStep, StagedInTurn, [Next]_vars
  PROVE  StagedInTurn'
<1>1. ASSUME UNCHANGED <<clone, handler, failures, restarts>>
      PROVE  StagedInTurn'
  BY <1>1 DEF StagedInTurn, Unbroken, HeadTree, At, OffBase, HasBranch
<1>2. CASE UNCHANGED vars
  BY <1>1, <1>2 DEF vars
<1>3. ASSUME NEW r \in RequestId, NEW f \in Filing, File(r, f)
      PROVE  StagedInTurn'
  BY <1>1, <1>3 DEF File
<1>4. ASSUME NEW h \in Handler, NEW r \in RequestId, StartProcessing(h, r)
      PROVE  StagedInTurn'
  <2>1. UNCHANGED <<clone, failures, restarts>> /\ handler[h].pc = "idle"
    BY <1>4 DEF StartProcessing, At
  <2>2. CASE UNCHANGED handler
    BY <1>1, <2>1, <2>2
  <2>3. CASE ~UNCHANGED handler
    <3>1. OnlyMoves(h)
      <4>1. \A k \in Handler \ {h} : handler'[k] = handler[k]
        BY <1>4, <2>3 DEF StartProcessing, GitInStep, GitShapes
      <4>2. handler' \in [Handler -> HandlerState]
        BY <1>4, StartProcessingInStep DEF GitInStep, GitShapes
      <4> QED BY <4>1, <4>2 DEF OnlyMoves
    <3> QED BY <2>1, <3>1, CloneStaysStages DEF OffBase, HasBranch
  <2> QED BY <2>2, <2>3
<1>5. ASSUME NEW h \in Handler, GitStep(h)
      PROVE  StagedInTurn'
  BY <1>5, GitStepStages
<1>6. ASSUME NEW h \in Handler, Fail(h)
      PROVE  StagedInTurn'
  <2>1. failures' # 0
    BY <1>6 DEF Fail, GitInStep, GitShapes
  <2> QED BY <2>1 DEF StagedInTurn, Unbroken
<1>7. CASE Stop
  <2>1. restarts' # 0
    BY <1>7 DEF Stop, Restart, GitInStep, GitShapes
  <2> QED BY <2>1 DEF StagedInTurn, Unbroken
<1>8. ASSUME NEW b \in DOMAIN proposal, NEW state \in {"merged", "closed"}, Settle(b, state)
      PROVE  StagedInTurn'
  BY <1>1, <1>8 DEF Settle
<1>9. CASE EditTerraform
  BY <1>1, <1>9 DEF EditTerraform
<1>10. ASSUME NEW b \in DOMAIN proposal, NEW p \in Path, EnterByHand(b, p)
       PROVE  StagedInTurn'
  BY <1>1, <1>10 DEF EnterByHand
<1>11. CASE NextDay
  BY <1>1, <1>11 DEF NextDay
<1> QED BY <1>2, <1>3, <1>4, <1>5, <1>6, <1>7, <1>8, <1>9, <1>10, <1>11 DEF Next

\* However calls overlap: once all have ended, nothing they wrote or staged is
\* left and the base branch is checked out, unless a command failed or the
\* server stopped (the finally block, git add and commit).
THEOREM CallsLeaveItReady == Spec => []CloneIsReady
<1>1. Init => StagedInTurn
  <2> SUFFICES ASSUME Init PROVE StagedInTurn
    OBVIOUS
  <2>1. IsRepository(origin) /\ clone = FreshClone(origin)
    BY InitInStep DEF Init, GitInStep, GitShapes
  <2>2. /\ clone.head = Base /\ clone.index = origin[Base].tree /\ clone.work = origin[Base].tree
        /\ clone.branch[Base] = [tree |-> origin[Base].tree, fork |-> origin[Base].tree]
    BY <2>1, FreshCloneIsSound
  <2>3. HeadTree = origin[Base].tree
    BY <2>2 DEF HeadTree
  <2> QED BY <2>2, <2>3 DEF StagedInTurn
<1>2. GitInStep /\ StagedInTurn /\ [Next]_vars => StagedInTurn'
  BY NextStages
<1>3. StagedInTurn => CloneIsReady
  BY DEF StagedInTurn, Unbroken, CloneIsReady, Clean, Dirty, At, OffBase, HasBranch
<1> QED BY <1>1, <1>2, <1>3, CallsKeepInStep, PTL DEF Spec

-----------------------------------------------------------------------------
(* A call that nobody disturbs                                             *)

LEMMA AloneWhenCalm ==
  ASSUME OneAtATime, Calm, NEW h \in Handler, handler[h].pc # "idle"
  PROVE  /\ FindsItsOwn(h) /\ \A g \in Handler \ {h} : handler[g].pc = "idle"
         /\ clone.branch[Base].tree = clone.branch[Base].fork
         /\ \A b \in DOMAIN clone.branch \ {Base} : ChangesOnly(clone.branch[b], DocumentOf(b[1]))
         /\ \A b \in DOMAIN origin \ {Base} : ChangesOnly(origin[b], DocumentOf(b[1]))
BY DEF OneAtATime, At

\* What has to be shown of a step of the one call there is.
LEMMA StaysAlone ==
  ASSUME OneAtATime, Calm, NEW h \in Handler, handler[h].pc # "idle", OnlyMoves(h),
         UNCHANGED filed,
         clone'.branch[Base].tree = clone'.branch[Base].fork,
         \A b \in DOMAIN clone'.branch \ {Base} : ChangesOnly(clone'.branch[b], DocumentOf(b[1])),
         \A b \in DOMAIN origin' \ {Base} : ChangesOnly(origin'[b], DocumentOf(b[1])),
         FindsItsOwn(h)'
  PROVE  OneAtATime'
<1>1. \A g \in Handler \ {h} : handler'[g] = handler[g] /\ handler'[g].pc = "idle"
  BY AloneWhenCalm DEF OnlyMoves
<1>2. \A r : DocumentOf(r)' = DocumentOf(r)
  BY DEF DocumentOf
<1>3. ASSUME NEW g \in Handler, \A k \in Handler \ {g} : handler'[k].pc = "idle"
      PROVE  FindsItsOwn(g)'
  <2>1. CASE g = h
    BY <2>1
  <2>2. CASE g # h
    <3>1. handler'[h].pc = "idle" /\ handler'[g].pc = "idle"
      BY <1>1, <1>3, <2>2
    <3>2. clone'.index = HeadTree' /\ clone'.work = HeadTree' /\ clone'.head = Base
      BY <3>1 DEF FindsItsOwn, OffBase, HasBranch
    <3> QED BY <3>1, <3>2 DEF FindsItsOwn, OffBase, HasBranch
  <2> QED BY <2>1, <2>2
<1> QED BY <1>1, <1>2, <1>3 DEF OneAtATime, At

\* In a clean clone a check-out or a pull leaves nothing behind.
LEMMA CleanCarry ==
  ASSUME clone.index = HeadTree, clone.work = HeadTree, NEW tree \in Tree, NEW from
  PROVE  (\A p : ~Dirty(p)) /\ Carry(from, tree) = tree
<1>1. \A p : ~Dirty(p)
  BY DEF Dirty
<1>2. tree = [p \in RepoPath |-> tree[p]]
  BY DEF Tree
<1> QED BY <1>1, <1>2 DEF Carry

LEMMA CheckOutBaseAlone ==
  ASSUME GitInStep, OneAtATime, Calm, NEW h \in Handler, CheckOutBase(h)
  PROVE  OneAtATime'
<1> DEFINE tree == clone.branch[Base].tree
<1>1. IsClone(clone) /\ handler \in [Handler -> HandlerState]
  BY DEF GitInStep, GitShapes
<1>2. handler[h].pc = "base" /\ GoTo(h, "pull") /\ UNCHANGED <<filed, origin>>
  BY DEF CheckOutBase, At
<1>3. OnlyMoves(h) /\ handler'[h].pc = "pull"
  BY <1>1, <1>2, GoToMoves DEF Place
<1>4. /\ clone.index = HeadTree /\ clone.work = HeadTree
  BY <1>2, AloneWhenCalm DEF FindsItsOwn
<1>5. tree \in Tree
  BY <1>1, CloneFields
<1> HIDE DEF tree
<1>6. Carry(clone.index, tree) = tree /\ Carry(clone.work, tree) = tree
  BY <1>4, <1>5, CleanCarry
<1>7. /\ clone'.head = Base /\ clone'.branch = clone.branch
      /\ clone'.index = tree /\ clone'.work = tree
  BY <1>1, <1>6, BaseCheckedOut DEF tree
<1>8. HeadTree' = tree
  BY <1>7 DEF HeadTree, tree
<1>9. FindsItsOwn(h)'
  BY <1>3, <1>7, <1>8 DEF FindsItsOwn, OffBase, HasBranch
<1> QED BY <1>2, <1>3, <1>7, <1>9, AloneWhenCalm, StaysAlone

LEMMA PullAlone ==
  ASSUME GitInStep, OneAtATime, Calm, NEW h \in Handler, Pull(h)
  PROVE  OneAtATime'
<1> DEFINE b == clone.branch[clone.head]
           theirs == origin[Base].tree
<1>1. /\ IsClone(clone) /\ IsRepository(origin) /\ handler \in [Handler -> HandlerState]
      /\ theirs \in Tree
  BY DEF GitInStep, GitShapes, IsRepository, BranchRow
<1>2. handler[h].pc = "pull" /\ UNCHANGED <<filed, origin>>
  BY DEF Pull, At
<1>3. clone.index = HeadTree /\ clone.work = HeadTree /\ clone.head = Base /\ b.tree = b.fork
  BY <1>2, AloneWhenCalm DEF FindsItsOwn, OffBase, HasBranch
<1>4. /\ clone'.head = Base /\ DOMAIN clone'.branch = DOMAIN clone.branch /\ GoTo(h, "list")
      /\ clone'.branch[Base].tree = clone'.branch[Base].fork
      /\ \A c \in DOMAIN clone.branch \ {Base} : clone'.branch[c] = clone.branch[c]
      /\ clone'.index = clone'.branch[Base].tree /\ clone'.work = clone'.branch[Base].tree
  <2>1. Carry(clone.index, theirs) = theirs /\ Carry(clone.work, theirs) = theirs
    <3> HIDE DEF theirs
    <3> QED BY <1>1, <1>3, CleanCarry
  <2>2. CASE clone' = clone
    BY <1>1, <1>3, <2>2, BasePulled DEF HeadTree
  <2>3. CASE /\ clone'.branch[clone.head] = [tree |-> theirs, fork |-> theirs]
             /\ \A c \in DOMAIN clone.branch \ {clone.head} : clone'.branch[c] = clone.branch[c]
             /\ clone'.index = Carry(clone.index, theirs) /\ clone'.work = Carry(clone.work, theirs)
    BY <1>1, <1>3, <2>1, <2>3, BasePulled
  <2> QED BY <1>1, <2>2, <2>3, BasePulled
<1> HIDE DEF theirs, b
<1>5. OnlyMoves(h) /\ handler'[h].pc = "list"
  BY <1>1, <1>4, GoToMoves DEF Place
<1>6. HeadTree' = clone'.branch[Base].tree
  BY <1>4 DEF HeadTree
<1>7. FindsItsOwn(h)'
  BY <1>4, <1>5, <1>6 DEF FindsItsOwn, OffBase, HasBranch
<1> QED BY <1>2, <1>4, <1>5, <1>7, AloneWhenCalm, StaysAlone

LEMMA CreateBranchAlone ==
  ASSUME GitInStep, OneAtATime, Calm, NEW h \in Handler, CreateBranch(h)
  PROVE  OneAtATime'
<1>1. /\ IsClone(clone) /\ handler \in [Handler -> HandlerState]
      /\ IsFiniteSet(handler[h].taken) /\ handler[h].request \in RequestId
      /\ handler[h].pc = "create" /\ UNCHANGED <<filed, origin>>
  BY DEF CreateBranch, At, GitInStep, GitShapes, HandlerInStep
<1>2. PICK b \in Branch :
        /\ b # Base /\ b \notin DOMAIN clone.branch
        /\ clone'.head = b /\ DOMAIN clone'.branch = DOMAIN clone.branch \cup {b}
        /\ clone'.branch[b] = clone.branch[clone.head]
        /\ \A c \in DOMAIN clone.branch : clone'.branch[c] = clone.branch[c]
        /\ clone'.index = clone.index /\ clone'.work = clone.work
        /\ handler' = [handler EXCEPT ![h].pc = "write", ![h].branch = b, ![h].taken = {}]
  BY <1>1, BranchCreated
<1>3. OnlyMoves(h) /\ handler'[h].pc = "write" /\ handler'[h].branch = b
  BY <1>1, <1>2, CreateMoves
<1>4. /\ clone.index = HeadTree /\ clone.work = HeadTree /\ clone.head = Base
      /\ clone.branch[Base].tree = clone.branch[Base].fork
  BY <1>1, AloneWhenCalm DEF FindsItsOwn, OffBase, HasBranch
<1>5. HeadTree' = HeadTree /\ Base \in DOMAIN clone.branch
  BY <1>1, <1>2, CloneFields DEF HeadTree
<1>6. FindsItsOwn(h)'
  BY <1>2, <1>3, <1>4, <1>5 DEF FindsItsOwn, OffBase, HasBranch, HeadTree
<1>7. \A c \in DOMAIN clone'.branch \ {Base} : ChangesOnly(clone'.branch[c], DocumentOf(c[1]))
  <2>1. ChangesOnly(clone'.branch[b], DocumentOf(b[1]))
    BY <1>2, <1>4 DEF ChangesOnly
  <2> QED BY <1>1, <1>2, <2>1, AloneWhenCalm
<1>8. clone'.branch[Base].tree = clone'.branch[Base].fork
  BY <1>1, <1>2, <1>4, <1>5, AloneWhenCalm
<1> QED BY <1>1, <1>3, <1>6, <1>7, <1>8, AloneWhenCalm, StaysAlone

LEMMA WriteFileAlone ==
  ASSUME GitInStep, OneAtATime, Calm, NEW h \in Handler, WriteFile(h)
  PROVE  OneAtATime'
<1> DEFINE d == handler[h].document
<1>1. /\ IsClone(clone) /\ handler \in [Handler -> HandlerState] /\ handler[h].pc = "write"
      /\ FilePath(d) \in Path /\ SoundAt(FilePath(d), d)
      /\ GoTo(h, "add") /\ UNCHANGED <<filed, origin>>
  BY DEF WriteFile, At, GitInStep, GitShapes, HandlerInStep
<1>2. /\ clone'.head = clone.head /\ clone'.branch = clone.branch /\ clone'.index = clone.index
      /\ clone'.work = With(clone.work, d)
  BY <1>1, FileWritten
<1>3. /\ OnlyMoves(h) /\ handler'[h].pc = "add" /\ handler'[h].branch = handler[h].branch
      /\ handler'[h].document = d
  BY <1>1, GoToMoves DEF Place
<1>4. HeadTree' = HeadTree
  BY <1>2 DEF HeadTree
<1>5. FindsItsOwn(h)'
  <2>1. /\ clone.head = handler[h].branch /\ handler[h].branch # Base
        /\ HeadTree = clone.branch[clone.head].fork
        /\ clone.index = HeadTree /\ clone.work = HeadTree
    BY <1>1, AloneWhenCalm DEF FindsItsOwn, OffBase, HasBranch
  <2> HIDE DEF d
  <2> QED BY <1>2, <1>3, <1>4, <2>1 DEF FindsItsOwn, OffBase, HasBranch
<1> QED BY <1>1, <1>2, <1>3, <1>5, AloneWhenCalm, StaysAlone

LEMMA AddAlone ==
  ASSUME GitInStep, OneAtATime, Calm, NEW h \in Handler, Add(h)
  PROVE  OneAtATime'
<1> DEFINE d == handler[h].document
           p0 == FilePath(d)
<1>1. /\ IsClone(clone) /\ handler \in [Handler -> HandlerState] /\ handler[h].pc = "add"
      /\ p0 \in Path /\ GoTo(h, "commit") /\ UNCHANGED <<filed, origin>>
  BY DEF Add, At, GitInStep, GitShapes, HandlerInStep
<1>2. /\ clone'.head = clone.head /\ clone'.branch = clone.branch
      /\ clone'.index = [clone.index EXCEPT ![p0] = clone.work[p0]]
      /\ clone'.work = clone.work
  BY <1>1, FileAdded
<1>3. /\ OnlyMoves(h) /\ handler'[h].pc = "commit" /\ handler'[h].branch = handler[h].branch
      /\ handler'[h].document = d
  BY <1>1, GoToMoves DEF Place
<1>4. HeadTree' = HeadTree
  BY <1>2 DEF HeadTree
<1>5. /\ clone.head = handler[h].branch /\ handler[h].branch # Base
      /\ HeadTree = clone.branch[clone.head].fork
      /\ clone.index = HeadTree /\ clone.work = With(HeadTree, d)
  BY <1>1, AloneWhenCalm DEF FindsItsOwn, OffBase, HasBranch
<1>6. clone'.index = With(HeadTree, d)
  <2>1. p0 \in DOMAIN HeadTree
    BY <1>1, CloneFields, TerraformHasNoPath DEF Tree
  <2>2. clone.work[p0] = d
    BY <1>5, <2>1 DEF With
  <2> QED BY <1>2, <1>5, <2>2 DEF With
<1>7. FindsItsOwn(h)'
  <2> HIDE DEF d, p0
  <2> QED BY <1>2, <1>3, <1>4, <1>5, <1>6 DEF FindsItsOwn, OffBase, HasBranch
<1> QED BY <1>1, <1>2, <1>3, <1>7, AloneWhenCalm, StaysAlone

LEMMA CommitAlone ==
  ASSUME GitInStep, OneAtATime, Calm, NEW h \in Handler, Commit(h)
  PROVE  OneAtATime'
<1> DEFINE d == handler[h].document
           b == handler[h].branch
<1>1. /\ IsClone(clone) /\ handler \in [Handler -> HandlerState] /\ handler[h].pc = "commit"
      /\ GoTo(h, "push") /\ UNCHANGED <<filed, origin>>
      /\ d = DocumentOf(b[1])
  BY DEF Commit, At, GitInStep, GitShapes, HandlerInStep, HasBranch
<1>2. /\ clone'.head = clone.head /\ DOMAIN clone'.branch = DOMAIN clone.branch
      /\ clone'.branch[clone.head].tree = clone.index
      /\ clone'.branch[clone.head].fork = clone.branch[clone.head].fork
      /\ \A c \in DOMAIN clone.branch \ {clone.head} : clone'.branch[c] = clone.branch[c]
      /\ clone'.index = clone.index /\ clone'.work = clone.work
  BY <1>1, StagedIsCommitted
<1>3. /\ OnlyMoves(h) /\ handler'[h].pc = "push" /\ handler'[h].branch = b
  BY <1>1, GoToMoves DEF Place
<1>4. HeadTree' = clone.index
  BY <1>2 DEF HeadTree
<1>5. /\ clone.head = b /\ b # Base /\ HeadTree = clone.branch[clone.head].fork
      /\ clone.index = With(HeadTree, d) /\ clone.work = With(HeadTree, d)
  BY <1>1, AloneWhenCalm DEF FindsItsOwn, OffBase, HasBranch
<1>6. ChangesOnly(clone'.branch[b], DocumentOf(b[1]))
  <2> HIDE DEF d
  <2>1. DOMAIN HeadTree = RepoPath
    BY <1>1, CloneFields DEF Tree
  <2>2. \A p \in RepoPath : clone.index[p] # HeadTree[p] => p = FilePath(d) /\ clone.index[p] = d
    BY <1>5, <2>1 DEF With
  <2> QED BY <1>1, <1>2, <1>5, <2>2 DEF ChangesOnly
<1>7. FindsItsOwn(h)'
  <2> HIDE DEF d, b
  <2> QED BY <1>2, <1>3, <1>4, <1>5 DEF FindsItsOwn, OffBase, HasBranch
<1>8. \A c \in DOMAIN clone'.branch \ {Base} : ChangesOnly(clone'.branch[c], DocumentOf(c[1]))
  BY <1>1, <1>2, <1>5, <1>6, AloneWhenCalm
<1>9. clone'.branch[Base].tree = clone'.branch[Base].fork
  BY <1>1, <1>2, <1>5, CloneFields, AloneWhenCalm
<1> QED BY <1>1, <1>3, <1>7, <1>8, <1>9, AloneWhenCalm, StaysAlone

LEMMA PushAlone ==
  ASSUME GitInStep, OneAtATime, Calm, NEW h \in Handler, Push(h)
  PROVE  OneAtATime'
<1> DEFINE b == handler[h].branch
<1>1. /\ IsClone(clone) /\ IsRepository(origin) /\ clone.tracking = DOMAIN origin
      /\ handler \in [Handler -> HandlerState] /\ handler[h].pc = "push"
      /\ b \in DOMAIN clone.branch /\ GoTo(h, "propose") /\ UNCHANGED filed
  BY DEF Push, At, GitInStep, GitShapes, HandlerInStep
<1>2. /\ clone'.head = clone.head /\ clone'.branch = clone.branch /\ clone'.index = clone.index
      /\ clone'.work = clone.work
      /\ DOMAIN origin' = DOMAIN origin \cup {b} /\ origin'[b] = clone.branch[b]
      /\ \A c \in DOMAIN origin \ {b} : origin'[c] = origin[c]
  BY <1>1, BranchPushed
<1>3. /\ OnlyMoves(h) /\ handler'[h].pc = "propose" /\ handler'[h].branch = b
  BY <1>1, GoToMoves DEF Place
<1>4. HeadTree' = HeadTree
  BY <1>2 DEF HeadTree
<1>5. /\ clone.head = b /\ b # Base /\ clone.index = HeadTree /\ clone.work = HeadTree
  BY <1>1, AloneWhenCalm DEF FindsItsOwn, OffBase, HasBranch
<1>6. FindsItsOwn(h)'
  BY <1>2, <1>3, <1>4, <1>5 DEF FindsItsOwn, OffBase, HasBranch
<1>7. \A c \in DOMAIN origin' \ {Base} : ChangesOnly(origin'[c], DocumentOf(c[1]))
  BY <1>1, <1>2, <1>5, AloneWhenCalm
<1> QED BY <1>1, <1>2, <1>3, <1>6, <1>7, AloneWhenCalm, StaysAlone

LEMMA RestoreAlone ==
  ASSUME GitInStep, OneAtATime, Calm, NEW h \in Handler, Restore(h)
  PROVE  OneAtATime'
<1> DEFINE tree == clone.branch[Base].tree
<1>1. /\ IsClone(clone) /\ handler \in [Handler -> HandlerState] /\ handler[h].pc = "restore"
      /\ Return(h) \/ GoTo(h, "record")
      /\ UNCHANGED <<filed, origin>>
  BY DEF Restore, AfterTry, At, GitInStep, GitShapes
<1>2. OnlyMoves(h) /\ handler'[h].pc \in {"idle", "record"}
  BY <1>1, ReturnMoves, GoToMoves, IdleIsAState DEF Place
<1>3. clone.index = HeadTree /\ clone.work = HeadTree
  BY <1>1, AloneWhenCalm DEF FindsItsOwn
<1>4. tree \in Tree
  BY <1>1, CloneFields
<1> HIDE DEF tree
<1>5. /\ \A p : ~Dirty(p)
      /\ Carry(clone.index, tree) = tree /\ Carry(clone.work, tree) = tree
  BY <1>3, <1>4, CleanCarry
<1>6. CanCheckOut(tree)
  BY <1>3, <1>5 DEF CanCheckOut
<1>7. /\ clone'.head = Base /\ clone'.branch = clone.branch
      /\ clone'.index = tree /\ clone'.work = tree
  BY <1>1, <1>5, <1>6, BaseRestored DEF tree
<1>8. HeadTree' = tree
  BY <1>7 DEF HeadTree, tree
<1>9. FindsItsOwn(h)'
  BY <1>2, <1>7, <1>8 DEF FindsItsOwn, OffBase, HasBranch
<1> QED BY <1>1, <1>2, <1>7, <1>9, AloneWhenCalm, StaysAlone

\* Commands that leave the clone as it is.
LEMMA CloneStaysAlone ==
  ASSUME GitInStep, OneAtATime, Calm, NEW h \in Handler, handler[h].pc # "idle", OnlyMoves(h),
         UNCHANGED <<filed, clone, origin>>,
         \/ handler[h].pc \notin OffBase /\ handler'[h].pc \notin OffBase
         \/ /\ handler[h].pc = "propose" /\ handler'[h].pc = "restore"
            /\ handler'[h].branch = handler[h].branch
  PROVE  OneAtATime'
<1>1. HeadTree' = HeadTree
  BY DEF HeadTree
<1>2. FindsItsOwn(h)
  BY AloneWhenCalm
<1>3. FindsItsOwn(h)'
  BY <1>1, <1>2 DEF FindsItsOwn, OffBase, HasBranch
<1> QED BY <1>3, AloneWhenCalm, StaysAlone

LEMMA GitStepAlone ==
  ASSUME GitInStep, OneAtATime, Calm, NEW h \in Handler, GitStep(h)
  PROVE  OneAtATime'
<1>1. handler \in [Handler -> HandlerState] /\ IsClone(clone)
  BY DEF GitInStep, GitShapes
<1>2. CASE ListBranches(h)
  <2>1. /\ handler' = [handler EXCEPT ![h].pc = "create", ![h].taken = KnownBranches]
        /\ handler[h].pc = "list" /\ UNCHANGED <<filed, clone, origin>>
    BY <1>2 DEF ListBranches, At
  <2>2. KnownBranches \subseteq Branch
    BY DEF KnownBranches, GitInStep, GitShapes, IsClone, IsRepository
  <2>3. OnlyMoves(h) /\ handler'[h].pc = "create"
    <3> HIDE DEF KnownBranches
    <3> QED BY <1>1, <2>1, <2>2 DEF OnlyMoves, HandlerState, Place
  <2> QED BY <2>1, <2>3, CloneStaysAlone DEF OffBase, HasBranch
<1>3. CASE Propose(h)
  <2>1. handler[h].pc = "propose" /\ GoTo(h, "restore") /\ UNCHANGED <<filed, clone, origin>>
    BY <1>3 DEF Propose, At
  <2>2. OnlyMoves(h) /\ handler'[h].pc = "restore" /\ handler'[h].branch = handler[h].branch
    BY <1>1, <2>1, GoToMoves DEF Place
  <2> QED BY <2>1, <2>2, CloneStaysAlone DEF OffBase, HasBranch
<1>4. CASE Record(h)
  <2>1. handler[h].pc = "record" /\ Return(h) /\ UNCHANGED <<filed, clone, origin>>
    BY <1>4 DEF Record, At
  <2>2. OnlyMoves(h) /\ handler'[h].pc = "idle"
    BY <1>1, <2>1, ReturnMoves, IdleIsAState
  <2> QED BY <2>1, <2>2, CloneStaysAlone DEF OffBase, HasBranch
<1>5. CASE Refused(h)
  <2>1. RefusedByGit(h) /\ BreakOff(h) /\ UNCHANGED <<filed, clone, origin>>
    BY <1>5 DEF Refused
  <2>2. handler[h].pc \in {"base", "pull", "create"}
    BY <2>1 DEF RefusedByGit, At
  <2>3. OnlyMoves(h) /\ handler'[h].pc = "idle"
    BY <1>1, <2>1, <2>2, BreakOffMoves, IdleIsAState DEF HasBranch
  <2> QED BY <2>1, <2>2, <2>3, CloneStaysAlone DEF OffBase, HasBranch
<1> QED BY <1>2, <1>3, <1>4, <1>5, CheckOutBaseAlone, PullAlone, CreateBranchAlone, WriteFileAlone,
           AddAlone, CommitAlone, PushAlone, RestoreAlone DEF GitStep

\* Steps that change the base branch of origin alone, and no call.
LEMMA BaseMovesAlone ==
  ASSUME GitInStep, OneAtATime, Calm,
         DOMAIN origin' \subseteq DOMAIN origin,
         \A b \in DOMAIN origin \ {Base} : origin'[b] = origin[b],
         UNCHANGED <<clone, handler>>,
         \A r \in DOMAIN filed : DocumentOf(r)' = DocumentOf(r)
  PROVE  OneAtATime'
<1>1. \A b \in (DOMAIN clone.branch \cup DOMAIN origin) \ {Base} :
        DocumentOf(b[1])' = DocumentOf(b[1])
  BY DEF GitInStep, BranchesHaveRequests
<1>2. HeadTree' = HeadTree
  BY DEF HeadTree
<1>3. ASSUME NEW h \in Handler, FindsItsOwn(h)
      PROVE  FindsItsOwn(h)'
  BY <1>2, <1>3 DEF FindsItsOwn
<1>4. \A h \in Handler : At(h, "idle")' <=> At(h, "idle")
  BY DEF At
<1>5. /\ \A g, h \in Handler : g # h => At(g, "idle") \/ At(h, "idle")
      /\ clone.branch[Base].tree = clone.branch[Base].fork
      /\ \A b \in DOMAIN clone.branch \ {Base} : ChangesOnly(clone.branch[b], DocumentOf(b[1]))
      /\ \A b \in DOMAIN origin \ {Base} : ChangesOnly(origin[b], DocumentOf(b[1]))
      /\ \A h \in Handler : (\A g \in Handler \ {h} : At(g, "idle")) => FindsItsOwn(h)
  BY DEF OneAtATime
<1>6. \A b \in DOMAIN clone'.branch \ {Base} : ChangesOnly(clone'.branch[b], DocumentOf(b[1])')
  BY <1>1, <1>5
<1>7. \A b \in DOMAIN origin' \ {Base} : ChangesOnly(origin'[b], DocumentOf(b[1])')
  BY <1>1, <1>5
<1>8. \A h \in Handler : (\A g \in Handler \ {h} : At(g, "idle")') => FindsItsOwn(h)'
  BY <1>3, <1>4, <1>5
<1>9. /\ \A g, h \in Handler : g # h => At(g, "idle")' \/ At(h, "idle")'
      /\ clone'.branch[Base].tree = clone'.branch[Base].fork
  BY <1>4, <1>5
<1> QED BY <1>6, <1>7, <1>8, <1>9 DEF OneAtATime

LEMMA StartProcessingAlone ==
  ASSUME GitInStep, OneAtATime, Calm, NEW h \in Handler, NEW r \in RequestId,
         StartProcessing(h, r), ~overlapped'
  PROVE  OneAtATime'
<1>1. /\ \A g \in Handler : handler[g].pc = "idle"
      /\ UNCHANGED <<filed, clone, origin>>
  BY DEF StartProcessing, At
<1>2. \A p : DocumentOf(p)' = DocumentOf(p)
  BY <1>1 DEF DocumentOf
<1>3. CASE UNCHANGED handler
  BY <1>1, <1>2, <1>3, BaseMovesAlone
<1>4. CASE ~UNCHANGED handler
  <2>1. /\ \A k \in Handler \ {h} : handler'[k] = handler[k]
        /\ handler'[h].pc = "base"
    BY <1>4 DEF StartProcessing, GitInStep, GitShapes, Idle
  <2>2. FindsItsOwn(h) /\ HeadTree' = HeadTree
    BY <1>1 DEF OneAtATime, At, HeadTree
  <2>3. FindsItsOwn(h)'
    BY <1>1, <2>1, <2>2 DEF FindsItsOwn, OffBase, HasBranch
  <2>4. /\ \A g, k \in Handler : g # k => At(g, "idle")' \/ At(k, "idle")'
        /\ \A k \in Handler : (\A g \in Handler \ {k} : At(g, "idle")') => FindsItsOwn(k)'
    BY <1>1, <2>1, <2>3 DEF At
  <2>5. /\ clone'.branch[Base].tree = clone'.branch[Base].fork
        /\ \A b \in DOMAIN clone'.branch \ {Base} : ChangesOnly(clone'.branch[b], DocumentOf(b[1])')
        /\ \A b \in DOMAIN origin' \ {Base} : ChangesOnly(origin'[b], DocumentOf(b[1])')
    BY <1>1, <1>2 DEF OneAtATime
  <2> QED BY <2>4, <2>5 DEF OneAtATime
<1> QED BY <1>3, <1>4

LEMMA NextAlone ==
  ASSUME GitInStep, OneAtATime, [Next]_vars
  PROVE  OneAtATime'
<1> SUFFICES ASSUME Calm' PROVE OneAtATime'
  BY DEF OneAtATime
<1>1. /\ failures \in Nat /\ restarts \in Nat /\ overlapped \in BOOLEAN
      /\ IsRepository(origin) /\ origin \in [DOMAIN origin -> BranchRow]
  BY DEF GitInStep, GitShapes, IsRepository
<1>2. CASE UNCHANGED vars
  BY <1>2, BaseMovesAlone DEF vars, Calm, DocumentOf
<1>3. ASSUME NEW r \in RequestId, NEW f \in Filing, File(r, f)
      PROVE  OneAtATime'
  <2>1. Calm /\ UNCHANGED <<clone, handler, origin>>
    BY <1>3 DEF File, Calm
  <2>2. \A q \in DOMAIN filed : filed'[q] = filed[q]
    BY <1>3 DEF File, Put
  <2>3. \A q \in DOMAIN filed : DocumentOf(q)' = DocumentOf(q)
    BY <2>2 DEF DocumentOf
  <2> QED BY <2>1, <2>3, BaseMovesAlone
<1>4. ASSUME NEW h \in Handler, NEW r \in RequestId, StartProcessing(h, r)
      PROVE  OneAtATime'
  <2>1. Calm /\ ~overlapped'
    BY <1>4 DEF StartProcessing, Calm
  <2> QED BY <1>4, <2>1, StartProcessingAlone
<1>5. ASSUME NEW h \in Handler, GitStep(h)
      PROVE  OneAtATime'
  <2>1. UNCHANGED <<overlapped, failures, restarts>>
    BY <1>5 DEF GitStep, CheckOutBase, Pull, ListBranches, CreateBranch, WriteFile, Add, Commit,
       Push, Propose, Restore, Record, Refused
  <2> QED BY <1>5, <2>1, GitStepAlone DEF Calm
<1>6. ASSUME NEW h \in Handler, Fail(h)
      PROVE  OneAtATime'
  BY <1>1, <1>6 DEF Fail, Calm
<1>7. CASE Stop
  BY <1>1, <1>7 DEF Stop, Restart, Calm
<1>8. ASSUME UNCHANGED <<filed, clone, handler, overlapped, failures, restarts>>,
             DOMAIN origin' = DOMAIN origin,
             \A b \in DOMAIN origin \ {Base} : origin'[b] = origin[b]
      PROVE  OneAtATime'
  BY <1>8, BaseMovesAlone DEF Calm, DocumentOf
<1>9. ASSUME NEW b \in DOMAIN proposal, NEW state \in {"merged", "closed"}, Settle(b, state)
      PROVE  OneAtATime'
  <2>1. /\ UNCHANGED <<filed, clone, handler, overlapped, failures, restarts>>
        /\ \/ UNCHANGED origin
           \/ \E row : origin' = [origin EXCEPT ![Base] = row]
    BY <1>9 DEF Settle
  <2> QED BY <1>1, <1>8, <2>1
<1>10. CASE EditTerraform
  <2>1. /\ UNCHANGED <<filed, clone, handler, overlapped, failures, restarts>>
        /\ \E row : origin' = [origin EXCEPT ![Base] = row]
    BY <1>10 DEF EditTerraform
  <2> QED BY <1>1, <1>8, <2>1
<1>11. ASSUME NEW b \in DOMAIN proposal, NEW p \in Path, EnterByHand(b, p)
       PROVE  OneAtATime'
  <2>1. /\ UNCHANGED <<filed, clone, handler, overlapped, failures, restarts>>
        /\ \E row : origin' = [origin EXCEPT ![Base] = row]
    BY <1>11 DEF EnterByHand
  <2> QED BY <1>1, <1>8, <2>1
<1>12. CASE NextDay
  BY <1>8, <1>12 DEF NextDay
<1> QED BY <1>2, <1>3, <1>4, <1>5, <1>6, <1>7, <1>9, <1>10, <1>11, <1>12 DEF Next

\* When no two calls overlapped, none failed and the server ran, a merge request
\* changes the one file of its own request, or nothing: what an earlier call, the
\* maintainers or a pull brought never shows in it (commitAndOpenMergeRequest).
THEOREM MergeRequestsAreTheirOwn == Spec => []OwnFilesOnly
<1>1. Init => OneAtATime
  <2> SUFFICES ASSUME Init PROVE OneAtATime
    OBVIOUS
  <2>1. IsRepository(origin)
    BY InitInStep DEF GitInStep, GitShapes
  <2>2. clone = FreshClone(origin) /\ DOMAIN origin = {Base}
    BY DEF Init, Put
  <2>3. /\ clone.head = Base /\ clone.index = origin[Base].tree /\ clone.work = origin[Base].tree
        /\ DOMAIN clone.branch = {Base}
        /\ clone.branch[Base] = [tree |-> origin[Base].tree, fork |-> origin[Base].tree]
    BY <2>1, <2>2, FreshCloneIsSound
  <2>4. HeadTree = origin[Base].tree
    BY <2>3 DEF HeadTree
  <2>5. \A h \in Handler : handler[h].pc = "idle"
    BY DEF Init, Idle
  <2> QED BY <2>2, <2>3, <2>4, <2>5 DEF OneAtATime, At, FindsItsOwn, OffBase, HasBranch
<1>2. GitInStep /\ OneAtATime /\ [Next]_vars => OneAtATime'
  BY NextAlone
<1>3. OneAtATime => OwnFilesOnly
  BY DEF OneAtATime, Calm, OwnFilesOnly, ChangesOnly, DocumentOf
<1> QED BY <1>1, <1>2, <1>3, CallsKeepInStep, PTL DEF Spec
=============================================================================
