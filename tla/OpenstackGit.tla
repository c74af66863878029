----------------------------- MODULE OpenstackGit -----------------------------
(***************************************************************************)
(* How an approved request becomes a merge request: one clone of the       *)
(* OpenStack repository, shared by every handler, and the repository on    *)
(* GitLab (origin).                                                        *)
(*                                                                         *)
(* Each git command of commitAndOpenMergeRequest is a step; the commands   *)
(* of two handlers interleave, any of them may reject, and the server may  *)
(* stop between two of them.  A tree maps the Terraform file set and the   *)
(* YAML files to their contents.  A branch remembers the tree it was last  *)
(* in step with (fork), which is what a merge compares it to.  Git itself  *)
(* is modelled as far as these commands use it: a check-out carries        *)
(* changed files along unless the two commits differ in them, a pull moves *)
(* whatever branch is checked out forward to origin's base branch.  Nobody *)
(* tells git how to reconcile branches (pull.rebase, pull.ff), so that it  *)
(* refuses to pull into one that has gone its own way and merges nothing.  *)
(***************************************************************************)
EXTENDS OpenstackDocument

CONSTANTS
  Handler,
  RequestId,       \* ids of the requests that may be filed
  Filing,          \* what may be filed: [project, payload, requestors]
  TerraformAt,     \* version of the Terraform files -> [flavors, networks]
  Path,            \* paths of YAML files
  Missing,         \* the content of a path without a file
  MaxSuffix, MaxBranches, MaxDay, MaxTerraform,
  MaxMishaps       \* days, edits, failures and restarts there may be in all

ASSUME GitAssumption ==
  /\ RequestId \subseteq Nat \ {0}
  /\ MaxSuffix \in Nat /\ MaxBranches \in Nat /\ MaxDay \in Nat
  /\ MaxTerraform \in Nat \ {0} /\ MaxMishaps \in Nat

\* Quotas are numbers, lists are sequences, and every document has its path.
ASSUME FilingAssumption ==
  \A f \in Filing :
    /\ \A k \in DOMAIN f.payload.quota : f.payload.quota[k] \in Int
    /\ f.payload.disableDate \in Int
    /\ \A names \in {f.payload.external, f.payload.shared} :
         Len(names) \in Nat /\ DOMAIN names = 1..Len(names)
    /\ FilePath(BuildYaml(f.payload, f.project, f.requestors)) \in Path

VARIABLES
  today,
  filed,         \* request id -> what was filed, on which day, under which catalogue
  processed,     \* requests whose row was updated with a merge request
  refused,       \* requests that were approved and then refused
  catalog,       \* version of the Terraform files the server loaded
  clone,         \* [head, branch, index, work, tracking]
  origin,        \* branch -> [tree, fork]
  proposal,      \* branch -> the state of its merge request
  handler,
  overlapped,    \* whether two calls were ever under way at once
  failures, restarts

vars == <<today, filed, processed, refused, catalog, clone, origin, proposal,
          handler, overlapped, failures, restarts>>

Terraform == <<"terraform", <<>>>>
Base == <<0, 0>>
\* zeus/<project>-<request id>, with a suffix if that is taken.
Branch == {Base} \cup (RequestId \X Nat)
RepoPath == Path \cup {Terraform}

ASSUME PathAssumption == Terraform \notin Path

Put(f, x, y) == [z \in DOMAIN f \cup {x} |-> IF z = x THEN y ELSE f[z]]

EmptyTree == [p \in RepoPath |-> IF p = Terraform THEN 1 ELSE Missing]

CatalogOf ==
  [version \in 1..MaxTerraform |->
     [flavors |-> Loaded(TerraformAt[version].flavors),
      networks |-> Loaded(TerraformAt[version].networks)]]

FreshClone(remote) ==
  [head |-> Base, index |-> remote[Base].tree, work |-> remote[Base].tree,
   branch |-> Put(<<>>, Base, [tree |-> remote[Base].tree, fork |-> remote[Base].tree]),
   tracking |-> DOMAIN remote]

Idle == [pc |-> "idle", request |-> 0, branch |-> Base, taken |-> {}, document |-> Missing,
         failed |-> FALSE]

Init ==
  /\ today = 0
  /\ filed = <<>>
  /\ processed = {}
  /\ refused = {}
  /\ catalog = 1
  /\ origin = Put(<<>>, Base, [tree |-> EmptyTree, fork |-> EmptyTree])
  /\ clone = FreshClone(origin)
  /\ proposal = <<>>
  /\ handler = [h \in Handler |-> Idle]
  /\ overlapped = FALSE
  /\ failures = 0
  /\ restarts = 0

\* The files on the base branch the maintainers have entered themselves.
HandMade == {p \in Path : LET d == origin[Base].tree[p] IN d # Missing /\ d.disableDate = Unlimited}

\* One more day, edit, failure or restart; the Terraform files start as version 1.
OneMore ==
  today + failures + restarts + origin[Base].tree[Terraform] + Cardinality(HandMade) <= MaxMishaps

-----------------------------------------------------------------------------
(* Git.                                                                    *)

HeadTree == clone.branch[clone.head].tree

Dirty(p) == clone.work[p] # HeadTree[p] \/ clone.index[p] # HeadTree[p]

Clean == \A p \in RepoPath : ~Dirty(p)

\* A changed file stands in the way unless both commits have the same version
\* of it, or it was already staged as the target has it.
CanCheckOut(tree) ==
  \A p \in RepoPath : Dirty(p) =>
    \/ tree[p] = HeadTree[p]
    \/ clone.index[p] = tree[p] /\ clone.work[p] = tree[p]

Carry(from, tree) == [p \in RepoPath |-> IF Dirty(p) THEN from[p] ELSE tree[p]]

CheckedOut(b, tree) ==
  [clone EXCEPT !.head = b, !.index = Carry(clone.index, tree), !.work = Carry(clone.work, tree)]

MergeOf(b, theirs) ==
  [p \in RepoPath |-> IF theirs[p] = b.fork[p] THEN b.tree[p] ELSE theirs[p]]

Conflicts(b, theirs) ==
  \E p \in RepoPath : /\ theirs[p] # b.fork[p] /\ b.tree[p] # b.fork[p]
                      /\ theirs[p] # b.tree[p]

\* Commits of a branch need no merge if there are none, or if its merge request
\* was merged without rewriting them; commits that cancel out count as none.
MayForward(b, theirs) == MergeOf(b, theirs) = theirs /\ CanCheckOut(theirs)
MustForward(b, theirs) == b.tree = b.fork /\ CanCheckOut(theirs)

-----------------------------------------------------------------------------
(* Filing a request (the check of AllocationService.request and            *)
(* modifyOpenstackAllocation) and processing it once it is approved.       *)

At(h, place) == handler[h].pc = place

GoTo(h, place) == handler' = [handler EXCEPT ![h].pc = place]

Return(h) == handler' = [handler EXCEPT ![h] = Idle]

File(r, f) ==
  /\ r \notin DOMAIN filed
  /\ \A q \in RequestId : q < r => q \in DOMAIN filed
  /\ ValidPayload(f.payload, CatalogOf[catalog], today)
  /\ filed' = Put(filed, r, [filing |-> f, day |-> today, catalog |-> catalog])
  /\ UNCHANGED <<today, processed, refused, catalog, clone, origin, proposal, handler, overlapped, failures, restarts>>

CanBuild(f) ==
  /\ ValidPayload(f.payload, CatalogOf[catalog], today)
  /\ Contacts(f.project) # {}
  /\ LabelsResolve(f.payload)
  /\ NormalQuota(f.payload.quota)

\* Branches made for these requests, and calls that may make one.
BranchesOf(requests) ==
  Cardinality({b \in DOMAIN clone.branch \cup DOMAIN origin : b[1] \in requests}) +
  Cardinality({h \in Handler : handler[h].request \in requests})

\* An approved request is looked up, checked again and made a document.
StartProcessing(h, r) ==
  /\ At(h, "idle")
  /\ r \in DOMAIN filed \ processed
  /\ BranchesOf({r}) <= MaxSuffix /\ BranchesOf(RequestId) < MaxBranches
  /\ LET f == filed[r].filing
     IN  IF CanBuild(f)
         THEN /\ handler' = [handler EXCEPT ![h] =
                   [Idle EXCEPT !.pc = "base", !.request = r,
                                !.document = BuildYaml(f.payload, f.project, f.requestors)]]
              /\ UNCHANGED refused
         ELSE refused' = refused \cup {r} /\ UNCHANGED handler
  /\ overlapped' = (overlapped \/ \E g \in Handler : ~At(g, "idle"))
  /\ UNCHANGED <<today, filed, processed, catalog, clone, origin, proposal, failures, restarts>>

-----------------------------------------------------------------------------
(* commitAndOpenMergeRequest, one git command or GitLab call a step.       *)

\* fetch, then check out the base branch: nobody lists branches in between but
\* finds the same, since only this clone pushes any.
CheckOutBase(h) ==
  /\ At(h, "base")
  /\ CanCheckOut(clone.branch[Base].tree)
  /\ clone' = [CheckedOut(Base, clone.branch[Base].tree) EXCEPT !.tracking = @ \cup DOMAIN origin]
  /\ GoTo(h, "pull")
  /\ UNCHANGED <<today, filed, processed, refused, catalog, origin, proposal, overlapped, failures, restarts>>

\* Into the branch that is checked out by now.
Pull(h) ==
  LET b == clone.branch[clone.head]
      theirs == origin[Base].tree
  IN  /\ At(h, "pull")
      /\ \/ theirs = b.fork /\ UNCHANGED clone
         \/ /\ theirs # b.fork /\ MayForward(b, theirs)
            /\ clone' = [CheckedOut(clone.head, theirs) EXCEPT
                           !.branch[clone.head] = [tree |-> theirs, fork |-> theirs]]
      /\ GoTo(h, "list")
      /\ UNCHANGED <<today, filed, processed, refused, catalog, origin, proposal, overlapped, failures, restarts>>

KnownBranches == DOMAIN clone.branch \cup clone.tracking

\* prepareBranch looks first and creates later.
ListBranches(h) ==
  /\ At(h, "list")
  /\ handler' = [handler EXCEPT ![h].pc = "create", ![h].taken = KnownBranches]
  /\ UNCHANGED <<today, filed, processed, refused, catalog, clone, origin, proposal, overlapped, failures, restarts>>

\* The first that is free; no more than all of them can be taken.
FreeSuffix(r, taken) == Min({k \in 0..Cardinality(taken) : <<r, k>> \notin taken})

\* The branch is made, and not checked out.
CreateBranchOnly(h) ==
  LET b == <<handler[h].request, FreeSuffix(handler[h].request, handler[h].taken)>>
  IN  /\ At(h, "create")
      /\ b \notin DOMAIN clone.branch
      /\ clone' = [clone EXCEPT !.branch = Put(clone.branch, b, clone.branch[clone.head])]
      /\ handler' = [handler EXCEPT ![h].pc = "write", ![h].branch = b, ![h].taken = {}]
      /\ UNCHANGED <<today, filed, processed, refused, catalog, origin, proposal, overlapped, failures, restarts>>

\* The name is returned as it was before the suffix.
CreateBranchUnsuffixed(h) ==
  LET b == <<handler[h].request, FreeSuffix(handler[h].request, handler[h].taken)>>
  IN  /\ At(h, "create")
      /\ b \notin DOMAIN clone.branch
      /\ clone' = [clone EXCEPT !.head = b,
                     !.branch = Put(clone.branch, b, clone.branch[clone.head])]
      /\ handler' = [handler EXCEPT ![h].pc = "write", ![h].branch = <<handler[h].request, 0>>,
                                    ![h].taken = {}]
      /\ UNCHANGED <<today, filed, processed, refused, catalog, origin, proposal, overlapped, failures, restarts>>

\* A repeated approval takes the branch of the first one up again.
CreateOrReuseBranch(h) ==
  LET b == <<handler[h].request, 0>>
  IN  /\ At(h, "create")
      /\ clone' = IF b \in DOMAIN clone.branch THEN CheckedOut(b, clone.branch[b].tree)
                  ELSE [clone EXCEPT !.head = b,
                          !.branch = Put(clone.branch, b, clone.branch[clone.head])]
      /\ handler' = [handler EXCEPT ![h].pc = "write", ![h].branch = b, ![h].taken = {}]
      /\ UNCHANGED <<today, filed, processed, refused, catalog, origin, proposal, overlapped, failures, restarts>>

\* checkoutLocalBranch: from whatever is checked out; it rejects a name in use.
CreateBranch(h) ==
  LET b == <<handler[h].request, FreeSuffix(handler[h].request, handler[h].taken)>>
  IN  /\ At(h, "create")
      /\ b \notin DOMAIN clone.branch
      /\ clone' = [clone EXCEPT !.head = b,
                     !.branch = Put(clone.branch, b, clone.branch[clone.head])]
      /\ handler' = [handler EXCEPT ![h].pc = "write", ![h].branch = b, ![h].taken = {}]
      /\ UNCHANGED <<today, filed, processed, refused, catalog, origin, proposal, overlapped, failures, restarts>>

WriteFile(h) ==
  /\ At(h, "write")
  /\ clone' = [clone EXCEPT !.work[FilePath(handler[h].document)] = handler[h].document]
  /\ GoTo(h, "add")
  /\ UNCHANGED <<today, filed, processed, refused, catalog, origin, proposal, overlapped, failures, restarts>>

\* What the file holds by now is staged, whoever wrote it.
Add(h) ==
  LET p == FilePath(handler[h].document)
  IN  /\ At(h, "add")
      /\ clone' = [clone EXCEPT !.index[p] = clone.work[p]]
      /\ GoTo(h, "commit")
      /\ UNCHANGED <<today, filed, processed, refused, catalog, origin, proposal, overlapped, failures, restarts>>

\* Everything staged goes to the branch that is checked out.  A clean tree, which
\* the code does not commit, has nothing staged; neither rejects.
Commit(h) ==
  /\ At(h, "commit")
  /\ clone' = [clone EXCEPT !.branch[clone.head].tree = clone.index]
  /\ GoTo(h, "push")
  /\ UNCHANGED <<today, filed, processed, refused, catalog, origin, proposal, overlapped, failures, restarts>>

\* The name was free, so the branch is new to origin.
Push(h) ==
  LET b == handler[h].branch
  IN  /\ At(h, "push")
      /\ origin' = Put(origin, b, clone.branch[b])
      /\ clone' = [clone EXCEPT !.tracking = @ \cup {b}]
      /\ GoTo(h, "propose")
      /\ UNCHANGED <<today, filed, processed, refused, catalog, proposal, overlapped, failures, restarts>>

\* ensureMergeRequest: an open one for this branch is edited, else one is created.
Propose(h) ==
  LET b == handler[h].branch
  IN  /\ At(h, "propose")
      /\ proposal' = Put(proposal, b, "opened")
      /\ GoTo(h, "restore")
      /\ UNCHANGED <<today, filed, processed, refused, catalog, clone, origin, overlapped, failures, restarts>>

\* The error is thrown on, or the URL returned.
AfterTry(h) == IF handler[h].failed THEN Return(h) ELSE GoTo(h, "record")

LeaveBranch(h) ==
  /\ At(h, "restore")
  /\ AfterTry(h)
  /\ UNCHANGED <<today, filed, processed, refused, catalog, clone, origin, proposal, overlapped, failures, restarts>>

\* The finally block: a check-out that rejects is logged, the result stands.
Restore(h) ==
  LET base == clone.branch[Base].tree
  IN  /\ At(h, "restore")
      /\ clone' = IF CanCheckOut(base) THEN CheckedOut(Base, base) ELSE clone
      /\ AfterTry(h)
      /\ UNCHANGED <<today, filed, processed, refused, catalog, origin, proposal, overlapped, failures, restarts>>

Record(h) ==
  /\ At(h, "record")
  /\ processed' = processed \cup {handler[h].request}
  /\ Return(h)
  /\ UNCHANGED <<today, filed, refused, catalog, clone, origin, proposal, overlapped, failures, restarts>>

\* Inside the try block the finally block still runs, whose own check-out may
\* reject without consequence.
BreakOff(h) ==
  CASE handler[h].pc \in {"write", "add", "commit", "push", "propose"} ->
         handler' = [handler EXCEPT ![h].pc = "restore", ![h].failed = TRUE]
    [] At(h, "restore") -> AfterTry(h)
    [] OTHER -> Return(h)

\* A command that rejects.
Fail(h) ==
  /\ ~At(h, "idle")
  /\ OneMore
  /\ failures' = failures + 1
  /\ BreakOff(h)
  /\ UNCHANGED <<today, filed, processed, refused, catalog, clone, origin, proposal, overlapped, restarts>>

\* A command git refuses is a failure that needs no bad luck.
RefusedByGit(h) ==
  \/ At(h, "base") /\ ~CanCheckOut(clone.branch[Base].tree)
  \/ /\ At(h, "pull") /\ origin[Base].tree # clone.branch[clone.head].fork
     /\ ~MustForward(clone.branch[clone.head], origin[Base].tree)
  \/ /\ At(h, "create")
     /\ <<handler[h].request, FreeSuffix(handler[h].request, handler[h].taken)>>
          \in DOMAIN clone.branch

Refused(h) ==
  /\ RefusedByGit(h)
  /\ BreakOff(h)
  /\ UNCHANGED <<today, filed, processed, refused, catalog, clone, origin, proposal, overlapped, failures, restarts>>

-----------------------------------------------------------------------------
(* The server stops and starts; the maintainers; the calendar.             *)

\* The catalogue is read from the working tree, whatever is checked out there.
Restart(tree) ==
  /\ OneMore
  /\ restarts' = restarts + 1
  /\ handler' = [h \in Handler |-> Idle]
  /\ clone' = tree
  /\ catalog' = tree.work[Terraform]
  /\ UNCHANGED <<today, filed, processed, refused, origin, proposal, overlapped, failures>>

\* The clone outlives the server, or a new container gets a new one.
Stop == Restart(clone) \/ Restart(FreshClone(origin))

Settle(b, state) ==
  /\ b \in DOMAIN proposal /\ proposal[b] = "opened"
  /\ proposal' = [proposal EXCEPT ![b] = state]
  /\ IF state = "merged"
     THEN /\ ~Conflicts(origin[b], origin[Base].tree)
          /\ LET merged == MergeOf(origin[b], origin[Base].tree)
             IN  origin' = [origin EXCEPT ![Base] = [tree |-> merged, fork |-> merged]]
     ELSE UNCHANGED origin
  /\ UNCHANGED <<today, filed, processed, refused, catalog, clone, handler, overlapped, failures, restarts>>

EditTerraform ==
  /\ OneMore /\ origin[Base].tree[Terraform] < MaxTerraform
  /\ LET edited == [origin[Base].tree EXCEPT ![Terraform] = @ + 1]
     IN  origin' = [origin EXCEPT ![Base] = [tree |-> edited, fork |-> edited]]
  /\ UNCHANGED <<today, filed, processed, refused, catalog, clone, proposal, handler, overlapped, failures, restarts>>

\* They enter what a merge request proposes on the base branch, with another date.
EnterByHand(b, p) ==
  /\ b \in DOMAIN proposal /\ proposal[b] = "opened"
  /\ OneMore
  /\ LET d == origin[b].tree[p]
         entered == [origin[Base].tree EXCEPT ![p] = [d EXCEPT !.disableDate = Unlimited]]
     IN  /\ d # Missing /\ d.disableDate # Unlimited
         /\ origin' = [origin EXCEPT ![Base] = [tree |-> entered, fork |-> entered]]
  /\ UNCHANGED <<today, filed, processed, refused, catalog, clone, proposal, handler, overlapped, failures, restarts>>

NextDay ==
  /\ OneMore /\ today < MaxDay
  /\ today' = today + 1
  /\ UNCHANGED <<filed, processed, refused, catalog, clone, origin, proposal, handler, overlapped, failures, restarts>>

GitStep(h) ==
  \/ CheckOutBase(h) \/ Pull(h) \/ ListBranches(h) \/ CreateBranch(h)
  \/ WriteFile(h) \/ Add(h) \/ Commit(h) \/ Push(h) \/ Propose(h)
  \/ Restore(h) \/ Record(h) \/ Refused(h)

Next ==
  \/ \E r \in RequestId, f \in Filing : File(r, f)
  \/ \E h \in Handler, r \in RequestId : StartProcessing(h, r)
  \/ \E h \in Handler : GitStep(h) \/ Fail(h)
  \/ Stop
  \/ \E b \in DOMAIN proposal, state \in {"merged", "closed"} : Settle(b, state)
  \/ EditTerraform
  \/ \E b \in DOMAIN proposal, p \in Path : EnterByHand(b, p)
  \/ NextDay

Spec == Init /\ [][Next]_vars

-----------------------------------------------------------------------------
(* Properties.                                                             *)

Documents ==
  LET built == {BuildYaml(f.payload, f.project, f.requestors) : f \in Filing}
  IN  built \cup {[d EXCEPT !.disableDate = Unlimited] : d \in built}

IsTree(t) ==
  /\ DOMAIN t = RepoPath
  /\ t[Terraform] \in 1..MaxTerraform
  /\ \A p \in Path : t[p] = Missing \/ t[p] \in Documents

\* The shapes of the repository, of its clone and of the calls under way.
TypeOK ==
  /\ today \in 0..MaxDay /\ catalog \in 1..MaxTerraform
  /\ DOMAIN filed \subseteq RequestId /\ processed \subseteq DOMAIN filed
  /\ \A b \in DOMAIN origin : b \in Branch /\ IsTree(origin[b].tree) /\ IsTree(origin[b].fork)
  /\ \A b \in DOMAIN clone.branch : b \in Branch /\ IsTree(clone.branch[b].tree)
  /\ IsTree(clone.index) /\ IsTree(clone.work)
  /\ clone.head \in DOMAIN clone.branch /\ clone.tracking \subseteq DOMAIN origin
  /\ DOMAIN proposal \subseteq DOMAIN origin \ {Base}
  /\ \A h \in Handler : handler[h].branch \in DOMAIN clone.branch

Offered == [v \in 1..MaxTerraform |-> Catalog(CatalogOf[v])]

\* Every YAML file on GitLab lies where its own name and domain say, gives its
\* roles to the group of that name, and asks for nothing the server did not
\* offer under a catalogue it has read, whatever calls got in each other's way
\* (buildYaml, writeYamlFile, OpenstackConstraintsService).
DocumentsAreSound ==
  \A b \in DOMAIN origin, p \in Path : origin[b].tree[p] # Missing =>
    LET d == origin[b].tree[p]
    IN  /\ FilePath(d) = p /\ d.entitledTo = d.name
        /\ d.contacts # {}
        /\ \A k \in DOMAIN d.quota : d.quota[k] > 0
        /\ \E v \in 1..MaxTerraform :
             LET offered == Offered[v]
             IN  /\ d.domain \in offered.domains
                 /\ DOMAIN d.quota \subseteq offered.quotaKeys
                 /\ {d.flavors[i] : i \in DOMAIN d.flavors} \subseteq offered.flavors
                 /\ \A nets \in {d.external, d.shared} :
                      /\ {nets[i] : i \in DOMAIN nets} \subseteq offered.networks
                      /\ Cardinality({nets[i] : i \in DOMAIN nets}) = Len(nets)

\* A request that was accepted when it was filed is refused after its approval
\* only for what filing does not check (quota values, tags, contacts), because
\* its end has passed since, or because a restarted server reads another
\* catalogue than it was filed under (validateRequestPayload runs at both times,
\* normalizeQuota and resolveLabels only at the second).
RefusalsHaveALateCause ==
  [][\A r \in refused' \ refused :
       LET f == filed[r].filing
       IN  \/ \E k \in DOMAIN f.payload.quota : f.payload.quota[k] < 1
           \/ ~LabelsResolve(f.payload)
           \/ Contacts(f.project) = {}
           \/ f.payload.disableDate \in filed[r].day..(today - 1)
           \/ restarts > 0 /\ catalog # filed[r].catalog]_vars

\* As long as no two calls overlapped, none failed and the server ran, what a
\* merge request would change is the one file of its own request, or nothing.
OwnFilesOnly ==
  ~overlapped /\ failures = 0 /\ restarts = 0 =>
    \A b \in DOMAIN origin \ {Base} : \A p \in RepoPath :
      origin[b].tree[p] # origin[b].fork[p] =>
        LET f == filed[b[1]].filing
            d == BuildYaml(f.payload, f.project, f.requestors)
        IN  p = FilePath(d) /\ origin[b].tree[p] = d

\* When every call has ended, the clone is clean and on the base branch, even
\* if calls overlapped: what is needed for the next one to find it as it should
\* be (the finally block of commitAndOpenMergeRequest).
CloneIsReady ==
  (failures = 0 /\ restarts = 0 /\ \A h \in Handler : At(h, "idle")) =>
    clone.head = Base /\ Clean

\* A merge request that was merged or closed is not taken up again: a repeated
\* approval makes a branch of its own, in a fresh clone too (prepareBranch).
SettledStaysSettled ==
  [][\A b \in DOMAIN proposal : proposal[b] # "opened" => proposal'[b] = proposal[b]]_vars
=============================================================================
