---------------------- MODULE OpenstackAllocationProofs ----------------------
(***************************************************************************)
(* HandlersInStep is an invariant of the allocation handlers for every     *)
(* choice of the constants, and with it every step of theirs is a step of  *)
(* the request ledger or leaves the ledger alone.  The safety properties   *)
(* of the ledger then hold of the handlers.                                *)
(*                                                                         *)
(* An action touches the handler that takes it and, at most, adds a row or *)
(* rewrites one.  TablesGrow says what such a change never takes away;     *)
(* whatever the other handlers remember survives it.                       *)
(*                                                                         *)
(* The last parts prove what AllocationMeetings promises of any number of  *)
(* handlers: what one read is still so when it uses it, unless it met the  *)
(* one kind of handler that may change it.                                 *)
(***************************************************************************)
EXTENDS AllocationMeetings, FiniteSetTheorems, TLAPS

TablesGrow ==
  /\ DOMAIN allocation \subseteq DOMAIN allocation'
  /\ DOMAIN request \subseteq DOMAIN request'
  /\ DOMAIN mergeRequest \subseteq DOMAIN mergeRequest'
  /\ \A r \in DOMAIN request :
       /\ request'[r].allocation = request[r].allocation
       /\ request'[r].domain = request[r].domain
       /\ request[r].status # "pending" => request'[r].status # "pending"
  /\ \A m \in DOMAIN mergeRequest : mergeRequest'[m].request = mergeRequest[m].request

OnlyMoves(h) ==
  /\ handler' \in [Handler -> HandlerState]
  /\ \A k \in Handler \ {h} : handler'[k] = handler[k]

-----------------------------------------------------------------------------
(* Tables                                                                  *)

LEMMA NextIdIsFresh ==
  ASSUME NEW table, NEW id \in Nat, IsNextId(table, id)
  PROVE  id \notin DOMAIN table
BY DEF IsNextId

\* One more row leaves the others as they are.
LEMMA InsertAllocation ==
  ASSUME TypeOK, NEW a \in AllocationId, NEW row \in AllocationRow,
         IsNextId(allocation, a), allocation' = Insert(allocation, a, row)
  PROVE  /\ DOMAIN allocation' = DOMAIN allocation \cup {a}
         /\ allocation' \in [DOMAIN allocation' -> AllocationRow]
<1>1. allocation \in [DOMAIN allocation -> AllocationRow]
  BY DEF TypeOK
<1> QED BY <1>1 DEF Insert

LEMMA InsertRequest ==
  ASSUME TypeOK, NEW r \in RequestId, NEW row \in RequestRow,
         IsNextId(request, r), request' = Insert(request, r, row)
  PROVE  /\ r \notin DOMAIN request
         /\ DOMAIN request' = DOMAIN request \cup {r}
         /\ request' \in [DOMAIN request' -> RequestRow]
         /\ request'[r] = row
         /\ \A q \in DOMAIN request : request'[q] = request[q]
<1>1. r \notin DOMAIN request
  BY NextIdIsFresh DEF RequestId
<1>2. request \in [DOMAIN request -> RequestRow]
  BY DEF TypeOK
<1> QED BY <1>1, <1>2 DEF Insert

\* A verdict on one request.
LEMMA RewriteStatus ==
  ASSUME request \in [DOMAIN request -> RequestRow], NEW r \in DOMAIN request,
         NEW verdict \in {"approved", "denied"},
         request' = [request EXCEPT ![r].status = verdict]
  PROVE  /\ DOMAIN request' = DOMAIN request
         /\ request' \in [DOMAIN request -> RequestRow]
         /\ \A q \in DOMAIN request :
              /\ request'[q].allocation = request[q].allocation
              /\ request'[q].domain = request[q].domain
              /\ request[q].status # "pending" => request'[q].status # "pending"
<1>1. \A q \in DOMAIN request : request[q] \in RequestRow
  OBVIOUS
<1> QED BY <1>1 DEF RequestRow, RequestStatus

LEMMA InsertMergeRequest ==
  ASSUME TypeOK, NEW m \in MergeRequestId, NEW row \in MergeRequestRow,
         IsNextId(mergeRequest, m), mergeRequest' = Insert(mergeRequest, m, row)
  PROVE  /\ m \notin DOMAIN mergeRequest
         /\ DOMAIN mergeRequest' = DOMAIN mergeRequest \cup {m}
         /\ mergeRequest' \in [DOMAIN mergeRequest' -> MergeRequestRow]
         /\ mergeRequest'[m] = row
         /\ \A k \in DOMAIN mergeRequest : mergeRequest'[k] = mergeRequest[k]
<1>1. m \notin DOMAIN mergeRequest
  BY NextIdIsFresh DEF MergeRequestId
<1>2. mergeRequest \in [DOMAIN mergeRequest -> MergeRequestRow]
  BY DEF TypeOK
<1> QED BY <1>1, <1>2 DEF Insert

LEMMA RewriteUrl ==
  ASSUME request \in [DOMAIN request -> RequestRow], NEW r \in DOMAIN request,
         NEW url \in MergeRequestId,
         request' = [request EXCEPT ![r] = MarkedProcessed(@, url)]
  PROVE  /\ DOMAIN request' = DOMAIN request
         /\ request' \in [DOMAIN request -> RequestRow]
         /\ \A q \in DOMAIN request :
              /\ request'[q].allocation = request[q].allocation
              /\ request'[q].domain = request[q].domain
              /\ request'[q].status = request[q].status
<1>1. \A q \in DOMAIN request : request[q] \in RequestRow
  OBVIOUS
<1>2. MarkedProcessed(request[r], url) \in RequestRow
  BY <1>1 DEF RequestRow, MarkedProcessed
<1>3. request' = [q \in DOMAIN request |-> IF q = r THEN MarkedProcessed(request[r], url)
                                                 ELSE request[q]]
  OBVIOUS
<1>4. /\ MarkedProcessed(request[r], url).allocation = request[r].allocation
      /\ MarkedProcessed(request[r], url).domain = request[r].domain
      /\ MarkedProcessed(request[r], url).status = request[r].status
  BY <1>1 DEF RequestRow, MarkedProcessed
<1> HIDE DEF MarkedProcessed
<1> QED BY <1>1, <1>2, <1>3, <1>4

LEMMA OthersStayInStep ==
  ASSUME TablesGrow, NEW k \in Handler, InStep(k), handler'[k] = handler[k]
  PROVE  InStep(k)'
BY DEF TablesGrow, InStep, RequestsOf

LEMMA StepKeepsHandlers ==
  ASSUME HandlersInStep, NEW h \in Handler,
         TablesGrow, OnlyMoves(h), TypeOK', RowsLinked', InStep(h)'
  PROVE  HandlersInStep'
<1>1. \A k \in Handler \ {h} : InStep(k)'
  BY OthersStayInStep DEF HandlersInStep, OnlyMoves
<1> QED BY <1>1 DEF HandlersInStep

\* A step that only moves a handler.
LEMMA QuietStep ==
  ASSUME HandlersInStep, NEW h \in Handler, UNCHANGED <<allocation, request, mergeRequest>>,
         failures' \in Nat, OnlyMoves(h), InStep(h)'
  PROVE  HandlersInStep'
<1>1. TablesGrow
  BY DEF TablesGrow
<1>2. TypeOK' /\ RowsLinked'
  BY DEF HandlersInStep, TypeOK, RowsLinked, OnlyMoves
<1> QED BY <1>1, <1>2, StepKeepsHandlers

LEMMA IdleInStep ==
  /\ Idle \in HandlerState
  /\ Idle.pc = "idle"
BY DEF Idle, HandlerState, ProgramCounter

LEMMA ReturnInStep ==
  ASSUME TypeOK, NEW h \in Handler, Return(h)
  PROVE  OnlyMoves(h) /\ InStep(h)'
<1>1. handler'[h] = Idle /\ OnlyMoves(h)
  BY IdleInStep DEF TypeOK, Return, OnlyMoves
<1>2. InStep(h)'
  BY <1>1, IdleInStep DEF InStep
<1> QED BY <1>1, <1>2

\* The fields a handler keeps when it moves on.
LEMMA Move ==
  ASSUME TypeOK, NEW h \in Handler, NEW pc \in ProgramCounter,
         handler' = [handler EXCEPT ![h].pc = pc]
  PROVE  /\ OnlyMoves(h)
         /\ handler'[h].pc = pc
         /\ handler'[h].allocation = handler[h].allocation
         /\ handler'[h].decision = handler[h].decision
         /\ handler'[h].request = handler[h].request
         /\ handler'[h].domain = handler[h].domain
         /\ handler'[h].wasActive = handler[h].wasActive
BY DEF TypeOK, HandlerState, OnlyMoves

LEMMA MoveWithRequest ==
  ASSUME TypeOK, NEW h \in Handler, NEW pc \in ProgramCounter, NEW r \in RequestId \cup {0},
         handler' = [handler EXCEPT ![h].pc = pc, ![h].request = r]
  PROVE  /\ OnlyMoves(h)
         /\ handler'[h].pc = pc
         /\ handler'[h].request = r
         /\ handler'[h].allocation = handler[h].allocation
         /\ handler'[h].decision = handler[h].decision
         /\ handler'[h].wasActive = handler[h].wasActive
BY DEF TypeOK, HandlerState, OnlyMoves

LEMMA MoveWithUrl ==
  ASSUME TypeOK, NEW h \in Handler, NEW pc \in ProgramCounter,
         NEW url \in MergeRequestId \cup {0},
         handler' = [handler EXCEPT ![h].pc = pc, ![h].url = url]
  PROVE  /\ OnlyMoves(h)
         /\ handler'[h].pc = pc
         /\ handler'[h].url = url
         /\ handler'[h].request = handler[h].request
         /\ handler'[h].allocation = handler[h].allocation
         /\ handler'[h].decision = handler[h].decision
         /\ handler'[h].wasActive = handler[h].wasActive
BY DEF TypeOK, HandlerState, OnlyMoves

LEMMA MoveWithDomain ==
  ASSUME TypeOK, NEW h \in Handler, NEW pc \in ProgramCounter, NEW d \in Domain,
         handler' = [handler EXCEPT ![h].pc = pc, ![h].domain = d]
  PROVE  /\ OnlyMoves(h)
         /\ handler'[h].pc = pc
         /\ handler'[h].domain = d
         /\ handler'[h].allocation = handler[h].allocation
BY DEF TypeOK, HandlerState, OnlyMoves

LEMMA InitInStep == Init => HandlersInStep
<1> SUFFICES ASSUME Init PROVE HandlersInStep
  OBVIOUS
<1>1. TypeOK /\ RowsLinked
  BY IdleInStep DEF Init, TypeOK, RowsLinked, EmptyTable
<1>2. \A h \in Handler : InStep(h)
  BY IdleInStep DEF Init, InStep
<1> QED BY <1>1, <1>2 DEF HandlersInStep

-----------------------------------------------------------------------------
(* AllocationService.request                                               *)

LEMMA RequestAllocationInStep ==
  ASSUME HandlersInStep, NEW h \in Handler, NEW p \in Project, NEW res \in Resource,
         RequestAllocation(h, p, res)
  PROVE  HandlersInStep'
<1> DEFINE s == [Idle EXCEPT !.pc = "insert", !.project = p, !.resource = res]
<1>1. s \in HandlerState /\ s.pc = "insert" /\ s.project = p /\ s.resource = res
  BY DEF Idle, HandlerState, ProgramCounter
<1>2. handler' = [handler EXCEPT ![h] = s]
  BY DEF RequestAllocation
<1>3. handler'[h] = s /\ OnlyMoves(h)
  BY <1>1, <1>2 DEF HandlersInStep, TypeOK, OnlyMoves
<1>4. InStep(h)'
  BY <1>1, <1>3 DEF InStep
<1> QED BY <1>3, <1>4, QuietStep DEF RequestAllocation, HandlersInStep, TypeOK

LEMMA CommitRequestInStep ==
  ASSUME HandlersInStep, NEW h \in Handler, CommitRequest(h)
  PROVE  HandlersInStep'
<1>1. PICK a \in AllocationId :
        /\ IsNextId(allocation, a)
        /\ allocation' = Insert(allocation, a, NewAllocation(handler[h].project, handler[h].resource))
        /\ IF handler[h].resource \in CloudResource
           THEN \E r \in RequestId, d \in Domain :
                  /\ IsNextId(request, r)
                  /\ request' = Insert(request, r, PendingRequest(a, d))
           ELSE request' = request
  BY DEF CommitRequest
<1>2. OnlyMoves(h) /\ InStep(h)'
  BY ReturnInStep DEF CommitRequest, HandlersInStep
<1>3. UNCHANGED <<mergeRequest, failures>>
  BY DEF CommitRequest
<1>4. /\ DOMAIN allocation' = DOMAIN allocation \cup {a}
      /\ allocation' \in [DOMAIN allocation' -> AllocationRow]
  <2>1. NewAllocation(handler[h].project, handler[h].resource) \in AllocationRow
    BY DEF CommitRequest, At, HandlersInStep, InStep, NewAllocation, AllocationRow,
           AllocationStatus
  <2> QED BY <1>1, <2>1, InsertAllocation DEF HandlersInStep
<1>5. CASE request' = request
  <2>1. TablesGrow /\ RowsLinked'
    BY <1>3, <1>4, <1>5 DEF TablesGrow, HandlersInStep, RowsLinked
  <2>2. TypeOK'
    BY <1>2, <1>3, <1>4, <1>5 DEF HandlersInStep, TypeOK, OnlyMoves
  <2> QED BY <1>2, <2>1, <2>2, StepKeepsHandlers
<1>6. CASE request' # request
  <2>1. PICK r \in RequestId, d \in Domain :
          IsNextId(request, r) /\ request' = Insert(request, r, PendingRequest(a, d))
    BY <1>1, <1>6
  <2>2. PendingRequest(a, d) \in RequestRow /\ PendingRequest(a, d).allocation = a
    BY DEF PendingRequest, RequestRow, RequestStatus
  <2>4. /\ DOMAIN request' = DOMAIN request \cup {r}
        /\ request' \in [DOMAIN request' -> RequestRow]
        /\ request'[r].allocation = a
        /\ \A q \in DOMAIN request : request'[q] = request[q]
    BY <2>1, <2>2, InsertRequest DEF HandlersInStep
  <2>5. TablesGrow /\ RowsLinked'
    BY <1>3, <1>4, <2>4 DEF TablesGrow, HandlersInStep, RowsLinked
  <2>6. TypeOK'
    BY <1>2, <1>3, <1>4, <2>4 DEF HandlersInStep, TypeOK, OnlyMoves
  <2> QED BY <1>2, <2>5, <2>6, StepKeepsHandlers
<1> QED BY <1>5, <1>6

-----------------------------------------------------------------------------
(* AllocationService.setStatus                                             *)

LEMMA SetStatusInStep ==
  ASSUME HandlersInStep, NEW h \in Handler, NEW a \in DOMAIN allocation, NEW d \in Decision,
         SetStatus(h, a, d)
  PROVE  HandlersInStep'
<1> DEFINE s == [Idle EXCEPT !.pc = "latest", !.allocation = a, !.decision = d,
                            !.wasActive = allocation[a].status = "active"]
<1>1. a \in AllocationId /\ d \in AllocationStatus
  BY AllocationAssumption DEF HandlersInStep, TypeOK, AllocationStatus
<1>2. s \in HandlerState /\ s.pc = "latest" /\ s.allocation = a /\ s.decision = d
  BY <1>1 DEF Idle, HandlerState, ProgramCounter
<1>3. handler' = [handler EXCEPT ![h] = s]
  BY DEF SetStatus
<1>4. handler'[h] = s /\ OnlyMoves(h)
  BY <1>2, <1>3 DEF HandlersInStep, TypeOK, OnlyMoves
<1>5. UNCHANGED <<allocation, request, mergeRequest, failures>>
  BY DEF SetStatus
<1>6. InStep(h)'
  BY <1>1, <1>2, <1>4, <1>5 DEF InStep
<1> QED BY <1>4, <1>5, <1>6, QuietStep DEF HandlersInStep, TypeOK

LEMMA ReadLatestRequestInStep ==
  ASSUME HandlersInStep, NEW h \in Handler, ReadLatestRequest(h)
  PROVE  HandlersInStep'
<1>1. UNCHANGED <<allocation, request, mergeRequest, failures>>
  BY DEF ReadLatestRequest
<1>2. handler \in [Handler -> HandlerState] /\ InStep(h) /\ At(h, "latest")
  BY DEF HandlersInStep, TypeOK, ReadLatestRequest
<1>3. CASE handler' = [handler EXCEPT ![h].pc = "finish"]
  <2>1. /\ OnlyMoves(h)
        /\ handler'[h].pc = "finish"
        /\ handler'[h].allocation = handler[h].allocation
        /\ handler'[h].decision = handler[h].decision
    BY <1>3, Move DEF ProgramCounter, HandlersInStep
  <2>2. InStep(h)'
    BY <1>1, <1>2, <2>1 DEF InStep, At
  <2> QED BY <1>1, <2>1, <2>2, QuietStep DEF HandlersInStep, TypeOK
<1>4. CASE \E r \in RequestsOf(handler[h].allocation), next \in {"approve", "deny"} :
             handler' = [handler EXCEPT ![h].pc = next, ![h].request = r]
  <2>1. PICK r \in DOMAIN request, next \in {"approve", "deny"} :
          handler' = [handler EXCEPT ![h].pc = next, ![h].request = r]
    BY <1>4 DEF RequestsOf
  <2>2. r \in RequestId
    BY DEF HandlersInStep, TypeOK
  <2>3. /\ OnlyMoves(h)
        /\ handler'[h].pc = next
        /\ handler'[h].request = r
        /\ handler'[h].allocation = handler[h].allocation
        /\ handler'[h].decision = handler[h].decision
    BY <2>1, <2>2, MoveWithRequest DEF ProgramCounter, HandlersInStep
  <2>4. InStep(h)'
    BY <1>1, <1>2, <2>1, <2>3 DEF InStep, At
  <2> QED BY <1>1, <2>3, <2>4, QuietStep DEF HandlersInStep, TypeOK
<1> QED BY <1>3, <1>4 DEF ReadLatestRequest

\* A verdict on request r and a handler that forgets it.
LEMMA DecisionInStep ==
  ASSUME HandlersInStep, NEW h \in Handler, NEW pc \in {"approve", "deny"}, At(h, pc),
         NEW verdict \in {"approved", "denied"}, NEW next \in {"find", "finish"},
         request' = [request EXCEPT ![handler[h].request].status = verdict],
         handler' = [handler EXCEPT ![h].pc = next, ![h].request = 0],
         UNCHANGED <<allocation, mergeRequest, failures>>
  PROVE  HandlersInStep'
<1> DEFINE r == handler[h].request
<1>1. handler \in [Handler -> HandlerState] /\ InStep(h)
  BY DEF HandlersInStep, TypeOK
<1>2. /\ r \in DOMAIN request
      /\ handler[h].allocation \in DOMAIN allocation
      /\ handler[h].decision \in AllocationStatus
  BY <1>1 DEF InStep, At
<1>3. request \in [DOMAIN request -> RequestRow] /\ DOMAIN request \subseteq RequestId
  BY DEF HandlersInStep, TypeOK
<1>4. /\ DOMAIN request' = DOMAIN request
      /\ request' \in [DOMAIN request -> RequestRow]
      /\ \A q \in DOMAIN request :
           /\ request'[q].allocation = request[q].allocation
           /\ request'[q].domain = request[q].domain
           /\ request[q].status # "pending" => request'[q].status # "pending"
  BY <1>2, <1>3, RewriteStatus
<1>5. /\ OnlyMoves(h)
      /\ handler'[h].pc = next
      /\ handler'[h].allocation = handler[h].allocation
      /\ handler'[h].decision = handler[h].decision
  BY MoveWithRequest DEF ProgramCounter, HandlersInStep
<1>6. InStep(h)'
  BY <1>2, <1>5 DEF InStep
<1>7. TablesGrow /\ RowsLinked'
  BY <1>4 DEF TablesGrow, RowsLinked, HandlersInStep
<1>8. TypeOK'
  BY <1>3, <1>4, <1>5 DEF HandlersInStep, TypeOK, OnlyMoves
<1> QED BY <1>5, <1>6, <1>7, <1>8, StepKeepsHandlers

LEMMA FindApprovedRequestInStep ==
  ASSUME HandlersInStep, NEW h \in Handler, FindApprovedRequest(h)
  PROVE  HandlersInStep'
<1>1. UNCHANGED <<allocation, request, mergeRequest, failures>>
  BY DEF FindApprovedRequest
<1>2. handler \in [Handler -> HandlerState] /\ InStep(h) /\ At(h, "find")
  BY DEF HandlersInStep, TypeOK, FindApprovedRequest
<1>3. CASE handler' = [handler EXCEPT ![h].pc = "finish"]
  <2>1. /\ OnlyMoves(h)
        /\ handler'[h].pc = "finish"
        /\ handler'[h].allocation = handler[h].allocation
        /\ handler'[h].decision = handler[h].decision
    BY <1>3, Move DEF ProgramCounter, HandlersInStep
  <2>2. InStep(h)'
    BY <1>1, <1>2, <2>1 DEF InStep, At
  <2> QED BY <1>1, <2>1, <2>2, QuietStep DEF HandlersInStep, TypeOK
<1>4. CASE \E r \in ToProcess(handler[h].allocation) :
             handler' = [handler EXCEPT ![h].pc = "commit", ![h].request = r]
  <2>1. PICK r \in DOMAIN request :
          /\ request[r].status = "approved"
          /\ handler' = [handler EXCEPT ![h].pc = "commit", ![h].request = r]
    BY <1>4 DEF ToProcess, RequestsOf
  <2>2. r \in RequestId
    BY DEF HandlersInStep, TypeOK
  <2>3. /\ OnlyMoves(h)
        /\ handler'[h].pc = "commit"
        /\ handler'[h].request = r
        /\ handler'[h].allocation = handler[h].allocation
        /\ handler'[h].decision = handler[h].decision
    BY <2>1, <2>2, MoveWithRequest DEF ProgramCounter, HandlersInStep
  <2>4. InStep(h)'
    BY <1>1, <1>2, <2>1, <2>3 DEF InStep, At
  <2> QED BY <1>1, <2>3, <2>4, QuietStep DEF HandlersInStep, TypeOK
<1> QED BY <1>3, <1>4 DEF FindApprovedRequest

LEMMA OpenMergeRequestInStep ==
  ASSUME HandlersInStep, NEW h \in Handler, OpenMergeRequest(h)
  PROVE  HandlersInStep'
<1> DEFINE r == handler[h].request
<1>1. PICK m \in MergeRequestId :
        /\ IsNextId(mergeRequest, m)
        /\ mergeRequest' = Insert(mergeRequest, m, OpenedFor(r))
        /\ handler' = [handler EXCEPT ![h].pc = "record", ![h].url = m]
  BY DEF OpenMergeRequest
<1>2. UNCHANGED <<allocation, request, failures>>
  BY DEF OpenMergeRequest
<1>3. /\ handler[h].allocation \in DOMAIN allocation
      /\ handler[h].decision \in AllocationStatus
      /\ r \in DOMAIN request
      /\ request[r].status # "pending"
  BY DEF OpenMergeRequest, At, HandlersInStep, InStep
<1>4. OpenedFor(r) \in MergeRequestRow /\ OpenedFor(r).request = r
  BY <1>3 DEF OpenedFor, MergeRequestRow, MergeRequestState, HandlersInStep, TypeOK
<1>5. /\ DOMAIN mergeRequest' = DOMAIN mergeRequest \cup {m}
      /\ mergeRequest' \in [DOMAIN mergeRequest' -> MergeRequestRow]
      /\ mergeRequest'[m].request = r
      /\ \A k \in DOMAIN mergeRequest : mergeRequest'[k] = mergeRequest[k]
  BY <1>1, <1>4, InsertMergeRequest DEF HandlersInStep
<1>6. /\ OnlyMoves(h)
      /\ handler'[h].pc = "record"
      /\ handler'[h].url = m
      /\ handler'[h].request = r
      /\ handler'[h].allocation = handler[h].allocation
      /\ handler'[h].decision = handler[h].decision
  BY <1>1, MoveWithUrl DEF ProgramCounter, HandlersInStep
<1>7. InStep(h)'
  BY <1>2, <1>3, <1>5, <1>6 DEF InStep
<1>8. TablesGrow /\ RowsLinked'
  BY <1>2, <1>3, <1>5 DEF TablesGrow, RowsLinked, HandlersInStep
<1>9. TypeOK'
  BY <1>1, <1>2, <1>5, <1>6 DEF HandlersInStep, TypeOK, OnlyMoves
<1> QED BY <1>6, <1>7, <1>8, <1>9, StepKeepsHandlers

LEMMA RecordMergeRequestInStep ==
  ASSUME HandlersInStep, NEW h \in Handler, RecordMergeRequest(h)
  PROVE  HandlersInStep'
<1> DEFINE s == handler[h]
<1>1. /\ s.allocation \in DOMAIN allocation
      /\ s.decision \in AllocationStatus
      /\ s.request \in DOMAIN request
      /\ s.url \in MergeRequestId
  BY DEF RecordMergeRequest, At, HandlersInStep, InStep, TypeOK
<1>2. request \in [DOMAIN request -> RequestRow] /\ DOMAIN request \subseteq RequestId
  BY DEF HandlersInStep, TypeOK
<1>3. UNCHANGED <<allocation, mergeRequest, failures>>
  BY DEF RecordMergeRequest
<1>4. /\ DOMAIN request' = DOMAIN request
      /\ request' \in [DOMAIN request -> RequestRow]
      /\ \A q \in DOMAIN request :
           /\ request'[q].allocation = request[q].allocation
           /\ request'[q].domain = request[q].domain
           /\ request'[q].status = request[q].status
  BY <1>1, <1>2, RewriteUrl DEF RecordMergeRequest
<1>5. /\ OnlyMoves(h)
      /\ handler'[h].pc = "finish"
      /\ handler'[h].allocation = s.allocation
      /\ handler'[h].decision = s.decision
  <2>1. handler' = [handler EXCEPT ![h].pc = "finish", ![h].request = 0, ![h].url = 0]
    BY DEF RecordMergeRequest
  <2>2. handler \in [Handler -> HandlerState]
    BY DEF HandlersInStep, TypeOK
  <2> DEFINE moved == [handler[h] EXCEPT !.pc = "finish", !.request = 0, !.url = 0]
  <2>4. /\ moved \in HandlerState
        /\ moved.pc = "finish"
        /\ moved.allocation = handler[h].allocation
        /\ moved.decision = handler[h].decision
    BY <2>2 DEF HandlerState, ProgramCounter
  <2>5. handler' = [k \in Handler |-> IF k = h THEN moved ELSE handler[k]]
    BY <2>1, <2>2
  <2> HIDE DEF s, moved
  <2>3. /\ OnlyMoves(h)
        /\ handler'[h].pc = "finish"
        /\ handler'[h].allocation = handler[h].allocation
        /\ handler'[h].decision = handler[h].decision
    BY <2>2, <2>4, <2>5 DEF OnlyMoves
  <2> QED BY <2>3 DEF s
<1>6. InStep(h)'
  BY <1>1, <1>3, <1>5 DEF InStep
<1>7. TablesGrow /\ RowsLinked'
  BY <1>3, <1>4 DEF TablesGrow, RowsLinked, HandlersInStep
<1>8. TypeOK'
  BY <1>2, <1>3, <1>4, <1>5 DEF HandlersInStep, TypeOK, OnlyMoves
<1> QED BY <1>5, <1>6, <1>7, <1>8, StepKeepsHandlers

\* Changes of an allocation's own fields do not touch the tables of requests.
LEMMA AllocationStepInStep ==
  ASSUME HandlersInStep, NEW h \in Handler, OnlyMoves(h), InStep(h)',
         DOMAIN allocation' = DOMAIN allocation,
         allocation' \in [DOMAIN allocation -> AllocationRow],
         UNCHANGED <<request, mergeRequest, failures>>
  PROVE  HandlersInStep'
<1>1. TablesGrow /\ RowsLinked'
  BY DEF TablesGrow, RowsLinked, HandlersInStep
<1>2. TypeOK'
  BY DEF HandlersInStep, TypeOK, OnlyMoves
<1> QED BY <1>1, <1>2, StepKeepsHandlers

LEMMA FinishSetStatusInStep ==
  ASSUME HandlersInStep, NEW h \in Handler, FinishSetStatus(h)
  PROVE  HandlersInStep'
<1> DEFINE a == handler[h].allocation
           d == handler[h].decision
<1>1. OnlyMoves(h) /\ InStep(h)'
  BY ReturnInStep DEF FinishSetStatus, HandlersInStep
<1>2. UNCHANGED <<request, mergeRequest, failures>>
  BY DEF FinishSetStatus
<1>3. a \in DOMAIN allocation /\ d \in AllocationStatus
  BY DEF FinishSetStatus, At, HandlersInStep, InStep
<1>4. allocation \in [DOMAIN allocation -> AllocationRow]
  BY DEF HandlersInStep, TypeOK
<1>5. DOMAIN allocation' = DOMAIN allocation /\ allocation' \in [DOMAIN allocation -> AllocationRow]
  <2>1. CASE allocation' = allocation
    BY <1>4, <2>1
  <2>2. CASE allocation' = [allocation EXCEPT ![a].status = d]
    BY <1>3, <1>4, <2>2 DEF AllocationRow
  <2> QED BY <2>1, <2>2 DEF FinishSetStatus
<1> QED BY <1>1, <1>2, <1>5, AllocationStepInStep

-----------------------------------------------------------------------------
(* AllocationService.modifyOpenstackAllocation                             *)

LEMMA ModifyInStep ==
  ASSUME HandlersInStep, NEW h \in Handler, NEW a \in DOMAIN allocation, Modify(h, a)
  PROVE  HandlersInStep'
<1> DEFINE s == [Idle EXCEPT !.pc = "modify_latest", !.allocation = a]
<1>1. s \in HandlerState /\ s.pc = "modify_latest" /\ s.allocation = a
  BY DEF Idle, HandlerState, ProgramCounter, HandlersInStep, TypeOK
<1>2. handler' = [handler EXCEPT ![h] = s]
  BY DEF Modify
<1>3. handler'[h] = s /\ OnlyMoves(h)
  BY <1>1, <1>2 DEF HandlersInStep, TypeOK, OnlyMoves
<1>4. UNCHANGED <<allocation, request, mergeRequest, failures>>
  BY DEF Modify
<1>5. InStep(h)'
  BY <1>1, <1>3, <1>4 DEF InStep
<1> QED BY <1>3, <1>4, <1>5, QuietStep DEF HandlersInStep, TypeOK

LEMMA CheckLatestRequestInStep ==
  ASSUME HandlersInStep, NEW h \in Handler, CheckLatestRequest(h)
  PROVE  HandlersInStep'
<1>1. UNCHANGED <<allocation, request, mergeRequest, failures>>
  BY DEF CheckLatestRequest
<1>2. handler[h].allocation \in DOMAIN allocation
  BY DEF CheckLatestRequest, At, HandlersInStep, InStep
<1>3. CASE handler' = [handler EXCEPT ![h].pc = "modify_base"]
  <2>1. OnlyMoves(h) /\ handler'[h].pc = "modify_base"
        /\ handler'[h].allocation = handler[h].allocation
    BY <1>3, Move DEF ProgramCounter, HandlersInStep
  <2>2. InStep(h)'
    BY <1>1, <1>2, <2>1 DEF InStep
  <2> QED BY <1>1, <2>1, <2>2, QuietStep DEF HandlersInStep, TypeOK
<1>4. CASE \E r \in RequestsOf(handler[h].allocation) :
             /\ request[r].mergeRequestUrl # 0
             /\ handler' = [handler EXCEPT ![h].pc = "modify_state",
                                           ![h].url = request[r].mergeRequestUrl]
  <2>1. PICK r \in DOMAIN request :
          handler' = [handler EXCEPT ![h].pc = "modify_state",
                                     ![h].url = request[r].mergeRequestUrl]
    BY <1>4 DEF RequestsOf
  <2>2. request[r].mergeRequestUrl \in MergeRequestId \cup {0}
    BY DEF HandlersInStep, TypeOK, RequestRow
  <2>3. OnlyMoves(h) /\ handler'[h].pc = "modify_state"
        /\ handler'[h].allocation = handler[h].allocation
    BY <2>1, <2>2, MoveWithUrl DEF ProgramCounter, HandlersInStep
  <2>4. InStep(h)'
    BY <1>1, <1>2, <2>3 DEF InStep
  <2> QED BY <1>1, <2>3, <2>4, QuietStep DEF HandlersInStep, TypeOK
<1>5. CASE Return(h)
  BY <1>1, <1>5, ReturnInStep, QuietStep DEF HandlersInStep, TypeOK
<1> DEFINE own == RequestsOf(handler[h].allocation)
           latest == {r \in own : IsLatest(r, own)}
<1>6. \/ handler' = [handler EXCEPT ![h].pc = "modify_base"]
      \/ \E r \in latest :
           handler' = [handler EXCEPT ![h].pc = "modify_state",
                                      ![h].url = request[r].mergeRequestUrl]
           /\ \E q \in latest : request[q].mergeRequestUrl # 0
      \/ Return(h)
  BY DEF CheckLatestRequest, Proposed
<1>7. \A r, q \in latest : r = q
  <2>1. \A r \in own : r \in Nat
    BY DEF RequestsOf, HandlersInStep, TypeOK, RequestId
  <2> QED BY <2>1 DEF IsLatest
<1> HIDE DEF latest
<1>8. latest \subseteq own
  BY DEF latest
<1> QED BY <1>3, <1>4, <1>5, <1>6, <1>7, <1>8

LEMMA CheckMergeRequestInStep ==
  ASSUME HandlersInStep, NEW h \in Handler, CheckMergeRequest(h)
  PROVE  HandlersInStep'
<1>1. UNCHANGED <<allocation, request, mergeRequest, failures>>
  BY DEF CheckMergeRequest
<1>2. handler[h].allocation \in DOMAIN allocation
  BY DEF CheckMergeRequest, At, HandlersInStep, InStep
<1>3. CASE handler' = [handler EXCEPT ![h].pc = "modify_base", ![h].url = 0]
  <2>1. OnlyMoves(h) /\ handler'[h].pc = "modify_base"
        /\ handler'[h].allocation = handler[h].allocation
    BY <1>3, MoveWithUrl DEF ProgramCounter, HandlersInStep
  <2>2. InStep(h)'
    BY <1>1, <1>2, <2>1 DEF InStep
  <2> QED BY <1>1, <2>1, <2>2, QuietStep DEF HandlersInStep, TypeOK
<1>4. CASE Return(h)
  BY <1>1, <1>4, ReturnInStep, QuietStep DEF HandlersInStep, TypeOK
<1> QED BY <1>3, <1>4 DEF CheckMergeRequest

LEMMA FindBaseRequestInStep ==
  ASSUME HandlersInStep, NEW h \in Handler, FindBaseRequest(h)
  PROVE  HandlersInStep'
<1>1. UNCHANGED <<allocation, request, mergeRequest, failures>>
  BY DEF FindBaseRequest
<1>2. handler[h].allocation \in DOMAIN allocation
  BY DEF FindBaseRequest, At, HandlersInStep, InStep
<1>3. CASE \E d \in BaseDomain(handler[h].allocation), next \in {"modify_date", "modify_insert"} :
             handler' = [handler EXCEPT ![h].pc = next, ![h].domain = d]
  <2>1. PICK d \in BaseDomain(handler[h].allocation), next \in {"modify_date", "modify_insert"} :
          handler' = [handler EXCEPT ![h].pc = next, ![h].domain = d]
    BY <1>3
  <2>2. PICK q \in RequestsOf(handler[h].allocation) :
          request[q].status = "approved" /\ request[q].domain = d
    <3>1. d \in BaseDomain(handler[h].allocation)
      OBVIOUS
    <3> QED BY <3>1 DEF BaseDomain
  <2>3. d \in Domain
    BY <2>2 DEF RequestsOf, HandlersInStep, TypeOK, RequestRow
  <2>4. OnlyMoves(h) /\ handler'[h].pc = next /\ handler'[h].domain = d
        /\ handler'[h].allocation = handler[h].allocation
    BY <2>1, <2>3, MoveWithDomain DEF ProgramCounter, HandlersInStep
  <2>5. InStep(h)'
    BY <1>1, <1>2, <2>2, <2>4 DEF InStep, RequestsOf
  <2> QED BY <1>1, <2>4, <2>5, QuietStep DEF HandlersInStep, TypeOK
<1>4. CASE Return(h)
  BY <1>1, <1>4, ReturnInStep, QuietStep DEF HandlersInStep, TypeOK
<1> QED BY <1>3, <1>4 DEF FindBaseRequest

LEMMA MoveEndDateInStep ==
  ASSUME HandlersInStep, NEW h \in Handler, MoveEndDate(h)
  PROVE  HandlersInStep'
<1>1. UNCHANGED <<allocation, request, mergeRequest, failures>>
  BY DEF MoveEndDate
<1>2. InStep(h) /\ handler[h].pc = "modify_date" /\ handler[h].allocation \in DOMAIN allocation
  BY DEF MoveEndDate, At, HandlersInStep, InStep
<1>3. OnlyMoves(h) /\ handler'[h].pc = "modify_insert" /\ handler'[h].domain = handler[h].domain
      /\ handler'[h].allocation = handler[h].allocation
  BY Move DEF MoveEndDate, ProgramCounter, HandlersInStep
<1>4. InStep(h)'
  BY <1>1, <1>2, <1>3 DEF InStep, RequestsOf
<1> QED BY <1>1, <1>3, <1>4, QuietStep DEF HandlersInStep, TypeOK

LEMMA InsertModificationInStep ==
  ASSUME HandlersInStep, NEW h \in Handler, InsertModification(h)
  PROVE  HandlersInStep'
<1> DEFINE a == handler[h].allocation
           d == handler[h].domain
<1>1. PICK r \in RequestId :
        IsNextId(request, r) /\ request' = Insert(request, r, PendingRequest(a, d))
  BY DEF InsertModification
<1>2. UNCHANGED <<allocation, mergeRequest, failures>> /\ OnlyMoves(h) /\ InStep(h)'
  BY ReturnInStep DEF InsertModification, HandlersInStep
<1>3. a \in DOMAIN allocation /\ d \in Domain
  BY DEF InsertModification, At, HandlersInStep, InStep, RequestsOf, TypeOK, RequestRow
<1>4. PendingRequest(a, d) \in RequestRow /\ PendingRequest(a, d).allocation = a
  BY <1>3 DEF PendingRequest, RequestRow, RequestStatus, HandlersInStep, TypeOK
<1>5. /\ DOMAIN request' = DOMAIN request \cup {r}
      /\ request' \in [DOMAIN request' -> RequestRow]
      /\ request'[r].allocation = a
      /\ \A q \in DOMAIN request : request'[q] = request[q]
  BY <1>1, <1>4, InsertRequest DEF HandlersInStep
<1>6. TablesGrow /\ RowsLinked'
  BY <1>2, <1>3, <1>5 DEF TablesGrow, RowsLinked, HandlersInStep
<1>7. TypeOK'
  BY <1>2, <1>5 DEF HandlersInStep, TypeOK, OnlyMoves
<1> QED BY <1>2, <1>6, <1>7, StepKeepsHandlers

-----------------------------------------------------------------------------
(* What handlers do not control                                            *)

LEMMA FailInStep ==
  ASSUME HandlersInStep, NEW h \in Handler, Fail(h)
  PROVE  HandlersInStep'
BY ReturnInStep, QuietStep DEF Fail, HandlersInStep, TypeOK

LEMMA SettleInStep ==
  ASSUME HandlersInStep, NEW m \in DOMAIN mergeRequest, NEW outcome \in {"merged", "closed"},
         Settle(m, outcome)
  PROVE  HandlersInStep'
<1>1. UNCHANGED <<allocation, request, handler, failures>>
  BY DEF Settle
<1>2. /\ DOMAIN mergeRequest' = DOMAIN mergeRequest
      /\ mergeRequest' \in [DOMAIN mergeRequest -> MergeRequestRow]
      /\ \A k \in DOMAIN mergeRequest : mergeRequest'[k].request = mergeRequest[k].request
  BY DEF Settle, HandlersInStep, TypeOK, MergeRequestRow, MergeRequestState
<1>3. TablesGrow /\ RowsLinked'
  BY <1>1, <1>2 DEF TablesGrow, RowsLinked, HandlersInStep
<1>4. TypeOK'
  BY <1>1, <1>2 DEF HandlersInStep, TypeOK
<1>5. \A k \in Handler : InStep(k)'
  BY <1>1, <1>3, OthersStayInStep DEF HandlersInStep
<1> QED BY <1>3, <1>4, <1>5 DEF HandlersInStep

-----------------------------------------------------------------------------
(* The invariant                                                           *)

LEMMA ProgressInStep ==
  ASSUME HandlersInStep, NEW h \in Handler, Progress(h)
  PROVE  HandlersInStep'
BY CommitRequestInStep, ReadLatestRequestInStep, DecisionInStep, FindApprovedRequestInStep,
   OpenMergeRequestInStep, RecordMergeRequestInStep, FinishSetStatusInStep,
   CheckLatestRequestInStep, CheckMergeRequestInStep, FindBaseRequestInStep,
   MoveEndDateInStep, InsertModificationInStep
   DEF Progress, ApproveRequest, DenyRequest

LEMMA NextInStep == HandlersInStep /\ [Next]_vars => HandlersInStep'
<1> SUFFICES ASSUME HandlersInStep, [Next]_vars PROVE HandlersInStep'
  OBVIOUS
<1>1. ASSUME NEW h \in Handler, NEW p \in Project, NEW res \in Resource,
             RequestAllocation(h, p, res)
      PROVE  HandlersInStep'
  BY <1>1, RequestAllocationInStep
<1>2. ASSUME NEW h \in Handler, NEW a \in DOMAIN allocation, NEW d \in Decision,
             SetStatus(h, a, d)
      PROVE  HandlersInStep'
  BY <1>2, SetStatusInStep
<1>3. ASSUME NEW h \in Handler, NEW a \in DOMAIN allocation, Modify(h, a)
      PROVE  HandlersInStep'
  BY <1>3, ModifyInStep
<1>4. ASSUME NEW h \in Handler, Progress(h) PROVE HandlersInStep'
  BY <1>4, ProgressInStep
<1>5. ASSUME NEW h \in Handler, Fail(h) PROVE HandlersInStep'
  BY <1>5, FailInStep
<1>6. ASSUME NEW m \in DOMAIN mergeRequest, NEW outcome \in {"merged", "closed"},
             Settle(m, outcome)
      PROVE  HandlersInStep'
  BY <1>6, SettleInStep
<1>7. CASE UNCHANGED vars
  BY <1>7 DEF vars, HandlersInStep, TypeOK, RowsLinked, InStep, RequestsOf
<1> QED BY <1>1, <1>2, <1>3, <1>4, <1>5, <1>6, <1>7 DEF Next

\* However many handlers are in flight, and wherever they fail, the tables are
\* well formed and no handler holds a row that is gone, a request it may not
\* propose, or a domain it may not copy.
THEOREM HandlersStayInStep == Spec => []HandlersInStep
BY InitInStep, NextInStep, PTL DEF Spec

\* Type correctness of the tables and of the handlers in flight.
THEOREM TypeCorrect == Spec => []TypeOK
<1>1. HandlersInStep => TypeOK
  BY DEF HandlersInStep
<1> QED BY <1>1, HandlersStayInStep, PTL

-----------------------------------------------------------------------------
(* The handlers implement the ledger                                       *)

LedgerStep == [Ledger!Next]_(Ledger!ledgerVars)

LEMMA InitIsLedgerInit == Init => Ledger!Init
BY DEF Init, Ledger!Init, EmptyTable, Ledger!EmptyTable

LEMMA CommitRequestRefines ==
  ASSUME HandlersInStep, NEW h \in Handler, CommitRequest(h)
  PROVE  LedgerStep
<1>1. UNCHANGED mergeRequest
  BY DEF CommitRequest
<1>2. PICK a \in AllocationId :
        /\ IsNextId(allocation, a)
        /\ \/ request' = request
           \/ \E r \in RequestId, d \in Domain :
                /\ IsNextId(request, r)
                /\ request' = Insert(request, r, PendingRequest(a, d))
  BY DEF CommitRequest
<1>3. CASE request' = request
  BY <1>1, <1>3 DEF LedgerStep, Ledger!ledgerVars
<1>4. ASSUME NEW r \in RequestId, NEW d \in Domain,
             IsNextId(request, r), request' = Insert(request, r, PendingRequest(a, d))
      PROVE  LedgerStep
  <2>1. a \notin DOMAIN allocation
    BY <1>2, NextIdIsFresh DEF AllocationId
  <2>2. Ledger!RequestsOf(a) = {}
    BY <2>1 DEF Ledger!RequestsOf, HandlersInStep, RowsLinked
  <2>3. Ledger!Submit(r, a, d)
    BY <1>1, <1>4, <2>2 DEF Ledger!Submit, IsNextId, Ledger!IsNextId, Insert, Ledger!Insert,
                            PendingRequest, Ledger!PendingRequest
  <2> QED BY <2>3 DEF LedgerStep, Ledger!Next, RequestId, Ledger!RequestId,
                      AllocationId, Ledger!AllocationId
<1> QED BY <1>2, <1>3, <1>4

LEMMA DecisionRefines ==
  ASSUME HandlersInStep, NEW h \in Handler, ApproveRequest(h) \/ DenyRequest(h)
  PROVE  LedgerStep
<1>1. handler[h].request \in DOMAIN request /\ UNCHANGED mergeRequest
  BY DEF ApproveRequest, DenyRequest, At, HandlersInStep, InStep
<1>2. PICK verdict \in {"approved", "denied"} : Ledger!Decide(handler[h].request, verdict)
  BY <1>1 DEF ApproveRequest, DenyRequest, Ledger!Decide
<1> QED BY <1>1, <1>2 DEF LedgerStep, Ledger!Next

LEMMA OpenMergeRequestRefines ==
  ASSUME HandlersInStep, NEW h \in Handler, OpenMergeRequest(h)
  PROVE  LedgerStep
<1>1. /\ handler[h].request \in DOMAIN request
      /\ request[handler[h].request].status # "pending"
  BY DEF OpenMergeRequest, At, HandlersInStep, InStep
<1>2. PICK m \in MergeRequestId : Ledger!OpenMergeRequest(m, handler[h].request)
  BY <1>1 DEF OpenMergeRequest, Ledger!OpenMergeRequest, IsNextId, Ledger!IsNextId,
              Insert, Ledger!Insert, OpenedFor, Ledger!OpenedFor
<1> QED BY <1>1, <1>2 DEF LedgerStep, Ledger!Next, MergeRequestId, Ledger!MergeRequestId

LEMMA RecordMergeRequestRefines ==
  ASSUME HandlersInStep, NEW h \in Handler, RecordMergeRequest(h)
  PROVE  LedgerStep
<1> DEFINE r == handler[h].request
           m == handler[h].url
<1>1. r \in DOMAIN request /\ m \in DOMAIN mergeRequest /\ mergeRequest[m].request = r
  BY DEF RecordMergeRequest, At, HandlersInStep, InStep
<1>2. request' = [request EXCEPT ![r].processed = TRUE, ![r].mergeRequestUrl = m]
  <2>1. request' = [request EXCEPT ![r] = [request[r] EXCEPT !.processed = TRUE,
                                                            !.mergeRequestUrl = m]]
    BY DEF RecordMergeRequest, MarkedProcessed
  <2>2. request \in [DOMAIN request -> RequestRow]
    BY DEF HandlersInStep, TypeOK
  <2> HIDE DEF r, m
  <2> QED BY <1>1, <2>1, <2>2
<1>3. Ledger!Record(r, m)
  BY <1>1, <1>2 DEF RecordMergeRequest, Ledger!Record
<1> QED BY <1>1, <1>3 DEF LedgerStep, Ledger!Next

LEMMA InsertModificationRefines ==
  ASSUME HandlersInStep, NEW h \in Handler, InsertModification(h)
  PROVE  LedgerStep
<1> DEFINE a == handler[h].allocation
           d == handler[h].domain
<1>1. a \in AllocationId
  BY DEF InsertModification, At, HandlersInStep, InStep, TypeOK
<1>2. PICK q \in RequestsOf(a) : request[q].status # "pending" /\ request[q].domain = d
  BY DEF InsertModification, At, HandlersInStep, InStep
<1>3. q \in Ledger!RequestsOf(a) /\ d \in Domain
  BY <1>2 DEF RequestsOf, Ledger!RequestsOf, HandlersInStep, TypeOK, RequestRow
<1>4. PICK r \in RequestId : Ledger!Submit(r, a, d)
  BY <1>2, <1>3 DEF InsertModification, Ledger!Submit, IsNextId, Ledger!IsNextId,
                    Insert, Ledger!Insert, PendingRequest, Ledger!PendingRequest
<1> QED BY <1>1, <1>3, <1>4 DEF LedgerStep, Ledger!Next, RequestId, Ledger!RequestId,
                                AllocationId, Ledger!AllocationId

LEMMA SettleRefines ==
  ASSUME NEW m \in DOMAIN mergeRequest, NEW outcome \in {"merged", "closed"}, Settle(m, outcome)
  PROVE  LedgerStep
BY DEF Settle, Ledger!Settle, LedgerStep, Ledger!Next

LEMMA QuietRefines ==
  ASSUME UNCHANGED <<request, mergeRequest>>
  PROVE  LedgerStep
BY DEF LedgerStep, Ledger!ledgerVars

LEMMA NextRefines == HandlersInStep /\ [Next]_vars => LedgerStep
<1> SUFFICES ASSUME HandlersInStep, [Next]_vars PROVE LedgerStep
  OBVIOUS
<1>1. ASSUME NEW h \in Handler, Progress(h) PROVE LedgerStep
  <2>1. CASE CommitRequest(h)
    BY <2>1, CommitRequestRefines
  <2>2. CASE ApproveRequest(h) \/ DenyRequest(h)
    BY <2>2, DecisionRefines
  <2>3. CASE OpenMergeRequest(h)
    BY <2>3, OpenMergeRequestRefines
  <2>4. CASE RecordMergeRequest(h)
    BY <2>4, RecordMergeRequestRefines
  <2>5. CASE InsertModification(h)
    BY <2>5, InsertModificationRefines
  <2>6. CASE \/ ReadLatestRequest(h) \/ FindApprovedRequest(h) \/ FinishSetStatus(h)
             \/ CheckLatestRequest(h) \/ CheckMergeRequest(h) \/ FindBaseRequest(h)
             \/ MoveEndDate(h)
    BY <2>6, QuietRefines DEF ReadLatestRequest, FindApprovedRequest, FinishSetStatus,
       CheckLatestRequest, CheckMergeRequest, FindBaseRequest, MoveEndDate
  <2> QED BY <1>1, <2>1, <2>2, <2>3, <2>4, <2>5, <2>6 DEF Progress
<1>2. ASSUME NEW h \in Handler, NEW p \in Project, NEW res \in Resource,
             RequestAllocation(h, p, res)
      PROVE  LedgerStep
  BY <1>2, QuietRefines DEF RequestAllocation
<1>3. ASSUME NEW h \in Handler, NEW a \in DOMAIN allocation, NEW d \in Decision,
             SetStatus(h, a, d)
      PROVE  LedgerStep
  BY <1>3, QuietRefines DEF SetStatus
<1>4. ASSUME NEW h \in Handler, NEW a \in DOMAIN allocation, Modify(h, a) PROVE LedgerStep
  BY <1>4, QuietRefines DEF Modify
<1>5. ASSUME NEW h \in Handler, Fail(h) PROVE LedgerStep
  BY <1>5, QuietRefines DEF Fail
<1>6. CASE UNCHANGED vars
  BY <1>6, QuietRefines DEF vars
<1> QED BY <1>1, <1>2, <1>3, <1>4, <1>5, <1>6, SettleRefines DEF Next

\* Every behaviour of the handlers is one of the request ledger.
THEOREM HandlersImplementLedger == Spec => ImplementsLedger
<1>1. HandlersInStep /\ [Next]_vars => [Ledger!Next]_(Ledger!ledgerVars)
  BY NextRefines DEF LedgerStep
<1> QED BY <1>1, InitIsLedgerInit, HandlersStayInStep, PTL DEF Spec, ImplementsLedger, Ledger!Spec

-----------------------------------------------------------------------------
(* What the ledger promises holds of the handlers                          *)

LedgerFacts == INSTANCE RequestLedgerProofs

\* The ledger of those facts is the ledger the handlers implement.
LEMMA SameInit == Ledger!Init => LedgerFacts!Init
BY DEF Ledger!Init, LedgerFacts!Init, Ledger!EmptyTable, LedgerFacts!EmptyTable

LEMMA SameStep == [Ledger!Next]_(Ledger!ledgerVars) => [LedgerFacts!Next]_(LedgerFacts!ledgerVars)
BY DEF Ledger!Next, LedgerFacts!Next, Ledger!ledgerVars, LedgerFacts!ledgerVars,
       Ledger!Submit, LedgerFacts!Submit, Ledger!Decide, LedgerFacts!Decide,
       Ledger!OpenMergeRequest, LedgerFacts!OpenMergeRequest,
       Ledger!Record, LedgerFacts!Record, Ledger!Settle, LedgerFacts!Settle,
       Ledger!RequestsOf, LedgerFacts!RequestsOf, Ledger!IsNextId, LedgerFacts!IsNextId,
       Ledger!Insert, LedgerFacts!Insert, Ledger!OpenedFor, LedgerFacts!OpenedFor,
       Ledger!PendingRequest, LedgerFacts!PendingRequest,
       Ledger!RequestId, LedgerFacts!RequestId, Ledger!AllocationId, LedgerFacts!AllocationId,
       Ledger!MergeRequestId, LedgerFacts!MergeRequestId

LEMMA SameInvariants ==
  LedgerFacts!LedgerInv =>
    /\ Ledger!DomainIsFixed
    /\ Ledger!MergeRequestsWereDecided
    /\ Ledger!RecordedUrlIsOwn
BY DEF LedgerFacts!LedgerInv, Ledger!DomainIsFixed, LedgerFacts!DomainIsFixed,
       Ledger!MergeRequestsWereDecided, LedgerFacts!MergeRequestsWereDecided,
       Ledger!RecordedUrlIsOwn, LedgerFacts!RecordedUrlIsOwn

LEMMA LedgerPromises == Spec => []LedgerFacts!LedgerInv
<1>1. Ledger!Spec => LedgerFacts!Spec
  BY SameInit, SameStep, PTL DEF Ledger!Spec, LedgerFacts!Spec
<1>2. LedgerFacts!Spec => []LedgerFacts!LedgerInv
  BY LedgerFacts!LedgerSafety, BoundsAssumption DEF LedgerFacts!BoundsAssumption
<1>3. Spec => Ledger!Spec
  BY HandlersImplementLedger DEF ImplementsLedger
<1> QED BY <1>1, <1>2, <1>3, PTL

\* A modification never changes the domain of an OpenStack project.
THEOREM DomainStaysFixed == Spec => []DomainIsFixed
<1>1. LedgerFacts!LedgerInv => DomainIsFixed
  BY SameInvariants DEF DomainIsFixed
<1> QED BY <1>1, LedgerPromises, PTL

\* GitLab is asked to merge only what an admin has decided on.
THEOREM MergeRequestsStayDecided == Spec => []MergeRequestsWereDecided
<1>1. LedgerFacts!LedgerInv => MergeRequestsWereDecided
  BY SameInvariants DEF MergeRequestsWereDecided
<1> QED BY <1>1, LedgerPromises, PTL

\* A processed request names a merge request opened for that request.
THEOREM RecordedUrlStaysOwn == Spec => []RecordedUrlIsOwn
<1>1. LedgerFacts!LedgerInv => RecordedUrlIsOwn
  BY SameInvariants DEF RecordedUrlIsOwn
<1> QED BY <1>1, LedgerPromises, PTL

-----------------------------------------------------------------------------
(* Handlers that meet                                                      *)
(*                                                                         *)
(* What a handler read can only be changed by a handler of a certain kind, *)
(* in flight with it on the same allocation: the two have met, and met     *)
(* says so.  MeetInv is what that leaves true at every await.              *)

PendingIsLatest ==
  \A r \in DOMAIN request :
    request[r].status = "pending" /\ ~Crossed(request[r].allocation, {"modify"})
      => IsLatest(r, RequestsOf(request[r].allocation))

CloudHasRequest ==
  \A a \in DOMAIN allocation : allocation[a].resource \in CloudResource => RequestsOf(a) # {}

NothingPending(a) == \A r \in RequestsOf(a) : request[r].status # "pending"

SomeProcessed(a) ==
  allocation[a].resource \in CloudResource => \E r \in RequestsOf(a) : request[r].processed

Activation == {"approve", "find", "commit", "record"}
Settlement == Activation \cup {"latest", "deny", "finish"}
Modification == {"modify_state", "modify_base", "modify_date", "modify_insert"}

\* The decision a handler carries is the one its place belongs to.
OfItsKind(h) ==
  LET s == handler[h] IN
  /\ s.pc \in Activation => s.decision = "active"
  /\ s.pc = "deny" => s.decision = "denied"
  /\ s.pc \in Modification \cup {"modify_latest"} => s.decision = "none"
  /\ s.pc \in {"approve", "deny", "commit", "record"} => s.request \in RequestsOf(s.allocation)

\* What the handler read is still so, unless it met one that changes it.
Undisturbed(h) ==
  LET s == handler[h]
      a == s.allocation
  IN  /\ s.pc \in {"commit", "record"} /\ ~Crossed(a, {"active"})
           => ~request[s.request].processed
      /\ s.pc = "find" /\ ~Crossed(a, {"active", "denied"})
           => \E r \in RequestsOf(a) : request[r].status = "approved"
      /\ s.pc = "finish" /\ s.decision = "active" /\ ~Crossed(a, {"active", "denied"})
           => SomeProcessed(a)
      /\ s.pc \in Settlement /\ s.decision = "denied" /\ ~s.wasActive
           /\ ~Crossed(a, {"active", "denied"})
           => allocation[a].status # "active"
      /\ s.pc \in Modification /\ ~Crossed(a, {"modify"})
           => NothingPending(a)

MeetInv ==
  /\ Meetings \subseteq met
  /\ PendingIsLatest
  /\ CloudHasRequest
  /\ ActiveWasProposed
  /\ \A h \in Handler : OfItsKind(h) /\ Undisturbed(h)

\* Every reachable state.
Met == HandlersInStep /\ RecordedUrlIsOwn /\ MeetInv

Remembered == met' = met \cup Meetings'

Acts(h, a, kind) == handler[h].allocation = a /\ Kind(h) = kind

\* What one handler's step may change, and which kind of handler changes it.
ChangeBy(h) ==
  /\ \A k \in Handler \ {h} : handler'[k] = handler[k]
  /\ DOMAIN allocation \subseteq DOMAIN allocation'
  /\ \A a \in DOMAIN allocation :
       /\ allocation'[a].resource = allocation[a].resource
       /\ allocation'[a].status = "active" /\ allocation[a].status # "active"
            => Acts(h, a, "active") /\ At(h, "finish")
  /\ \A a \in DOMAIN allocation' \ DOMAIN allocation :
       /\ allocation'[a].status # "active"
       /\ allocation'[a].resource \in CloudResource => RequestsOf(a)' # {}
  /\ DOMAIN request \subseteq DOMAIN request'
  /\ \A r \in DOMAIN request :
       /\ request'[r].allocation = request[r].allocation
       /\ request[r].processed => request'[r].processed
       /\ request'[r].processed => request[r].processed \/ Acts(h, request[r].allocation, "active")
       /\ request'[r].status = "pending" => request[r].status = "pending"
       /\ request[r].status = "approved"
            => request'[r].status = "approved" \/ Acts(h, request[r].allocation, "denied")
  /\ \A r \in DOMAIN request' \ DOMAIN request :
       /\ \A q \in DOMAIN request' : q <= r
       /\ request'[r].allocation \in DOMAIN allocation
            => Acts(h, request'[r].allocation, "modify") /\ At(h, "modify_insert")

\* Two handlers in flight on one allocation have met.
LEMMA HaveMet ==
  ASSUME Meetings \subseteq met, NEW h \in Handler, NEW k \in Handler, h # k,
         NEW a \in AllocationId, NEW x, NEW y, Acts(h, a, x), Acts(k, a, y), {x, y} \in Crossing
  PROVE  Crossed(a, {x, y})
<1>1. a # 0
  BY DEF AllocationId
<1>2. InFlight(h, k)
  BY <1>1 DEF InFlight, Acts
<1>3. <<a, {x, y}>> \in Meetings
  BY <1>2 DEF Meetings, Acts
<1> QED BY <1>3 DEF Crossed

\* A meeting is not forgotten.
LEMMA StillApart ==
  ASSUME Remembered, NEW a, NEW kinds, ~Crossed(a, kinds)'
  PROVE  ~Crossed(a, kinds)
BY DEF Remembered, Crossed

LEMMA OthersOfTheirKind ==
  ASSUME Met, NEW h \in Handler, ChangeBy(h), NEW k \in Handler \ {h}
  PROVE  OfItsKind(k)'
BY DEF Met, MeetInv, OfItsKind, ChangeBy, RequestsOf

LEMMA OthersUndisturbed ==
  ASSUME Met, Remembered, NEW h \in Handler, ChangeBy(h), NEW k \in Handler \ {h}
  PROVE  Undisturbed(k)'
<1> DEFINE s == handler[k]
           a == s.allocation
<1>1. /\ handler'[k] = s /\ OfItsKind(k) /\ Undisturbed(k) /\ InStep(k) /\ Meetings \subseteq met
      /\ k # h
  BY DEF Met, MeetInv, HandlersInStep, ChangeBy
<1>2. s.pc \in Activation \cup Settlement \cup Modification => a \in DOMAIN allocation /\ a \in AllocationId
  BY <1>1 DEF InStep, Activation, Settlement, Modification, Met, HandlersInStep, TypeOK
<1>3. \A kinds : ~Crossed(a, kinds)' => ~Crossed(a, kinds)
  BY <1>1 DEF Remembered, Crossed
<1>4. /\ s.pc \in Activation => Acts(k, a, "active")
      /\ s.decision = "denied" => Acts(k, a, "denied")
      /\ s.pc \in Modification => Acts(k, a, "modify")
  BY <1>1 DEF OfItsKind, Acts, Kind
<1>5. ASSUME s.pc \in {"commit", "record"}, ~Crossed(a, {"active"})'
      PROVE  ~request'[s.request].processed
  <2>1. s.request \in DOMAIN request /\ request[s.request].allocation = a
    BY <1>1, <1>5 DEF OfItsKind, RequestsOf
  <2>2. ~request[s.request].processed
    BY <1>1, <1>3, <1>5 DEF Undisturbed
  <2>3. ~Acts(h, a, "active")
    <3>1. {"active", "active"} \in Crossing /\ {"active", "active"} = {"active"}
      BY DEF Crossing
    <3>2. ~Crossed(a, {"active", "active"})
      BY <1>3, <1>5, <3>1
    <3>3. Acts(k, a, "active") /\ a \in AllocationId
      BY <1>2, <1>4, <1>5 DEF Activation
    <3> QED BY <1>1, <3>1, <3>2, <3>3, HaveMet
  <2> QED BY <2>1, <2>2, <2>3 DEF ChangeBy
<1>6. ASSUME s.pc = "find", ~Crossed(a, {"active", "denied"})'
      PROVE  \E r \in RequestsOf(a)' : request'[r].status = "approved"
  <2>1. PICK r \in RequestsOf(a) : request[r].status = "approved"
    BY <1>1, <1>3, <1>6 DEF Undisturbed
  <2>2. ~Acts(h, a, "denied")
    <3>1. {"active", "denied"} \in Crossing
      BY DEF Crossing
    <3>2. Acts(k, a, "active") /\ a \in AllocationId
      BY <1>2, <1>4, <1>6 DEF Activation
    <3> QED BY <1>1, <1>3, <1>6, <3>1, <3>2, HaveMet
  <2>3. r \in DOMAIN request /\ request[r].allocation = a
    BY DEF RequestsOf
  <2> QED BY <2>1, <2>2, <2>3 DEF ChangeBy, RequestsOf
<1>7. ASSUME s.pc = "finish", s.decision = "active", ~Crossed(a, {"active", "denied"})'
      PROVE  SomeProcessed(a)'
  <2>1. SomeProcessed(a) /\ a \in DOMAIN allocation
    BY <1>1, <1>2, <1>3, <1>7 DEF Undisturbed, Settlement
  <2> QED BY <2>1 DEF ChangeBy, SomeProcessed, RequestsOf
<1>8. ASSUME s.pc \in Settlement, s.decision = "denied", ~s.wasActive,
             ~Crossed(a, {"active", "denied"})'
      PROVE  allocation'[a].status # "active"
  <2>1. allocation[a].status # "active" /\ a \in DOMAIN allocation /\ a \in AllocationId
    BY <1>1, <1>2, <1>3, <1>8 DEF Undisturbed
  <2>2. ~Acts(h, a, "active")
    <3>1. {"active", "denied"} \in Crossing
      BY DEF Crossing
    <3> QED BY <1>1, <1>3, <1>4, <1>8, <2>1, <3>1, HaveMet
  <2> QED BY <2>1, <2>2 DEF ChangeBy
<1>9. ASSUME s.pc \in Modification, ~Crossed(a, {"modify"})'
      PROVE  NothingPending(a)'
  <2>1. NothingPending(a) /\ a \in DOMAIN allocation /\ a \in AllocationId
    BY <1>1, <1>2, <1>3, <1>9 DEF Undisturbed
  <2>2. ~Acts(h, a, "modify")
    <3>1. {"modify", "modify"} \in Crossing /\ {"modify", "modify"} = {"modify"}
      BY DEF Crossing
    <3>2. ~Crossed(a, {"modify", "modify"})
      BY <1>3, <1>9, <3>1
    <3> QED BY <1>1, <1>4, <1>9, <2>1, <3>1, <3>2, HaveMet
  <2> QED BY <2>1, <2>2 DEF ChangeBy, NothingPending, RequestsOf
<1> QED BY <1>1, <1>5, <1>6, <1>7, <1>8, <1>9 DEF Undisturbed

LEMMA TablesUndisturbed ==
  ASSUME Met, Remembered, NEW h \in Handler, ChangeBy(h)
  PROVE  PendingIsLatest' /\ CloudHasRequest' /\ ActiveWasProposed'
<1>1. /\ PendingIsLatest /\ CloudHasRequest /\ ActiveWasProposed /\ Undisturbed(h)
      /\ RowsLinked
  BY DEF Met, MeetInv, HandlersInStep
<1>2. \A a, kinds : ~Crossed(a, kinds)' => ~Crossed(a, kinds)
  BY StillApart
<1>3. PendingIsLatest'
  <2> SUFFICES ASSUME NEW r \in DOMAIN request', request'[r].status = "pending",
                      ~Crossed(request[r].allocation, {"modify"})',
                      NEW q \in DOMAIN request', request'[q].allocation = request'[r].allocation
               PROVE  q <= r
    BY DEF PendingIsLatest, IsLatest, RequestsOf
  <2>1. CASE r \notin DOMAIN request
    BY <2>1 DEF ChangeBy
  <2>2. CASE r \in DOMAIN request
    <3>1. /\ request[r].status = "pending" /\ request[r].allocation = request'[r].allocation
          /\ request[r].allocation \in DOMAIN allocation
          /\ ~Crossed(request[r].allocation, {"modify"})
      BY <1>1, <1>2, <2>2 DEF ChangeBy, RowsLinked
    <3>2. CASE q \in DOMAIN request
      BY <1>1, <2>2, <3>1, <3>2 DEF ChangeBy, PendingIsLatest, IsLatest, RequestsOf
    <3>3. CASE q \notin DOMAIN request
      <4>1. Acts(h, request[r].allocation, "modify") /\ At(h, "modify_insert")
        BY <3>1, <3>3 DEF ChangeBy
      <4>2. NothingPending(request[r].allocation)
        BY <1>1, <3>1, <4>1 DEF Undisturbed, Acts, At, Modification
      <4> QED BY <2>2, <3>1, <4>2 DEF NothingPending, RequestsOf
    <3> QED BY <3>2, <3>3
  <2> QED BY <2>1, <2>2
<1>4. CloudHasRequest'
  <2> SUFFICES ASSUME NEW a \in DOMAIN allocation', allocation'[a].resource \in CloudResource
               PROVE  RequestsOf(a)' # {}
    BY DEF CloudHasRequest
  <2>1. CASE a \notin DOMAIN allocation
    BY <2>1 DEF ChangeBy
  <2>2. CASE a \in DOMAIN allocation
    BY <1>1, <2>2 DEF ChangeBy, CloudHasRequest, RequestsOf
  <2> QED BY <2>1, <2>2
<1>5. ActiveWasProposed'
  <2> SUFFICES ASSUME NEW a \in DOMAIN allocation', allocation'[a].status = "active",
                      allocation'[a].resource \in CloudResource,
                      ~Crossed(a, {"active", "denied"})'
               PROVE  \E r \in RequestsOf(a)' : request'[r].processed
    BY DEF ActiveWasProposed
  <2>1. a \in DOMAIN allocation /\ allocation[a].resource \in CloudResource
    BY DEF ChangeBy
  <2>2. ~Crossed(a, {"active", "denied"})
    BY <1>2
  <2>3. \E r \in RequestsOf(a) : request[r].processed
    <3>1. CASE allocation[a].status = "active"
      BY <1>1, <2>1, <2>2, <3>1 DEF ActiveWasProposed
    <3>2. CASE allocation[a].status # "active"
      <4>1. Acts(h, a, "active") /\ At(h, "finish")
        BY <2>1, <3>2 DEF ChangeBy
      <4>2. handler[h].decision = "active" /\ handler[h].allocation = a
        BY <4>1 DEF Acts, Kind
      <4> QED BY <1>1, <2>1, <2>2, <4>1, <4>2 DEF Undisturbed, At, SomeProcessed
    <3> QED BY <3>1, <3>2
  <2> QED BY <2>3 DEF ChangeBy, RequestsOf
<1> QED BY <1>3, <1>4, <1>5

\* What is left to show of each step.
LEMMA ChangeKeepsMeetInv ==
  ASSUME Met, Remembered, NEW h \in Handler, ChangeBy(h), OfItsKind(h)', Undisturbed(h)'
  PROVE  MeetInv'
<1>1. \A k \in Handler : OfItsKind(k)' /\ Undisturbed(k)'
  BY OthersOfTheirKind, OthersUndisturbed
<1>2. Meetings' \subseteq met'
  BY DEF Remembered
<1> QED BY <1>1, <1>2, TablesUndisturbed DEF MeetInv

\* A step that only moves a handler.
LEMMA QuietChange ==
  ASSUME Met, Remembered, NEW h \in Handler, UNCHANGED <<allocation, request>>,
         \A k \in Handler \ {h} : handler'[k] = handler[k],
         OfItsKind(h)', Undisturbed(h)'
  PROVE  MeetInv'
<1>1. ChangeBy(h)
  BY DEF ChangeBy
<1> QED BY <1>1, ChangeKeepsMeetInv

LEMMA IdleUndisturbed ==
  ASSUME NEW h \in Handler, handler'[h].pc \in {"idle", "insert"}
  PROVE  OfItsKind(h)' /\ Undisturbed(h)'
BY DEF OfItsKind, Undisturbed, Activation, Settlement, Modification

LEMMA ReturnMet ==
  ASSUME Met, NEW h \in Handler, Return(h)
  PROVE  /\ handler'[h].pc = "idle"
         /\ \A k \in Handler \ {h} : handler'[k] = handler[k]
         /\ OfItsKind(h)' /\ Undisturbed(h)'
<1>1. handler'[h].pc = "idle" /\ \A k \in Handler \ {h} : handler'[k] = handler[k]
  BY IdleInStep DEF Return, Met, HandlersInStep, TypeOK
<1> QED BY <1>1, IdleUndisturbed

LEMMA QuietReturn ==
  ASSUME Met, Remembered, NEW h \in Handler, Return(h), UNCHANGED <<allocation, request>>
  PROVE  MeetInv'
BY ReturnMet, QuietChange

LEMMA RequestAllocationMet ==
  ASSUME Met, Remembered, NEW h \in Handler, NEW p \in Project, NEW res \in Resource,
         RequestAllocation(h, p, res)
  PROVE  MeetInv'
<1>1. handler'[h].pc = "insert" /\ \A k \in Handler \ {h} : handler'[k] = handler[k]
  BY DEF RequestAllocation, Idle, Met, HandlersInStep, TypeOK
<1> QED BY <1>1, IdleUndisturbed, QuietChange DEF RequestAllocation

LEMMA ModifyMet ==
  ASSUME Met, Remembered, NEW h \in Handler, NEW a \in DOMAIN allocation, Modify(h, a)
  PROVE  MeetInv'
<1>1. /\ handler'[h].pc = "modify_latest" /\ handler'[h].decision = "none"
      /\ \A k \in Handler \ {h} : handler'[k] = handler[k]
  BY DEF Modify, Idle, Met, HandlersInStep, TypeOK
<1>2. OfItsKind(h)' /\ Undisturbed(h)'
  BY <1>1 DEF OfItsKind, Undisturbed, Activation, Settlement, Modification
<1> QED BY <1>1, <1>2, QuietChange DEF Modify

LEMMA SetStatusMet ==
  ASSUME Met, Remembered, NEW h \in Handler, NEW a \in DOMAIN allocation, NEW d \in Decision,
         SetStatus(h, a, d)
  PROVE  MeetInv'
<1>1. /\ handler'[h].pc = "latest" /\ handler'[h].allocation = a
      /\ handler'[h].wasActive = (allocation[a].status = "active")
      /\ \A k \in Handler \ {h} : handler'[k] = handler[k]
  BY DEF SetStatus, Idle, Met, HandlersInStep, TypeOK
<1>2. UNCHANGED <<allocation, request>>
  BY DEF SetStatus
<1>3. OfItsKind(h)' /\ Undisturbed(h)'
  BY <1>1, <1>2 DEF OfItsKind, Undisturbed, Activation, Settlement, Modification
<1> QED BY <1>1, <1>2, <1>3, QuietChange

LEMMA ReadLatestRequestMet ==
  ASSUME Met, Remembered, NEW h \in Handler, ReadLatestRequest(h)
  PROVE  MeetInv'
<1> DEFINE s == handler[h]
           a == s.allocation
<1>1. UNCHANGED <<allocation, request>>
  BY DEF ReadLatestRequest
<1>2. /\ handler \in [Handler -> HandlerState] /\ Undisturbed(h) /\ s.pc = "latest"
      /\ a \in DOMAIN allocation /\ CloudHasRequest
  BY DEF Met, MeetInv, HandlersInStep, TypeOK, ReadLatestRequest, InStep, At
<1>3. s.decision = "denied" /\ ~s.wasActive /\ ~Crossed(a, {"active", "denied"})
        => allocation[a].status # "active"
  BY <1>2 DEF Undisturbed, Settlement
<1>4. \A kinds : ~Crossed(a, kinds) \/ <<a, kinds>> \in met'
  BY DEF Remembered, Crossed
<1>5. CASE /\ RequestsOf(a) = {} \/ s.decision \notin {"active", "denied"}
           /\ handler' = [handler EXCEPT ![h].pc = "finish"]
  <2>1. /\ handler'[h].pc = "finish" /\ handler'[h].allocation = a
        /\ handler'[h].decision = s.decision /\ handler'[h].wasActive = s.wasActive
        /\ \A k \in Handler \ {h} : handler'[k] = handler[k]
    BY <1>2, <1>5 DEF HandlerState
  <2>2. s.decision = "active" => SomeProcessed(a)
    BY <1>2, <1>5 DEF SomeProcessed, CloudHasRequest
  <2>3. OfItsKind(h)' /\ Undisturbed(h)'
    BY <1>1, <1>3, <1>4, <2>1, <2>2
       DEF OfItsKind, Undisturbed, Crossed, SomeProcessed, RequestsOf, Activation, Settlement, Modification
  <2> QED BY <1>1, <2>1, <2>3, QuietChange
<1>6. CASE /\ s.decision \in {"active", "denied"}
           /\ \E r \in RequestsOf(a) :
                handler' = [handler EXCEPT
                  ![h].pc = IF s.decision = "active" THEN "approve" ELSE "deny", ![h].request = r]
  <2>1. PICK r \in RequestsOf(a) :
          handler' = [handler EXCEPT
            ![h].pc = IF s.decision = "active" THEN "approve" ELSE "deny", ![h].request = r]
    BY <1>6
  <2>2. /\ handler'[h].pc = IF s.decision = "active" THEN "approve" ELSE "deny"
        /\ handler'[h].request = r /\ handler'[h].allocation = a
        /\ handler'[h].decision = s.decision /\ handler'[h].wasActive = s.wasActive
        /\ \A k \in Handler \ {h} : handler'[k] = handler[k]
    BY <1>2, <2>1 DEF HandlerState
  <2>3. OfItsKind(h)' /\ Undisturbed(h)'
    BY <1>1, <1>3, <1>4, <1>6, <2>2
       DEF OfItsKind, Undisturbed, Crossed, RequestsOf, Activation, Settlement, Modification
  <2> QED BY <1>1, <2>2, <2>3, QuietChange
<1> QED BY <1>5, <1>6 DEF ReadLatestRequest

\* A verdict on the request the handler looked up.
LEMMA DecisionMet ==
  ASSUME Met, Remembered, NEW h \in Handler, NEW pc \in {"approve", "deny"}, At(h, pc),
         NEW verdict \in {"approved", "denied"}, NEW next \in {"find", "finish"},
         pc = "approve" <=> verdict = "approved", pc = "approve" <=> next = "find",
         request' = [request EXCEPT ![handler[h].request].status = verdict],
         handler' = [handler EXCEPT ![h].pc = next, ![h].request = 0],
         UNCHANGED allocation
  PROVE  MeetInv'
<1> DEFINE s == handler[h]
           a == s.allocation
           r == s.request
<1>1. /\ handler \in [Handler -> HandlerState] /\ request \in [DOMAIN request -> RequestRow]
      /\ Undisturbed(h) /\ OfItsKind(h)
  BY DEF Met, MeetInv, HandlersInStep, TypeOK
<1>2. r \in RequestsOf(a) /\ s.decision = (IF pc = "approve" THEN "active" ELSE "denied")
  BY <1>1 DEF OfItsKind, At, Activation
<1>3. s.decision = "denied" /\ ~s.wasActive /\ ~Crossed(a, {"active", "denied"})
        => allocation[a].status # "active"
  BY <1>1 DEF Undisturbed, Settlement, Activation, At
<1>4. /\ handler'[h].pc = next /\ handler'[h].allocation = a
      /\ handler'[h].decision = s.decision /\ handler'[h].wasActive = s.wasActive
      /\ \A k \in Handler \ {h} : handler'[k] = handler[k]
  BY <1>1 DEF HandlerState
<1>5. /\ DOMAIN request' = DOMAIN request
      /\ request'[r].status = verdict
      /\ \A q \in DOMAIN request :
           /\ request'[q].allocation = request[q].allocation
           /\ request'[q].processed = request[q].processed
           /\ q # r => request'[q].status = request[q].status
  BY <1>1, <1>2 DEF RequestRow, RequestsOf
<1>6. request[r].allocation = a /\ r \in DOMAIN request
  BY <1>2 DEF RequestsOf
<1>7. verdict = "denied" => Acts(h, a, "denied")
  BY <1>2 DEF Acts, Kind
<1>8. ChangeBy(h)
  BY <1>4, <1>5, <1>6, <1>7 DEF ChangeBy
<1>9. \A kinds : ~Crossed(a, kinds) \/ <<a, kinds>> \in met'
  BY DEF Remembered, Crossed
<1>10. OfItsKind(h)' /\ Undisturbed(h)'
  <2>1. OfItsKind(h)'
    BY <1>2, <1>4 DEF OfItsKind, Activation, Modification
  <2>2. CASE next = "find"
    <3>1. r \in DOMAIN request' /\ request'[r].allocation = handler'[h].allocation
          /\ request'[r].status = "approved" /\ handler'[h].pc = "find" /\ handler'[h].decision = "active"
      BY <1>2, <1>4, <1>5, <1>6, <2>2
    <3> QED BY <2>1, <3>1 DEF Undisturbed, RequestsOf, Activation, Settlement, Modification
  <2>3. CASE next = "finish"
    <3>1. handler'[h].pc = "finish" /\ handler'[h].decision = "denied"
      BY <1>2, <1>4, <2>3
    <3>2. ~handler'[h].wasActive /\ ~Crossed(handler[h].allocation, {"active", "denied"})'
            => allocation'[handler'[h].allocation].status # "active"
      BY <1>3, <1>4, <1>9, <3>1 DEF Crossed
    <3> QED BY <2>1, <3>1, <3>2 DEF Undisturbed, Activation, Settlement, Modification
  <2> QED BY <2>1, <2>2, <2>3
<1> QED BY <1>8, <1>10, ChangeKeepsMeetInv

LEMMA FindApprovedRequestMet ==
  ASSUME Met, Remembered, NEW h \in Handler, FindApprovedRequest(h)
  PROVE  MeetInv'
<1> DEFINE s == handler[h]
           a == s.allocation
<1>1. UNCHANGED <<allocation, request>>
  BY DEF FindApprovedRequest
<1>2. /\ handler \in [Handler -> HandlerState] /\ Undisturbed(h) /\ OfItsKind(h) /\ s.pc = "find"
      /\ s.decision = "active"
  BY DEF Met, MeetInv, HandlersInStep, TypeOK, FindApprovedRequest, OfItsKind, Activation, At
<1>3. ~Crossed(a, {"active", "denied"}) => \E q \in RequestsOf(a) : request[q].status = "approved"
  BY <1>2 DEF Undisturbed
<1>4. \A kinds : ~Crossed(a, kinds) \/ <<a, kinds>> \in met'
  BY DEF Remembered, Crossed
<1>5. CASE /\ ToProcess(a) = {} \/ allocation[a].resource \notin CloudResource
           /\ handler' = [handler EXCEPT ![h].pc = "finish"]
  <2>1. /\ handler'[h].pc = "finish" /\ handler'[h].allocation = a
        /\ handler'[h].decision = "active"
        /\ \A k \in Handler \ {h} : handler'[k] = handler[k]
    BY <1>2, <1>5 DEF HandlerState
  <2>2. ~Crossed(a, {"active", "denied"}) => SomeProcessed(a)
    BY <1>3, <1>5 DEF SomeProcessed, ToProcess
  <2>3. OfItsKind(h)' /\ Undisturbed(h)'
    BY <1>1, <1>4, <2>1, <2>2
       DEF OfItsKind, Undisturbed, Crossed, SomeProcessed, RequestsOf, Activation, Settlement, Modification
  <2> QED BY <1>1, <2>1, <2>3, QuietChange
<1>6. CASE \E r \in ToProcess(a) :
             handler' = [handler EXCEPT ![h].pc = "commit", ![h].request = r]
  <2>1. PICK r \in ToProcess(a) :
          handler' = [handler EXCEPT ![h].pc = "commit", ![h].request = r]
    BY <1>6
  <2>2. /\ handler'[h].pc = "commit" /\ handler'[h].request = r /\ handler'[h].allocation = a
        /\ handler'[h].decision = "active"
        /\ \A k \in Handler \ {h} : handler'[k] = handler[k]
    BY <1>2, <2>1 DEF HandlerState
  <2>3. r \in RequestsOf(a) /\ ~request[r].processed
    BY DEF ToProcess
  <2>4. OfItsKind(h)' /\ Undisturbed(h)'
    BY <1>1, <2>2, <2>3 DEF OfItsKind, Undisturbed, RequestsOf, Activation, Settlement, Modification
  <2> QED BY <1>1, <2>2, <2>4, QuietChange
<1> QED BY <1>5, <1>6 DEF FindApprovedRequest

LEMMA OpenMergeRequestMet ==
  ASSUME Met, Remembered, NEW h \in Handler, OpenMergeRequest(h)
  PROVE  MeetInv'
<1> DEFINE s == handler[h]
           a == s.allocation
<1>1. /\ handler \in [Handler -> HandlerState] /\ Undisturbed(h) /\ OfItsKind(h) /\ s.pc = "commit"
  BY DEF Met, MeetInv, HandlersInStep, TypeOK, OpenMergeRequest, At
<1>2. /\ s.decision = "active" /\ s.request \in RequestsOf(a)
      /\ ~Crossed(a, {"active"}) => ~request[s.request].processed
  BY <1>1 DEF OfItsKind, Undisturbed, Activation
<1>3. UNCHANGED <<allocation, request>>
  BY DEF OpenMergeRequest
<1>4. PICK m \in MergeRequestId : handler' = [handler EXCEPT ![h].pc = "record", ![h].url = m]
  BY DEF OpenMergeRequest
<1>5. /\ handler'[h].pc = "record" /\ handler'[h].allocation = a
      /\ handler'[h].request = s.request /\ handler'[h].decision = "active"
      /\ \A k \in Handler \ {h} : handler'[k] = handler[k]
  BY <1>1, <1>2, <1>4 DEF HandlerState
<1>6. \A kinds : ~Crossed(a, kinds) \/ <<a, kinds>> \in met'
  BY DEF Remembered, Crossed
<1>7. OfItsKind(h)' /\ Undisturbed(h)'
  BY <1>2, <1>3, <1>5, <1>6
     DEF OfItsKind, Undisturbed, Crossed, RequestsOf, Activation, Settlement, Modification
<1> QED BY <1>3, <1>5, <1>7, QuietChange

LEMMA RecordMergeRequestMet ==
  ASSUME Met, Remembered, NEW h \in Handler, RecordMergeRequest(h)
  PROVE  MeetInv'
<1> DEFINE s == handler[h]
           a == s.allocation
           r == s.request
           url == s.url
<1>1. /\ handler \in [Handler -> HandlerState] /\ request \in [DOMAIN request -> RequestRow]
      /\ OfItsKind(h) /\ s.pc = "record"
  BY DEF Met, MeetInv, HandlersInStep, TypeOK, RecordMergeRequest, At
<1>2. r \in DOMAIN request /\ request[r].allocation = a /\ s.decision = "active" /\ UNCHANGED allocation
  BY <1>1 DEF OfItsKind, Activation, RequestsOf, RecordMergeRequest
<1>3. /\ handler'[h].pc = "finish" /\ handler'[h].allocation = a /\ handler'[h].decision = "active"
      /\ \A k \in Handler \ {h} : handler'[k] = handler[k]
  BY <1>1, <1>2 DEF HandlerState, RecordMergeRequest
<1>4. /\ DOMAIN request' = DOMAIN request
      /\ request'[r].processed
      /\ \A q \in DOMAIN request :
           /\ request'[q].allocation = request[q].allocation
           /\ request'[q].status = request[q].status
           /\ q # r => request'[q].processed = request[q].processed
  <2>1. /\ MarkedProcessed(request[r], url).allocation = request[r].allocation
        /\ MarkedProcessed(request[r], url).status = request[r].status
        /\ MarkedProcessed(request[r], url).processed
    BY <1>1, <1>2 DEF RequestRow, MarkedProcessed
  <2> HIDE DEF MarkedProcessed
  <2> QED BY <1>1, <1>2, <2>1 DEF RecordMergeRequest
<1>5. Acts(h, a, "active")
  BY <1>2 DEF Acts, Kind
<1>6. ChangeBy(h)
  BY <1>2, <1>3, <1>4, <1>5 DEF ChangeBy
<1>7. OfItsKind(h)' /\ Undisturbed(h)'
  <2>1. SomeProcessed(handler[h].allocation)'
    BY <1>2, <1>3, <1>4 DEF SomeProcessed, RequestsOf
  <2> QED BY <1>3, <2>1 DEF OfItsKind, Undisturbed, Activation, Settlement, Modification
<1> QED BY <1>6, <1>7, ChangeKeepsMeetInv

LEMMA FinishSetStatusMet ==
  ASSUME Met, Remembered, NEW h \in Handler, FinishSetStatus(h)
  PROVE  MeetInv'
<1> DEFINE a == handler[h].allocation
<1>1. /\ UNCHANGED request /\ Return(h) /\ At(h, "finish") /\ InStep(h)
      /\ allocation \in [DOMAIN allocation -> AllocationRow]
  BY DEF FinishSetStatus, Met, HandlersInStep, TypeOK
<1>2. CASE allocation' = allocation
  BY <1>1, <1>2, QuietReturn
<1>3. CASE allocation' = [allocation EXCEPT ![a].status = handler[h].decision]
  <2>1. a \in DOMAIN allocation /\ handler[h].decision \in AllocationStatus
    BY <1>1 DEF InStep, At
  <2>2. /\ DOMAIN allocation' = DOMAIN allocation
        /\ allocation'[a].status = handler[h].decision
        /\ \A b \in DOMAIN allocation :
             /\ allocation'[b].resource = allocation[b].resource
             /\ b # a => allocation'[b].status = allocation[b].status
    BY <1>1, <1>3, <2>1 DEF AllocationRow
  <2>3. handler[h].decision = "active" => Acts(h, a, "active")
    BY DEF Acts, Kind
  <2>4. ChangeBy(h)
    BY <1>1, <2>1, <2>2, <2>3, ReturnMet DEF ChangeBy
  <2> QED BY <1>1, <2>4, ReturnMet, ChangeKeepsMeetInv
<1> QED BY <1>2, <1>3 DEF FinishSetStatus

LEMMA CheckLatestRequestMet ==
  ASSUME Met, Remembered, NEW h \in Handler, CheckLatestRequest(h)
  PROVE  MeetInv'
<1> DEFINE a == handler[h].allocation
           latest == {r \in RequestsOf(a) : IsLatest(r, RequestsOf(a))}
<1>1. /\ UNCHANGED <<allocation, request>>
      /\ handler \in [Handler -> HandlerState] /\ request \in [DOMAIN request -> RequestRow]
      /\ DOMAIN request \subseteq RequestId /\ handler[h].pc = "modify_latest"
      /\ PendingIsLatest /\ OfItsKind(h)
  BY DEF CheckLatestRequest, Met, MeetInv, HandlersInStep, TypeOK, At
<1>2. CASE Return(h)
  BY <1>1, <1>2, QuietReturn
<1>3. ASSUME NEW r \in latest, request[r].status # "pending", handler'[h].pc \in Modification,
             handler'[h].allocation = a, handler'[h].decision = handler[h].decision,
             handler'[h].pc \in {"modify_state", "modify_base"},
             \A k \in Handler \ {h} : handler'[k] = handler[k]
      PROVE  MeetInv'
  <2>1. ~Crossed(a, {"modify"}) => NothingPending(a)
    <3> SUFFICES ASSUME ~Crossed(a, {"modify"}), NEW q \in RequestsOf(a), request[q].status = "pending"
                 PROVE  FALSE
      BY DEF NothingPending
    <3>1. IsLatest(q, RequestsOf(a)) /\ IsLatest(r, RequestsOf(a))
      BY <1>1, <1>3 DEF PendingIsLatest, RequestsOf
    <3>2. q = r
      BY <1>1, <3>1 DEF IsLatest, RequestsOf, RequestId
    <3> QED BY <1>3, <3>2
  <2>2. \A kinds : ~Crossed(a, kinds) \/ <<a, kinds>> \in met'
    BY DEF Remembered, Crossed
  <2>3. handler[h].decision = "none"
    BY <1>1 DEF OfItsKind
  <2>4. OfItsKind(h)' /\ Undisturbed(h)'
    BY <1>1, <1>3, <2>1, <2>2, <2>3
       DEF OfItsKind, Undisturbed, Crossed, NothingPending, RequestsOf, Activation, Settlement, Modification
  <2> QED BY <1>1, <1>3, <2>4, QuietChange
<1>4. CASE handler' = [handler EXCEPT ![h].pc = "modify_base"] /\ \E r \in latest : RetryAllowed(request[r])
  <2>1. /\ handler'[h].pc = "modify_base" /\ handler'[h].allocation = a
        /\ handler'[h].decision = handler[h].decision
        /\ \A k \in Handler \ {h} : handler'[k] = handler[k]
    BY <1>1, <1>4 DEF HandlerState
  <2> QED BY <1>3, <1>4, <2>1 DEF RetryAllowed, Modification
<1>5. CASE /\ \E r \in latest : Proposed(request[r])
           /\ \E r \in latest : handler' = [handler EXCEPT ![h].pc = "modify_state",
                                                          ![h].url = request[r].mergeRequestUrl]
  <2>1. /\ handler'[h].pc = "modify_state" /\ handler'[h].allocation = a
        /\ handler'[h].decision = handler[h].decision
        /\ \A k \in Handler \ {h} : handler'[k] = handler[k]
    BY <1>1, <1>5 DEF HandlerState
  <2> QED BY <1>3, <1>5, <2>1 DEF Proposed, Modification
<1> QED BY <1>2, <1>4, <1>5 DEF CheckLatestRequest

LEMMA CheckMergeRequestMet ==
  ASSUME Met, Remembered, NEW h \in Handler, CheckMergeRequest(h)
  PROVE  MeetInv'
<1> DEFINE a == handler[h].allocation
<1>1. /\ UNCHANGED <<allocation, request>>
      /\ handler \in [Handler -> HandlerState] /\ Undisturbed(h) /\ OfItsKind(h)
      /\ handler[h].pc = "modify_state"
  BY DEF CheckMergeRequest, Met, MeetInv, HandlersInStep, TypeOK, At
<1>2. CASE Return(h)
  BY <1>1, <1>2, QuietReturn
<1>3. CASE handler' = [handler EXCEPT ![h].pc = "modify_base", ![h].url = 0]
  <2>1. /\ handler'[h].pc = "modify_base" /\ handler'[h].allocation = a
        /\ handler'[h].decision = handler[h].decision
        /\ \A k \in Handler \ {h} : handler'[k] = handler[k]
    BY <1>1, <1>3 DEF HandlerState
  <2>2. handler[h].decision = "none" /\ (~Crossed(a, {"modify"}) => NothingPending(a))
    BY <1>1 DEF OfItsKind, Undisturbed, Modification
  <2>3. \A kinds : ~Crossed(a, kinds) \/ <<a, kinds>> \in met'
    BY DEF Remembered, Crossed
  <2>4. OfItsKind(h)' /\ Undisturbed(h)'
    BY <1>1, <2>1, <2>2, <2>3
       DEF OfItsKind, Undisturbed, Crossed, NothingPending, RequestsOf, Activation, Settlement, Modification
  <2> QED BY <1>1, <2>1, <2>4, QuietChange
<1> QED BY <1>2, <1>3 DEF CheckMergeRequest

LEMMA FindBaseRequestMet ==
  ASSUME Met, Remembered, NEW h \in Handler, FindBaseRequest(h)
  PROVE  MeetInv'
<1> DEFINE a == handler[h].allocation
<1>1. /\ UNCHANGED <<allocation, request>>
      /\ handler \in [Handler -> HandlerState] /\ Undisturbed(h) /\ OfItsKind(h)
      /\ handler[h].pc = "modify_base"
  BY DEF FindBaseRequest, Met, MeetInv, HandlersInStep, TypeOK, At
<1>2. CASE Return(h)
  BY <1>1, <1>2, QuietReturn
<1>3. CASE \E d \in BaseDomain(a), next \in {"modify_date", "modify_insert"} :
             handler' = [handler EXCEPT ![h].pc = next, ![h].domain = d]
  <2>1. /\ handler'[h].pc \in {"modify_date", "modify_insert"} /\ handler'[h].allocation = a
        /\ handler'[h].decision = handler[h].decision
        /\ \A k \in Handler \ {h} : handler'[k] = handler[k]
    BY <1>1, <1>3 DEF HandlerState
  <2>2. handler[h].decision = "none" /\ (~Crossed(a, {"modify"}) => NothingPending(a))
    BY <1>1 DEF OfItsKind, Undisturbed, Modification
  <2>3. \A kinds : ~Crossed(a, kinds) \/ <<a, kinds>> \in met'
    BY DEF Remembered, Crossed
  <2>4. OfItsKind(h)' /\ Undisturbed(h)'
    BY <1>1, <2>1, <2>2, <2>3
       DEF OfItsKind, Undisturbed, Crossed, NothingPending, RequestsOf, Activation, Settlement, Modification
  <2> QED BY <1>1, <2>1, <2>4, QuietChange
<1> QED BY <1>2, <1>3 DEF FindBaseRequest

LEMMA MoveEndDateMet ==
  ASSUME Met, Remembered, NEW h \in Handler, MoveEndDate(h)
  PROVE  MeetInv'
<1> DEFINE a == handler[h].allocation
<1>1. /\ UNCHANGED <<allocation, request>>
      /\ handler \in [Handler -> HandlerState] /\ Undisturbed(h) /\ OfItsKind(h)
      /\ handler[h].pc = "modify_date"
  BY DEF MoveEndDate, Met, MeetInv, HandlersInStep, TypeOK, At
<1>2. /\ handler'[h].pc = "modify_insert" /\ handler'[h].allocation = a
      /\ handler'[h].decision = handler[h].decision
      /\ \A k \in Handler \ {h} : handler'[k] = handler[k]
  BY <1>1 DEF MoveEndDate, HandlerState
<1>3. handler[h].decision = "none" /\ (~Crossed(a, {"modify"}) => NothingPending(a))
  BY <1>1 DEF OfItsKind, Undisturbed, Modification
<1>4. \A kinds : ~Crossed(a, kinds) \/ <<a, kinds>> \in met'
  BY DEF Remembered, Crossed
<1>5. OfItsKind(h)' /\ Undisturbed(h)'
  BY <1>1, <1>2, <1>3, <1>4
     DEF OfItsKind, Undisturbed, Crossed, NothingPending, RequestsOf, Activation, Settlement, Modification
<1> QED BY <1>1, <1>2, <1>5, QuietChange

\* One more request is the last one, and nobody else's row changes.
LEMMA InsertIsLast ==
  ASSUME Met, NEW a \in AllocationId, NEW d \in Domain, NEW r \in RequestId, IsNextId(request, r),
         request' = Insert(request, r, PendingRequest(a, d))
  PROVE  /\ DOMAIN request' \ DOMAIN request = {r}
         /\ DOMAIN request \subseteq DOMAIN request'
         /\ request'[r].allocation = a
         /\ \A q \in DOMAIN request : request'[q] = request[q]
         /\ \A q \in DOMAIN request' : q <= r
<1>1. PendingRequest(a, d) \in RequestRow /\ PendingRequest(a, d).allocation = a
  BY DEF PendingRequest, RequestRow, RequestStatus
<1>2. /\ r \notin DOMAIN request
      /\ DOMAIN request' = DOMAIN request \cup {r}
      /\ request'[r].allocation = a
      /\ \A q \in DOMAIN request : request'[q] = request[q]
  BY <1>1, InsertRequest DEF Met, HandlersInStep
<1>3. r \in Nat /\ \A q \in DOMAIN request : q \in Nat /\ q <= r
  BY DEF IsNextId, RequestId
<1> QED BY <1>2, <1>3

LEMMA InsertModificationMet ==
  ASSUME Met, Remembered, NEW h \in Handler, InsertModification(h)
  PROVE  MeetInv'
<1> DEFINE a == handler[h].allocation
           d == handler[h].domain
<1>1. /\ UNCHANGED allocation /\ At(h, "modify_insert") /\ Return(h)
      /\ OfItsKind(h) /\ InStep(h)
      /\ request \in [DOMAIN request -> RequestRow] /\ DOMAIN allocation \subseteq AllocationId
  BY DEF InsertModification, Met, MeetInv, HandlersInStep, TypeOK
<1>2. a \in AllocationId /\ d \in Domain
  BY <1>1 DEF At, InStep, RequestsOf, RequestRow
<1>3. PICK r \in RequestId :
        IsNextId(request, r) /\ request' = Insert(request, r, PendingRequest(a, d))
  BY DEF InsertModification
<1>4. /\ DOMAIN request' \ DOMAIN request = {r}
      /\ DOMAIN request \subseteq DOMAIN request'
      /\ request'[r].allocation = a
      /\ \A q \in DOMAIN request : request'[q] = request[q]
      /\ \A q \in DOMAIN request' : q <= r
  BY <1>2, <1>3, InsertIsLast
<1>5. Acts(h, a, "modify")
  BY <1>1 DEF OfItsKind, At, Modification, Acts, Kind
<1>6. ChangeBy(h)
  BY <1>1, <1>4, <1>5, ReturnMet DEF ChangeBy
<1> QED BY <1>1, <1>6, ReturnMet, ChangeKeepsMeetInv

LEMMA CommitRequestMet ==
  ASSUME Met, Remembered, NEW h \in Handler, CommitRequest(h)
  PROVE  MeetInv'
<1> DEFINE new == NewAllocation(handler[h].project, handler[h].resource)
<1>1. Return(h)
  BY DEF CommitRequest
<1>2. PICK a \in AllocationId :
        /\ IsNextId(allocation, a)
        /\ allocation' = Insert(allocation, a, new)
        /\ IF handler[h].resource \in CloudResource
           THEN \E r \in RequestId, d \in Domain :
                  /\ IsNextId(request, r)
                  /\ request' = Insert(request, r, PendingRequest(a, d))
           ELSE request' = request
  BY DEF CommitRequest
<1>3. /\ a \notin DOMAIN allocation
      /\ DOMAIN allocation' = DOMAIN allocation \cup {a}
      /\ allocation'[a].status = "new" /\ allocation'[a].resource = handler[h].resource
      /\ \A b \in DOMAIN allocation : allocation'[b] = allocation[b]
  BY <1>2, NextIdIsFresh DEF Insert, NewAllocation, AllocationId
<1>4. ChangeBy(h)
  <2>1. CASE handler[h].resource \in CloudResource
    <3>1. PICK r \in RequestId, d \in Domain :
            IsNextId(request, r) /\ request' = Insert(request, r, PendingRequest(a, d))
      BY <1>2, <2>1
    <3>2. /\ DOMAIN request' \ DOMAIN request = {r}
          /\ DOMAIN request \subseteq DOMAIN request'
          /\ request'[r].allocation = a
          /\ \A q \in DOMAIN request : request'[q] = request[q]
          /\ \A q \in DOMAIN request' : q <= r
      BY <3>1, InsertIsLast
    <3>3. RequestsOf(a)' # {}
      BY <3>2 DEF RequestsOf
    <3>4. \A b \in DOMAIN allocation' \ DOMAIN allocation : b = a
      BY <1>3
    <3> QED BY <1>1, <1>3, <3>2, <3>3, <3>4, ReturnMet DEF ChangeBy
  <2>2. CASE handler[h].resource \notin CloudResource
    BY <1>1, <1>2, <1>3, <2>2, ReturnMet DEF ChangeBy
  <2> QED BY <2>1, <2>2
<1> QED BY <1>1, <1>4, ReturnMet, ChangeKeepsMeetInv

LEMMA ProgressMet ==
  ASSUME Met, Remembered, NEW h \in Handler, Progress(h)
  PROVE  MeetInv'
<1>1. ApproveRequest(h) \/ DenyRequest(h) => MeetInv'
  BY DecisionMet DEF ApproveRequest, DenyRequest
<1> QED
  BY <1>1, CommitRequestMet, ReadLatestRequestMet, FindApprovedRequestMet,
     OpenMergeRequestMet, RecordMergeRequestMet, FinishSetStatusMet,
     CheckLatestRequestMet, CheckMergeRequestMet, FindBaseRequestMet,
     MoveEndDateMet, InsertModificationMet
     DEF Progress

LEMMA NextMet == Met /\ [MeetNext]_meetVars => MeetInv'
<1> SUFFICES ASSUME Met, [MeetNext]_meetVars PROVE MeetInv'
  OBVIOUS
<1>1. CASE UNCHANGED meetVars
  BY <1>1 DEF meetVars, vars, Met, MeetInv, Meetings, InFlight, Kind, PendingIsLatest, CloudHasRequest,
              ActiveWasProposed, RequestsOf, IsLatest, OfItsKind, Undisturbed, SomeProcessed,
              NothingPending, Crossed
<1>2. CASE MeetNext
  <2>1. Remembered
    BY <1>2 DEF MeetNext, Remembered
  <2>2. ASSUME NEW h \in Handler, Fail(h) PROVE MeetInv'
    BY <2>1, <2>2, QuietReturn DEF Fail
  <2>3. ASSUME NEW m \in DOMAIN mergeRequest, NEW outcome \in {"merged", "closed"},
               Settle(m, outcome)
        PROVE  MeetInv'
    <3>1. UNCHANGED <<allocation, request, handler>>
      BY <2>3 DEF Settle
    <3>2. Meetings' \subseteq met'
      BY <2>1 DEF Remembered
    <3>3. \A h \in Handler : OfItsKind(h)'
      BY <3>1 DEF Met, MeetInv, OfItsKind, RequestsOf
    <3>4. \A h \in Handler : Undisturbed(h)'
      BY <2>1, <3>1
         DEF Met, MeetInv, Remembered, Undisturbed, Crossed, RequestsOf, SomeProcessed, NothingPending
    <3>5. PendingIsLatest' /\ CloudHasRequest' /\ ActiveWasProposed'
      BY <2>1, <3>1 DEF Met, MeetInv, Remembered, PendingIsLatest, CloudHasRequest, ActiveWasProposed,
                        Crossed, RequestsOf, IsLatest
    <3> QED BY <3>2, <3>3, <3>4, <3>5 DEF MeetInv
  <2> QED BY <1>2, <2>1, <2>2, <2>3, RequestAllocationMet, SetStatusMet, ModifyMet, ProgressMet
             DEF MeetNext, Next
<1> QED BY <1>1, <1>2

LEMMA InitMet == MeetInit => MeetInv
<1> SUFFICES ASSUME MeetInit PROVE MeetInv
  OBVIOUS
<1>1. \A h \in Handler : handler[h].pc = "idle" /\ handler[h].allocation = 0
  BY DEF MeetInit, Init, Idle
<1>2. Meetings \subseteq met
  BY <1>1 DEF Meetings, InFlight
<1>3. \A h \in Handler : OfItsKind(h) /\ Undisturbed(h)
  BY <1>1 DEF OfItsKind, Undisturbed, Activation, Settlement, Modification
<1>4. PendingIsLatest /\ CloudHasRequest /\ ActiveWasProposed
  BY DEF MeetInit, Init, EmptyTable, PendingIsLatest, CloudHasRequest, ActiveWasProposed
<1> QED BY <1>2, <1>3, <1>4 DEF MeetInv

\* The history variable takes nothing away: what holds of the handlers holds of
\* the handlers whose meetings are recorded.
LEMMA MeetingsOnlyWatch == MeetSpec => Spec
<1>1. MeetInit => Init
  BY DEF MeetInit
<1>2. [MeetNext]_meetVars => [Next]_vars
  BY DEF MeetNext, meetVars
<1> QED BY <1>1, <1>2, PTL DEF MeetSpec, Spec

\* Whatever handlers interleave and fail, what one of them read is still so at
\* each of its awaits unless it met a handler of the kind that changes it
\* (setStatus, processApprovedAllocation, modifyOpenstackAllocation).
THEOREM OnlyMeetingsDisturb == MeetSpec => []Met
<1>1. HandlersInStep /\ RecordedUrlIsOwn /\ MeetInv /\ [MeetNext]_meetVars => MeetInv'
  BY NextMet DEF Met
<1>2. HandlersInStep /\ RecordedUrlIsOwn /\ MeetInv => Met
  BY DEF Met
<1>3. MeetSpec => []HandlersInStep /\ []RecordedUrlIsOwn
  BY MeetingsOnlyWatch, HandlersStayInStep, RecordedUrlStaysOwn, PTL
<1> QED BY <1>1, <1>2, <1>3, InitMet, PTL DEF MeetSpec

-----------------------------------------------------------------------------
(* Which step writes what                                                  *)

LEMMA MeetStep == [MeetNext]_meetVars => [Next]_vars
BY DEF MeetNext, meetVars

LEMMA ProgressWrites ==
  ASSUME NEW h \in Handler, Progress(h)
  PROVE  /\ CommitRequest(h) \/ FinishSetStatus(h) \/ UNCHANGED allocation
         /\ \/ CommitRequest(h) \/ ApproveRequest(h) \/ DenyRequest(h) \/ RecordMergeRequest(h)
            \/ InsertModification(h) \/ UNCHANGED request
         /\ OpenMergeRequest(h) \/ UNCHANGED mergeRequest
         /\ UNCHANGED failures
<1>1. ReadLatestRequest(h) => UNCHANGED <<allocation, request, mergeRequest, failures>>
  BY DEF ReadLatestRequest
<1>2. FindApprovedRequest(h) => UNCHANGED <<allocation, request, mergeRequest, failures>>
  BY DEF FindApprovedRequest
<1>3. CheckLatestRequest(h) => UNCHANGED <<allocation, request, mergeRequest, failures>>
  BY DEF CheckLatestRequest
<1>4. CheckMergeRequest(h) \/ FindBaseRequest(h) \/ MoveEndDate(h)
        => UNCHANGED <<allocation, request, mergeRequest, failures>>
  BY DEF CheckMergeRequest, FindBaseRequest, MoveEndDate
<1>5. CommitRequest(h) => UNCHANGED <<mergeRequest, failures>>
  BY DEF CommitRequest
<1>6. ApproveRequest(h) \/ DenyRequest(h) \/ RecordMergeRequest(h) \/ InsertModification(h)
        => UNCHANGED <<allocation, mergeRequest, failures>>
  BY DEF ApproveRequest, DenyRequest, RecordMergeRequest, InsertModification
<1>7. OpenMergeRequest(h) => UNCHANGED <<allocation, request, failures>>
  BY DEF OpenMergeRequest
<1>8. FinishSetStatus(h) => UNCHANGED <<request, mergeRequest, failures>>
  BY DEF FinishSetStatus
<1> QED BY <1>1, <1>2, <1>3, <1>4, <1>5, <1>6, <1>7, <1>8 DEF Progress

LEMMA OtherStepsWrite ==
  ASSUME [Next]_vars, ~\E h \in Handler : Progress(h)
  PROVE  /\ UNCHANGED <<allocation, request>>
         /\ \/ UNCHANGED mergeRequest
            \/ \E m \in DOMAIN mergeRequest, outcome \in {"merged", "closed"} : Settle(m, outcome)
         /\ (\E h \in Handler : Fail(h)) \/ UNCHANGED failures
<1>1. CASE UNCHANGED vars
  BY <1>1 DEF vars
<1>2. ASSUME NEW h \in Handler, NEW p \in Project, NEW res \in Resource, RequestAllocation(h, p, res)
      PROVE  UNCHANGED <<allocation, request, mergeRequest, failures>>
  BY <1>2 DEF RequestAllocation
<1>3. ASSUME NEW h \in Handler, NEW a \in DOMAIN allocation, NEW d \in Decision, SetStatus(h, a, d)
      PROVE  UNCHANGED <<allocation, request, mergeRequest, failures>>
  BY <1>3 DEF SetStatus
<1>4. ASSUME NEW h \in Handler, NEW a \in DOMAIN allocation, Modify(h, a)
      PROVE  UNCHANGED <<allocation, request, mergeRequest, failures>>
  BY <1>4 DEF Modify
<1>5. ASSUME NEW h \in Handler, Fail(h) PROVE UNCHANGED <<allocation, request, mergeRequest>>
  BY <1>5 DEF Fail
<1>6. ASSUME NEW m \in DOMAIN mergeRequest, NEW outcome \in {"merged", "closed"}, Settle(m, outcome)
      PROVE  UNCHANGED <<allocation, request, failures>>
  BY <1>6 DEF Settle
<1> QED BY <1>1, <1>2, <1>3, <1>4, <1>5, <1>6 DEF Next

-----------------------------------------------------------------------------
(* What the handlers promise                                               *)

\* A pending request of an active allocation is the latest one and is shown to
\* the admins (getAll under "pending-modification", setStatus), unless two
\* modifications of the allocation met.
THEOREM PendingStaysShown == MeetSpec => []PendingIsShown
<1>1. Met => PendingIsShown
  <2> SUFFICES ASSUME Met, NEW r \in DOMAIN request, request[r].status = "pending",
                      allocation[request[r].allocation].status = "active",
                      ~Crossed(request[r].allocation, {"modify"})
               PROVE  /\ request[r].allocation \in PendingModifications
                      /\ IsLatest(r, RequestsOf(request[r].allocation))
    BY DEF PendingIsShown
  <2>1. /\ IsLatest(r, RequestsOf(request[r].allocation)) /\ r \in RequestsOf(request[r].allocation)
        /\ request[r].allocation \in DOMAIN allocation
    BY DEF Met, MeetInv, PendingIsLatest, RequestsOf, HandlersInStep, RowsLinked
  <2> QED BY <2>1 DEF PendingModifications
<1> QED BY <1>1, OnlyMeetingsDisturb, PTL

\* A cloud allocation is active only after a merge request of one of its
\* requests was recorded (setStatus, processApprovedAllocation), unless one of
\* its activations met a denial.
THEOREM ActiveWentThroughGit == MeetSpec => []ActiveWasProposed
<1>1. Met => ActiveWasProposed
  BY DEF Met, MeetInv
<1> QED BY <1>1, OnlyMeetingsDisturb, PTL

LEMMA DenialStep ==
  ASSUME Met, [Next]_vars, NEW a \in DOMAIN allocation, allocation[a].status = "active",
         ~Crossed(a, {"active", "denied"})
  PROVE  allocation'[a].status # "denied"
<1>1. allocation \in [DOMAIN allocation -> AllocationRow]
  BY DEF Met, HandlersInStep, TypeOK
<1>2. CASE allocation' = allocation
  BY <1>2
<1>3. ASSUME NEW h \in Handler, CommitRequest(h) PROVE allocation'[a].status # "denied"
  <2>1. PICK b \in AllocationId :
          /\ IsNextId(allocation, b)
          /\ allocation' = Insert(allocation, b, NewAllocation(handler[h].project, handler[h].resource))
    BY <1>3 DEF CommitRequest
  <2>2. allocation'[a] = allocation[a]
    BY <2>1, NextIdIsFresh DEF Insert, AllocationId
  <2> QED BY <2>2
<1>4. ASSUME NEW h \in Handler, FinishSetStatus(h) PROVE allocation'[a].status # "denied"
  <2> DEFINE b == handler[h].allocation
  <2>1. CASE handler[h].decision = "denied" /\ b = a
    <3>1. handler[h].wasActive
      BY <1>4, <2>1 DEF FinishSetStatus, At, Met, MeetInv, Undisturbed, Settlement
    <3> QED BY <1>4, <2>1, <3>1 DEF FinishSetStatus, KeepsStatus
  <2>2. CASE handler[h].decision # "denied" \/ b # a
    BY <1>1, <1>4, <2>2 DEF FinishSetStatus, AllocationRow
  <2> QED BY <2>1, <2>2
<1>5. ASSUME NEW h \in Handler, Progress(h) PROVE allocation'[a].status # "denied"
  BY <1>2, <1>3, <1>4, <1>5, ProgressWrites
<1> QED BY <1>2, <1>5, OtherStepsWrite

\* Denying a modification leaves the allocation active (setStatus), unless the
\* denial met an activation.
THEOREM DenialNeverRevokes == MeetSpec => DenialKeepsActive
<1>1. Met /\ [MeetNext]_meetVars =>
        [\A a \in DOMAIN allocation :
           allocation[a].status = "active" /\ ~Crossed(a, {"active", "denied"})
             => allocation'[a].status # "denied"]_meetVars
  BY DenialStep, MeetStep
<1> QED BY <1>1, OnlyMeetingsDisturb, PTL DEF MeetSpec, DenialKeepsActive

\* The URL of a processed request does not change in a step of any handler.
LEMMA UrlStep ==
  ASSUME Met, [Next]_vars, NEW r \in DOMAIN request, request[r].processed,
         ~Crossed(request[r].allocation, {"active"})
  PROVE  request'[r].mergeRequestUrl = request[r].mergeRequestUrl
<1> DEFINE Stands == request'[r].mergeRequestUrl = request[r].mergeRequestUrl
<1>1. request \in [DOMAIN request -> RequestRow]
  BY DEF Met, HandlersInStep, TypeOK
<1>2. ASSUME request' = request PROVE Stands
  BY <1>2
<1>3. ASSUME NEW q \in RequestId, NEW row, IsNextId(request, q), request' = Insert(request, q, row)
      PROVE  Stands
  BY <1>3, NextIdIsFresh DEF Insert, RequestId
<1>4. ASSUME NEW h \in Handler, CommitRequest(h) PROVE Stands
  BY <1>2, <1>3, <1>4 DEF CommitRequest
<1>5. ASSUME NEW h \in Handler, ApproveRequest(h) \/ DenyRequest(h) PROVE Stands
  BY <1>1, <1>5 DEF ApproveRequest, DenyRequest, RequestRow
<1>6. ASSUME NEW h \in Handler, RecordMergeRequest(h) PROVE Stands
  <2>1. r # handler[h].request
    BY <1>6 DEF RecordMergeRequest, At, Met, MeetInv, OfItsKind, Undisturbed, RequestsOf
  <2> QED BY <1>6, <2>1 DEF RecordMergeRequest
<1>7. ASSUME NEW h \in Handler, InsertModification(h) PROVE Stands
  BY <1>3, <1>7 DEF InsertModification
<1>8. ASSUME NEW h \in Handler, Progress(h) PROVE Stands
  BY <1>2, <1>4, <1>5, <1>6, <1>7, <1>8, ProgressWrites
<1> QED BY <1>2, <1>8, OtherStepsWrite

\* Once recorded, the merge request of a request is never replaced by another
\* (processApprovedAllocation leaves processed requests out), unless two
\* activations met.
THEOREM RecordedUrlNeverChanges == MeetSpec => RecordedUrlStands
<1>1. Met /\ [MeetNext]_meetVars =>
        [\A r \in DOMAIN request :
           request[r].processed /\ ~Crossed(request[r].allocation, {"active"})
             => request'[r].mergeRequestUrl = request[r].mergeRequestUrl]_meetVars
  BY UrlStep, MeetStep
<1> QED BY <1>1, OnlyMeetingsDisturb, PTL DEF MeetSpec, RecordedUrlStands

-----------------------------------------------------------------------------
(* Merge requests nobody points to                                         *)

LEMMA AbandonedIsFinite ==
  ASSUME NEW S, S \subseteq MergeRequestId
  PROVE  IsFiniteSet(S) /\ Cardinality(S) \in Nat
<1>1. IsFiniteSet(MergeRequestId)
  BY BoundsAssumption, FS_Interval DEF MergeRequestId
<1> QED BY <1>1, FS_Subset, FS_CardinalityType

LEMMA AtMostOneMore ==
  ASSUME NEW S, IsFiniteSet(S), Cardinality(S) \in Nat, NEW x
  PROVE  /\ IsFiniteSet(S \cup {x})
         /\ Cardinality(S \cup {x}) <= Cardinality(S) + 1
         /\ Cardinality(S \cup {x}) \in Nat
<1>1. CASE x \in S
  <2>1. S \cup {x} = S
    BY <1>1
  <2>2. IsFiniteSet(S \cup {x}) /\ Cardinality(S \cup {x}) = Cardinality(S)
    BY <2>1, Zenon
  <2> QED BY <2>2
<1>2. CASE x \notin S
  <2>1. IsFiniteSet(S \cup {x}) /\ Cardinality(S \cup {x}) = Cardinality(S) + 1
    BY <1>2, FS_AddElement
  <2> QED BY <2>1
<1> QED BY <1>1, <1>2

\* No request changes hands.
LEMMA AllocationIsKept ==
  ASSUME Met, [Next]_vars, NEW r \in DOMAIN request
  PROVE  request'[r].allocation = request[r].allocation
<1>1. request \in [DOMAIN request -> RequestRow]
  BY DEF Met, HandlersInStep, TypeOK
<1>2. ASSUME NEW q \in RequestId, NEW row, IsNextId(request, q), request' = Insert(request, q, row)
      PROVE  request'[r] = request[r]
  BY <1>2, NextIdIsFresh DEF Insert, RequestId
<1>3. ASSUME NEW h \in Handler, CommitRequest(h) \/ InsertModification(h)
      PROVE  request'[r] = request[r]
  BY <1>2, <1>3 DEF CommitRequest, InsertModification
<1>4. ASSUME NEW h \in Handler, ApproveRequest(h) \/ DenyRequest(h) \/ RecordMergeRequest(h)
      PROVE  request'[r].allocation = request[r].allocation
  <2>1. CASE ApproveRequest(h) \/ DenyRequest(h)
    BY <1>1, <2>1 DEF ApproveRequest, DenyRequest, RequestRow
  <2>2. CASE RecordMergeRequest(h)
    BY <1>1, <2>2 DEF RecordMergeRequest, MarkedProcessed, RequestRow
  <2> QED BY <1>4, <2>1, <2>2
<1> QED BY <1>3, <1>4, ProgressWrites, OtherStepsWrite

\* A handler moves in its own steps only.
LEMMA Moves ==
  ASSUME [Next]_vars, handler \in [Handler -> HandlerState],
         NEW h \in Handler, handler'[h] # handler[h]
  PROVE  \/ \E p \in Project, res \in Resource : RequestAllocation(h, p, res)
         \/ \E a \in DOMAIN allocation, d \in Decision : SetStatus(h, a, d)
         \/ \E a \in DOMAIN allocation : Modify(h, a)
         \/ Progress(h) \/ Fail(h)
<1>1. ASSUME NEW k \in Handler, handler'[h] = handler[h] \/ k = h PROVE k = h
  BY <1>1
<1>2. ASSUME NEW k \in Handler, NEW s, handler' = [handler EXCEPT ![k] = s] PROVE k = h
  BY <1>2
<1>3. ASSUME NEW k \in Handler, Return(k) \/ Fail(k) PROVE k = h
  BY <1>2, <1>3 DEF Return, Fail
<1>4. ASSUME NEW k \in Handler, Progress(k) PROVE k = h
  BY <1>2, <1>3, <1>4
     DEF Progress, CommitRequest, ReadLatestRequest, ApproveRequest, DenyRequest, FindApprovedRequest,
         OpenMergeRequest, RecordMergeRequest, FinishSetStatus, CheckLatestRequest,
         CheckMergeRequest, FindBaseRequest, MoveEndDate, InsertModification
<1>5. ASSUME NEW k \in Handler, NEW p \in Project, NEW res \in Resource, RequestAllocation(k, p, res)
      PROVE  k = h
  BY <1>2, <1>5 DEF RequestAllocation
<1>6. ASSUME NEW k \in Handler, NEW a \in DOMAIN allocation, NEW d \in Decision, SetStatus(k, a, d)
      PROVE  k = h
  BY <1>2, <1>6 DEF SetStatus
<1>7. ASSUME NEW k \in Handler, NEW a \in DOMAIN allocation, Modify(k, a) PROVE k = h
  BY <1>2, <1>7 DEF Modify
<1> QED BY <1>3, <1>4, <1>5, <1>6, <1>7 DEF Next, vars, Settle

\* From "record" a handler goes on to record, or it fails.
LEMMA RecorderMoves ==
  ASSUME Met, [Next]_vars, NEW h \in Handler, handler[h].pc = "record", handler'[h] # handler[h],
         ~Fail(h)
  PROVE  RecordMergeRequest(h)
<1>1. \A p, res, a, d : ~RequestAllocation(h, p, res) /\ ~SetStatus(h, a, d) /\ ~Modify(h, a)
  BY DEF RequestAllocation, SetStatus, Modify, At
<1>2. handler \in [Handler -> HandlerState]
  BY DEF Met, HandlersInStep, TypeOK
<1>3. Progress(h)
  BY <1>1, <1>2, Moves
<1> QED BY <1>3 DEF Progress, At, CommitRequest, ReadLatestRequest, ApproveRequest, DenyRequest,
           FindApprovedRequest, OpenMergeRequest, FinishSetStatus, CheckLatestRequest,
           CheckMergeRequest, FindBaseRequest, MoveEndDate, InsertModification

LEMMA OneFails ==
  ASSUME Met, NEW h \in Handler, Fail(h), NEW k \in Handler, Fail(k)
  PROVE  k = h
<1>1. handler'[h].pc = "idle" /\ handler[h].pc # "idle"
  BY IdleInStep DEF Fail, Return, At, Met, HandlersInStep, TypeOK
<1> QED BY <1>1 DEF Fail, Return, Met, HandlersInStep, TypeOK

\* Whatever step is taken, a merge request that is abandoned after it was so
\* before, or the handler that was about to record it has failed.
LEMMA AbandonedStep ==
  ASSUME Met, [MeetNext]_meetVars, NEW m \in Abandoned'
  PROVE  m \in Abandoned \/ \E h \in Handler : Fail(h) /\ handler[h].url = m
<1>1. /\ handler \in [Handler -> HandlerState] /\ request \in [DOMAIN request -> RequestRow]
      /\ mergeRequest \in [DOMAIN mergeRequest -> MergeRequestRow]
      /\ DOMAIN mergeRequest \subseteq MergeRequestId
      /\ \A h \in Handler : InStep(h)
      /\ \A k \in DOMAIN mergeRequest : mergeRequest[k].request \in DOMAIN request
  BY DEF Met, HandlersInStep, TypeOK, RowsLinked
<1>2. SUFFICES ASSUME m \notin Abandoned, ~\E h \in Handler : Fail(h) /\ handler[h].url = m
               PROVE  FALSE
  OBVIOUS
<1>3. /\ m \in DOMAIN mergeRequest'
      /\ request'[mergeRequest'[m].request].mergeRequestUrl # m
      /\ ~Crossed(request[mergeRequest[m].request].allocation, {"active"})'
      /\ \A h \in Handler : ~(handler'[h].pc = "record" /\ handler'[h].url = m)
  BY DEF Abandoned, At
<1>4. [Next]_vars /\ met \subseteq met'
  BY MeetStep DEF MeetNext, meetVars
<1>5. m \in DOMAIN mergeRequest
  <2> SUFFICES ASSUME m \notin DOMAIN mergeRequest PROVE FALSE
    OBVIOUS
  <2>1. PICK h \in Handler : OpenMergeRequest(h)
    BY <1>3, <1>4, ProgressWrites, OtherStepsWrite DEF Settle
  <2>2. PICK k \in MergeRequestId :
          /\ mergeRequest' = Insert(mergeRequest, k, OpenedFor(handler[h].request))
          /\ handler' = [handler EXCEPT ![h].pc = "record", ![h].url = k]
    BY <2>1 DEF OpenMergeRequest
  <2>3. k = m
    BY <1>3, <2>2 DEF Insert
  <2> QED BY <1>1, <1>3, <2>2, <2>3 DEF HandlerState
<1> DEFINE r == mergeRequest[m].request
<1>6. r \in DOMAIN request /\ mergeRequest'[m].request = r
  <2>1. CASE mergeRequest' = mergeRequest
    BY <1>1, <1>5, <2>1
  <2>2. ASSUME NEW h \in Handler, OpenMergeRequest(h) PROVE mergeRequest'[m].request = r
    BY <1>5, <2>2, NextIdIsFresh DEF OpenMergeRequest, Insert, MergeRequestId
  <2>3. ASSUME NEW k \in DOMAIN mergeRequest, NEW outcome \in {"merged", "closed"}, Settle(k, outcome)
        PROVE  mergeRequest'[m].request = r
    BY <1>1, <1>5, <2>3 DEF Settle, MergeRequestRow
  <2>4. \/ mergeRequest' = mergeRequest
        \/ \E h \in Handler : OpenMergeRequest(h)
        \/ \E k \in DOMAIN mergeRequest, outcome \in {"merged", "closed"} : Settle(k, outcome)
    BY <1>4, ProgressWrites, OtherStepsWrite
  <2> QED BY <1>1, <1>5, <2>1, <2>2, <2>3, <2>4
<1>7. request'[r].allocation = request[r].allocation /\ ~Crossed(request[r].allocation, {"active"})
  <2>1. request'[r].allocation = request[r].allocation
    BY <1>6, AllocationIsKept, <1>4 DEF Met
  <2> QED BY <1>3, <1>4, <1>6, <2>1 DEF Crossed
<1>8. request[r].mergeRequestUrl # m
  <2> SUFFICES ASSUME request[r].mergeRequestUrl = m PROVE FALSE
    OBVIOUS
  <2>1. request[r].processed
    BY <1>1, <1>5, <1>6 DEF Met, RecordedUrlIsOwn, Ledger!RecordedUrlIsOwn, MergeRequestId
  <2>2. request'[r].mergeRequestUrl = m
    BY <1>4, <1>6, <1>7, <2>1, UrlStep
  <2> QED BY <1>3, <1>6, <2>2
<1>9. PICK h \in Handler : handler[h].pc = "record" /\ handler[h].url = m
  BY <1>2, <1>5, <1>7, <1>8 DEF Abandoned, At
<1>10. handler[h].request = r
  BY <1>1, <1>9 DEF InStep
<1>11. handler'[h] # handler[h]
  BY <1>3, <1>9
<1>12. RecordMergeRequest(h)
  BY <1>1, <1>2, <1>4, <1>9, <1>11, RecorderMoves DEF Met
<1>13. request'[r].mergeRequestUrl = m
  BY <1>1, <1>6, <1>9, <1>10, <1>12 DEF RecordMergeRequest, MarkedProcessed, RequestRow
<1> QED BY <1>3, <1>6, <1>13

LEMMA NextMakesNoOrphan ==
  Met /\ OrphansComeFromFailures /\ [MeetNext]_meetVars => OrphansComeFromFailures'
<1> SUFFICES ASSUME Met, OrphansComeFromFailures, [MeetNext]_meetVars PROVE OrphansComeFromFailures'
  OBVIOUS
<1>1. failures \in Nat /\ IsFiniteSet(Abandoned) /\ Cardinality(Abandoned) \in Nat
  BY AbandonedIsFinite DEF Abandoned, Met, HandlersInStep, TypeOK
<1>2. CASE \E h \in Handler : Fail(h)
  <2>1. PICK h \in Handler : Fail(h)
    BY <1>2
  <2> DEFINE m == handler[h].url
  <2>2. \A k \in Handler : Fail(k) => k = h
    BY <2>1, OneFails DEF Met
  <2>3. Abandoned' \subseteq Abandoned \cup {m}
    BY <2>2, AbandonedStep
  <2>4. /\ IsFiniteSet(Abandoned \cup {m})
        /\ Cardinality(Abandoned \cup {m}) <= Cardinality(Abandoned) + 1
        /\ Cardinality(Abandoned \cup {m}) \in Nat
    BY <1>1, AtMostOneMore
  <2>5. Cardinality(Abandoned') <= Cardinality(Abandoned) + 1 /\ Cardinality(Abandoned') \in Nat
    BY <1>1, <2>3, <2>4, FS_Subset, FS_CardinalityType
  <2>6. failures' = failures + 1
    BY <2>1 DEF Fail
  <2> QED BY <1>1, <2>5, <2>6 DEF OrphansComeFromFailures
<1>3. CASE ~\E h \in Handler : Fail(h)
  <2>1. Abandoned' \subseteq Abandoned
    BY <1>3, AbandonedStep
  <2>2. Cardinality(Abandoned') <= Cardinality(Abandoned) /\ Cardinality(Abandoned') \in Nat
    BY <1>1, <2>1, FS_Subset, FS_CardinalityType
  <2>3. UNCHANGED failures
    BY <1>3, MeetStep, ProgressWrites, OtherStepsWrite
  <2> QED BY <1>1, <2>2, <2>3 DEF OrphansComeFromFailures
<1> QED BY <1>2, <1>3

\* A merge request that no request points to was left by a handler that failed
\* between opening and recording it (processApprovedAllocation), so there are
\* no more of them than failures, unless two activations met.
THEOREM OrphansAreFailures == MeetSpec => []OrphansComeFromFailures
<1>1. MeetInit => OrphansComeFromFailures
  <2> SUFFICES ASSUME MeetInit PROVE OrphansComeFromFailures
    OBVIOUS
  <2>1. Abandoned = {}
    BY DEF MeetInit, Init, Abandoned, EmptyTable
  <2> QED BY <2>1, FS_EmptySet DEF MeetInit, Init, OrphansComeFromFailures
<1> QED BY <1>1, NextMakesNoOrphan, OnlyMeetingsDisturb, PTL DEF MeetSpec
=============================================================================
