------------------------- MODULE RequestLedgerProofs -------------------------
(***************************************************************************)
(* The invariants of the request ledger, for all domains and all bounds.   *)
(* LedgerInv is inductive as it stands: each of its parts is preserved by  *)
(* the guards of the ledger's actions, given the others.                   *)
(***************************************************************************)
EXTENDS RequestLedger, TLAPS

LEMMA NextIdIsFresh ==
  ASSUME NEW table, NEW id \in Nat, IsNextId(table, id)
  PROVE  id \notin DOMAIN table
BY DEF IsNextId

\* The ledger starts with empty tables, of which everything holds.
LEMMA LedgerInit == Init => LedgerInv
BY DEF Init, EmptyTable, LedgerInv, LedgerTypeOK, DomainIsFixed,
       MergeRequestsWereDecided, RecordedUrlIsOwn

LEMMA SubmitKeepsLedger ==
  ASSUME LedgerInv, NEW id \in RequestId, NEW a \in AllocationId, NEW d \in Domain,
         Submit(id, a, d)
  PROVE  LedgerInv'
<1> DEFINE row == PendingRequest(a, d)
<1>1. row \in RequestRow
  BY DEF PendingRequest, RequestRow, RequestStatus
<1>2. id \notin DOMAIN request
  BY NextIdIsFresh DEF Submit, RequestId
<1>3. /\ DOMAIN request' = DOMAIN request \cup {id}
      /\ request' \in [DOMAIN request \cup {id} -> RequestRow]
      /\ request'[id] = row
      /\ \A r \in DOMAIN request : request'[r] = request[r]
  <2>1. request' = [k \in DOMAIN request \cup {id} |-> IF k = id THEN row ELSE request[k]]
    BY DEF Submit, Insert
  <2>2. request \in [DOMAIN request -> RequestRow]
    BY DEF LedgerInv, LedgerTypeOK
  <2> HIDE DEF row
  <2> QED BY <1>1, <1>2, <2>1, <2>2
<1>4. mergeRequest' = mergeRequest
  BY DEF Submit
<1>5. LedgerTypeOK'
  BY <1>3, <1>4 DEF LedgerInv, LedgerTypeOK
<1>6. DomainIsFixed'
  <2>1. \A r \in DOMAIN request :
          request[r].allocation = a => request[r].domain = d
    BY DEF Submit, RequestsOf, LedgerInv, DomainIsFixed
  <2>2. row.allocation = a /\ row.domain = d
    BY DEF PendingRequest
  <2> QED BY <1>3, <2>1, <2>2 DEF LedgerInv, DomainIsFixed
<1>7. MergeRequestsWereDecided'
  BY <1>3, <1>4 DEF LedgerInv, LedgerTypeOK, MergeRequestsWereDecided
<1>8. RecordedUrlIsOwn'
  <2>1. row.processed = FALSE /\ row.mergeRequestUrl = 0
    BY DEF PendingRequest
  <2> QED BY <1>3, <1>4, <2>1 DEF LedgerInv, RecordedUrlIsOwn
<1> QED BY <1>5, <1>6, <1>7, <1>8 DEF LedgerInv

LEMMA DecideKeepsLedger ==
  ASSUME LedgerInv, NEW r \in DOMAIN request, NEW verdict \in {"approved", "denied"},
         Decide(r, verdict)
  PROVE  LedgerInv'
<1>1. /\ DOMAIN request' = DOMAIN request
      /\ request' \in [DOMAIN request -> RequestRow]
      /\ request'[r] = [request[r] EXCEPT !.status = verdict]
      /\ \A q \in DOMAIN request \ {r} : request'[q] = request[q]
  BY DEF Decide, LedgerInv, LedgerTypeOK, RequestRow, RequestStatus
<1>2. \A q \in DOMAIN request :
        /\ request'[q].allocation = request[q].allocation
        /\ request'[q].domain = request[q].domain
        /\ request'[q].processed = request[q].processed
        /\ request'[q].mergeRequestUrl = request[q].mergeRequestUrl
        /\ request[q].status # "pending" => request'[q].status # "pending"
  BY <1>1 DEF LedgerInv, LedgerTypeOK, RequestRow
<1>3. mergeRequest' = mergeRequest
  BY DEF Decide
<1>4. LedgerTypeOK'
  BY <1>1, <1>3 DEF LedgerInv, LedgerTypeOK
<1>5. DomainIsFixed' /\ RecordedUrlIsOwn'
  BY <1>1, <1>2, <1>3 DEF LedgerInv, DomainIsFixed, RecordedUrlIsOwn
<1>6. MergeRequestsWereDecided'
  BY <1>2, <1>3 DEF LedgerInv, LedgerTypeOK, MergeRequestsWereDecided
<1> QED BY <1>4, <1>5, <1>6 DEF LedgerInv

LEMMA OpenKeepsLedger ==
  ASSUME LedgerInv, NEW id \in MergeRequestId, NEW r \in DOMAIN request,
         OpenMergeRequest(id, r)
  PROVE  LedgerInv'
<1>1. OpenedFor(r) \in MergeRequestRow /\ OpenedFor(r).request = r
  BY DEF OpenedFor, MergeRequestRow, MergeRequestState, LedgerInv, LedgerTypeOK
<1>2. id \notin DOMAIN mergeRequest
  BY NextIdIsFresh DEF OpenMergeRequest, MergeRequestId
<1>3. /\ DOMAIN mergeRequest' = DOMAIN mergeRequest \cup {id}
      /\ mergeRequest' \in [DOMAIN mergeRequest \cup {id} -> MergeRequestRow]
      /\ mergeRequest'[id] = OpenedFor(r)
      /\ \A m \in DOMAIN mergeRequest : mergeRequest'[m] = mergeRequest[m]
  <2>1. mergeRequest' = [k \in DOMAIN mergeRequest \cup {id} |->
                           IF k = id THEN OpenedFor(r) ELSE mergeRequest[k]]
    BY DEF OpenMergeRequest, Insert
  <2>2. mergeRequest \in [DOMAIN mergeRequest -> MergeRequestRow]
    BY DEF LedgerInv, LedgerTypeOK
  <2> QED BY <1>1, <1>2, <2>1, <2>2
<1>4. request' = request /\ request[r].status # "pending"
  BY DEF OpenMergeRequest
<1>5. LedgerTypeOK'
  BY <1>1, <1>3, <1>4 DEF LedgerInv, LedgerTypeOK
<1>6. DomainIsFixed' /\ MergeRequestsWereDecided' /\ RecordedUrlIsOwn'
  BY <1>1, <1>3, <1>4 DEF LedgerInv, DomainIsFixed, MergeRequestsWereDecided, RecordedUrlIsOwn
<1> QED BY <1>5, <1>6 DEF LedgerInv

LEMMA RecordKeepsLedger ==
  ASSUME LedgerInv, NEW r \in DOMAIN request, NEW m \in DOMAIN mergeRequest, Record(r, m)
  PROVE  LedgerInv'
<1>1. m \in MergeRequestId /\ m # 0
  BY DEF LedgerInv, LedgerTypeOK, MergeRequestId
<1>2. /\ DOMAIN request' = DOMAIN request
      /\ request' \in [DOMAIN request -> RequestRow]
      /\ request'[r] = [request[r] EXCEPT !.processed = TRUE, !.mergeRequestUrl = m]
      /\ \A q \in DOMAIN request \ {r} : request'[q] = request[q]
  BY <1>1 DEF Record, LedgerInv, LedgerTypeOK, RequestRow
<1>3. \A q \in DOMAIN request :
        /\ request'[q].allocation = request[q].allocation
        /\ request'[q].domain = request[q].domain
        /\ request'[q].status = request[q].status
  BY <1>2 DEF LedgerInv, LedgerTypeOK, RequestRow
<1>4. request'[r].processed = TRUE /\ request'[r].mergeRequestUrl = m
  BY <1>2 DEF LedgerInv, LedgerTypeOK, RequestRow
<1>5. mergeRequest' = mergeRequest /\ mergeRequest[m].request = r
  BY DEF Record
<1>6. LedgerTypeOK'
  BY <1>2, <1>5 DEF LedgerInv, LedgerTypeOK
<1>7. DomainIsFixed' /\ MergeRequestsWereDecided'
  BY <1>2, <1>3, <1>5 DEF LedgerInv, LedgerTypeOK, DomainIsFixed, MergeRequestsWereDecided
<1>8. RecordedUrlIsOwn'
  <2> SUFFICES ASSUME NEW q \in DOMAIN request
               PROVE  LET url == request'[q].mergeRequestUrl IN
                      /\ request'[q].processed <=> url # 0
                      /\ url # 0 => url \in DOMAIN mergeRequest /\ mergeRequest[url].request = q
    BY <1>2, <1>5 DEF RecordedUrlIsOwn
  <2>1. CASE q = r
    BY <1>1, <1>4, <1>5, <2>1
  <2>2. CASE q # r
    BY <1>2, <2>2 DEF LedgerInv, RecordedUrlIsOwn
  <2> QED BY <2>1, <2>2
<1> QED BY <1>6, <1>7, <1>8 DEF LedgerInv

LEMMA SettleKeepsLedger ==
  ASSUME LedgerInv, NEW m \in DOMAIN mergeRequest, NEW outcome \in {"merged", "closed"},
         Settle(m, outcome)
  PROVE  LedgerInv'
<1>1. /\ DOMAIN mergeRequest' = DOMAIN mergeRequest
      /\ mergeRequest' \in [DOMAIN mergeRequest -> MergeRequestRow]
      /\ \A k \in DOMAIN mergeRequest : mergeRequest'[k].request = mergeRequest[k].request
  BY DEF Settle, LedgerInv, LedgerTypeOK, MergeRequestRow, MergeRequestState
<1>2. request' = request
  BY DEF Settle
<1>3. LedgerTypeOK'
  BY <1>1, <1>2 DEF LedgerInv, LedgerTypeOK
<1>4. DomainIsFixed' /\ MergeRequestsWereDecided' /\ RecordedUrlIsOwn'
  BY <1>1, <1>2 DEF LedgerInv, DomainIsFixed, MergeRequestsWereDecided, RecordedUrlIsOwn
<1> QED BY <1>3, <1>4 DEF LedgerInv

\* Every behaviour of the ledger keeps its rows well formed, the domain of an
\* allocation fixed, merge requests behind decisions and URLs their own.
THEOREM LedgerSafety == Spec => []LedgerInv
<1>1. LedgerInv /\ [Next]_ledgerVars => LedgerInv'
  <2> SUFFICES ASSUME LedgerInv, [Next]_ledgerVars PROVE LedgerInv'
    OBVIOUS
  <2>1. CASE UNCHANGED ledgerVars
    BY <2>1 DEF ledgerVars, LedgerInv, LedgerTypeOK, DomainIsFixed,
                MergeRequestsWereDecided, RecordedUrlIsOwn
  <2>2. CASE Next
    BY <2>2, SubmitKeepsLedger, DecideKeepsLedger, OpenKeepsLedger, RecordKeepsLedger,
       SettleKeepsLedger DEF Next
  <2> QED BY <2>1, <2>2
<1> QED BY <1>1, LedgerInit, PTL DEF Spec
=============================================================================
