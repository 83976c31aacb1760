---------------------------- MODULE Chain_proofs ----------------------------
(***************************************************************************)
(* Proofs about the chain: the contract OnboardingTrust, the contract      *)
(* LeasingRegistry that asks it, the processes that file and approve the   *)
(* first requests when the stack starts, and the feed of its events from   *)
(* the gateway to the page: for any devices, workers, accounts and number  *)
(* of requests, leases and events.                                         *)
(***************************************************************************)
EXTENDS LeasingRegistry, StartupOnboarding, EventFeed, FunctionTheorems,
        FiniteSetTheorems, TLAPS

USE TrustAssumption

-----------------------------------------------------------------------------
(***************************************************************************)
(* The contract OnboardingTrust.                                           *)
(***************************************************************************)
\* Slots not handed out yet are blank, slots handed out name a device: the
\* facts that make a transaction on an unknown request id revert.
SlotsInOrder ==
  \A id \in RequestIds :
    IF id < nextRequestId THEN requests[id].deviceId \in Devices
                          ELSE requests[id] = EmptyRequest

TrustInv == TrustTypeOK /\ SlotsInOrder

LEMMA EmptyIsRequest == EmptyRequest \in Request
  BY DEF EmptyRequest, Request, Status

\* A transaction that passes the checks of approve, reject or revoke names a
\* request that exists.
LEMMA KnownRequest ==
  ASSUME TrustInv, NEW sender \in Accounts, NEW id \in RequestIds,
         sender \in {requests[id].owner, requests[id].requester}
  PROVE  id < nextRequestId
  BY DEF TrustInv, SlotsInOrder, EmptyRequest

LEMMA SetStatusType ==
  ASSUME TrustInv, NEW id \in RequestIds, NEW status \in Status, SetStatus(id, status)
  PROVE  /\ requests' \in [RequestIds -> Request]
         /\ requests'[id].status = status
         /\ requests'[id].deviceId = requests[id].deviceId
         /\ requests'[id].requester = requests[id].requester
         /\ requests'[id].owner = requests[id].owner
         /\ \A i \in RequestIds : i # id => requests'[i] = requests[i]
         /\ nextRequestId' = nextRequestId
  BY DEF TrustInv, TrustTypeOK, SetStatus, Request

LEMMA EmitType ==
  ASSUME TrustInv, NEW name \in EventNames, NEW id \in RequestIds,
         NEW d \in Devices \cup {NoDevice}, NEW sender \in Accounts,
         Emit(name, id, d, sender)
  PROVE  log' \in Seq(Event)
  <1>1. [event |-> name, requestId |-> id, deviceId |-> d, actor |-> sender] \in Event
    BY DEF Event
  <1>2. log \in Seq(Event)
    BY DEF TrustInv, TrustTypeOK
  <1> QED  BY <1>1, <1>2 DEF Emit

LEMMA RequestType ==
  ASSUME TrustInv, NEW sender \in Accounts, NEW d \in Devices,
         NEW owner \in Accounts \cup {ZeroAddress},
         RequestOnboarding(sender, d, owner)
  PROVE  /\ nextRequestId \in RequestIds
         /\ requests' \in [RequestIds -> Request]
         /\ requests'[nextRequestId].deviceId = d
         /\ requests'[nextRequestId].requester = sender
         /\ requests'[nextRequestId].status = "Pending"
         /\ \A i \in RequestIds : i # nextRequestId => requests'[i] = requests[i]
         /\ nextRequestId' \in 0 .. MaxRequests
         /\ log' \in Seq(Event)
  <1> DEFINE new == [deviceId |-> d, requester |-> sender,
                     owner |-> owner, status |-> "Pending"]
  <1>1. nextRequestId \in RequestIds
    BY DEF TrustInv, TrustTypeOK, RequestOnboarding, RequestIds
  <1>2. new \in Request
    BY DEF Request, Status
  <1>3. log' \in Seq(Event)
    BY <1>1, EmitType DEF RequestOnboarding, EventNames
  <1>4. requests' = [requests EXCEPT ![nextRequestId] = new]
    BY DEF RequestOnboarding
  <1>5. requests' \in [RequestIds -> Request]
    BY <1>1, <1>2, <1>4 DEF TrustInv, TrustTypeOK
  <1>6. /\ requests'[nextRequestId] = new
        /\ \A i \in RequestIds : i # nextRequestId => requests'[i] = requests[i]
    BY <1>1, <1>4 DEF TrustInv, TrustTypeOK
  <1>7. nextRequestId' \in 0 .. MaxRequests
    BY DEF TrustInv, TrustTypeOK, RequestOnboarding
  <1> QED  BY <1>1, <1>3, <1>5, <1>6, <1>7

LEMMA TrustInvInit == TrustInit => TrustInv
  BY EmptyIsRequest DEF TrustInit, TrustInv, TrustTypeOK, SlotsInOrder, RequestIds

\* Deciding a request (approve, reject, revoke) keeps the invariant.
LEMMA DecideKeepsTrustInv ==
  ASSUME TrustInv, NEW id \in RequestIds, id < nextRequestId,
         NEW status \in Status, NEW name \in EventNames, NEW sender \in Accounts,
         SetStatus(id, status), Emit(name, id, requests[id].deviceId, sender)
  PROVE  TrustInv'
  <1>1. requests[id].deviceId \in Devices \cup {NoDevice}
    BY DEF TrustInv, TrustTypeOK, Request
  <1>2. log' \in Seq(Event)
    BY <1>1, EmitType
  <1>3. TrustTypeOK'
    BY <1>2, SetStatusType DEF TrustInv, TrustTypeOK
  <1>4. SlotsInOrder'
    BY SetStatusType DEF TrustInv, TrustTypeOK, SlotsInOrder, Request
  <1> QED  BY <1>3, <1>4 DEF TrustInv

LEMMA TrustInvNext == TrustInv /\ [TrustNext]_trustVars => TrustInv'
  <1> SUFFICES ASSUME TrustInv, [TrustNext]_trustVars PROVE TrustInv'
    OBVIOUS
  <1>1. CASE UNCHANGED trustVars
    BY <1>1 DEF trustVars, TrustInv, TrustTypeOK, SlotsInOrder
  <1>2. ASSUME NEW sender \in Accounts, NEW d \in Devices,
               NEW owner \in Accounts \cup {ZeroAddress},
               RequestOnboarding(sender, d, owner)
        PROVE  TrustInv'
    <2>1. TrustTypeOK'
      BY <1>2, RequestType DEF TrustTypeOK
    <2>2. nextRequestId' = nextRequestId + 1 /\ nextRequestId \in Nat
      BY <1>2 DEF RequestOnboarding, TrustInv, TrustTypeOK
    <2>3. SlotsInOrder'
      <3> SUFFICES ASSUME NEW i \in RequestIds
                   PROVE  IF i < nextRequestId' THEN requests'[i].deviceId \in Devices
                                                ELSE requests'[i] = EmptyRequest
        BY DEF SlotsInOrder
      <3>1. CASE i = nextRequestId
        <4>1. requests'[i].deviceId = d
          BY <3>1, <1>2, RequestType
        <4>2. i < nextRequestId'
          BY <3>1, <2>2
        <4> QED  BY <4>1, <4>2
      <3>2. CASE i # nextRequestId
        <4>1. requests'[i] = requests[i]
          BY <3>2, <1>2, RequestType
        <4>2. i < nextRequestId' <=> i < nextRequestId
          BY <3>2, <2>2 DEF RequestIds
        <4> QED  BY <4>1, <4>2 DEF TrustInv, SlotsInOrder
      <3> QED  BY <3>1, <3>2
    <2> QED  BY <2>1, <2>3 DEF TrustInv
  <1>3. ASSUME NEW sender \in Accounts, NEW id \in RequestIds, Approve(sender, id)
        PROVE  TrustInv'
    BY <1>3, KnownRequest, DecideKeepsTrustInv DEF Approve, Status, EventNames
  <1>4. ASSUME NEW sender \in Accounts, NEW id \in RequestIds, Reject(sender, id)
        PROVE  TrustInv'
    BY <1>4, KnownRequest, DecideKeepsTrustInv DEF Reject, Status, EventNames
  <1>5. ASSUME NEW sender \in Accounts, NEW id \in RequestIds, Revoke(sender, id)
        PROVE  TrustInv'
    BY <1>5, KnownRequest, DecideKeepsTrustInv DEF Revoke, Status, EventNames
  <1> QED  BY <1>1, <1>2, <1>3, <1>4, <1>5 DEF TrustNext

\* Every reachable state of the contract is well typed, and its slots are
\* filled in order.
THEOREM TrustTypeCorrect == TrustSpec => []TrustTypeOK
  <1>1. TrustInv => TrustTypeOK
    BY DEF TrustInv
  <1> QED  BY <1>1, TrustInvInit, TrustInvNext, PTL DEF TrustSpec
-----------------------------------------------------------------------------
(***************************************************************************)
(* What each transaction may do to the status of a request.                *)
(***************************************************************************)
LEMMA DecideMoves ==
  ASSUME TrustInv, NEW id \in RequestIds, id < nextRequestId, NEW status \in Status,
         <<requests[id].status, status>> \in StatusMoves, SetStatus(id, status)
  PROVE  LifecycleStep
  <1> SUFFICES ASSUME NEW i \in RequestIds, requests'[i].status # requests[i].status
               PROVE  /\ <<requests[i].status, requests'[i].status>> \in StatusMoves
                      /\ i < nextRequestId
    BY DEF LifecycleStep
  <1>1. i = id
    BY SetStatusType
  <1>2. requests'[id].status = status
    BY SetStatusType
  <1> QED  BY <1>1, <1>2

\* Decisions are final: in every behaviour of the contract a request only moves
\* from Pending to Approved or Rejected and from Approved to Revoked.
THEOREM LifecycleCorrect == TrustSpec => Lifecycle
  <1>1. TrustInv /\ [TrustNext]_trustVars => [LifecycleStep]_trustVars
    <2> SUFFICES ASSUME TrustInv, TrustNext PROVE LifecycleStep
      OBVIOUS
    <2>1. ASSUME NEW sender \in Accounts, NEW d \in Devices,
                 NEW owner \in Accounts \cup {ZeroAddress},
                 RequestOnboarding(sender, d, owner)
          PROVE  LifecycleStep
      <3>1. nextRequestId \in RequestIds /\ requests[nextRequestId] = EmptyRequest
        BY <2>1, RequestType DEF TrustInv, SlotsInOrder, RequestIds
      <3> QED  BY <2>1, <3>1, RequestType DEF LifecycleStep, EmptyRequest
    <2>2. ASSUME NEW sender \in Accounts, NEW id \in RequestIds,
                 Approve(sender, id) \/ Reject(sender, id) \/ Revoke(sender, id)
          PROVE  LifecycleStep
      <3>1. CASE Approve(sender, id)
        BY <3>1, KnownRequest, DecideMoves DEF Approve, StatusMoves, Status
      <3>2. CASE Reject(sender, id)
        BY <3>2, KnownRequest, DecideMoves DEF Reject, StatusMoves, Status
      <3>3. CASE Revoke(sender, id)
        BY <3>3, KnownRequest, DecideMoves DEF Revoke, StatusMoves, Status
      <3> QED  BY <2>2, <3>1, <3>2, <3>3
    <2> QED  BY <2>1, <2>2 DEF TrustNext
  <1> QED  BY <1>1, TrustInvInit, TrustInvNext, PTL DEF TrustSpec, Lifecycle
-----------------------------------------------------------------------------
(***************************************************************************)
(* The event log and the request statuses tell the same story.             *)
(***************************************************************************)

\* Appending an event makes that event emitted for its request, and nothing else.
LEMMA EmittedAfterEmit ==
  ASSUME TrustInv, NEW name \in EventNames, NEW id \in RequestIds,
         NEW d \in Devices \cup {NoDevice}, NEW sender \in Accounts,
         Emit(name, id, d, sender),
         NEW n \in EventNames, NEW i \in RequestIds
  PROVE  Emitted(n, i)' <=> Emitted(n, i) \/ (n = name /\ i = id)
  <1> DEFINE e == [event |-> name, requestId |-> id, deviceId |-> d, actor |-> sender]
  <1>1. log \in Seq(Event) /\ e \in Event
    BY DEF TrustInv, TrustTypeOK, Event
  <1>2. log' = Append(log, e)
    BY DEF Emit
  <1>3. /\ Len(log) \in Nat
        /\ Len(log') = Len(log) + 1
        /\ log'[Len(log) + 1] = e
        /\ \A k \in 1 .. Len(log) : log'[k] = log[k]
    BY <1>1, <1>2
  <1>4. e.event = name /\ e.requestId = id
    OBVIOUS
  <1> HIDE DEF e
  <1>5. ASSUME Emitted(n, i)' PROVE Emitted(n, i) \/ (n = name /\ i = id)
    <2>1. PICK k \in 1 .. Len(log') : log'[k].event = n /\ log'[k].requestId = i
      BY <1>5 DEF Emitted
    <2>2. CASE k = Len(log) + 1
      BY <2>1, <2>2, <1>3, <1>4
    <2>3. CASE k \in 1 .. Len(log)
      BY <2>1, <2>3, <1>3 DEF Emitted
    <2> QED  BY <2>2, <2>3, <1>3
  <1>6. ASSUME Emitted(n, i) PROVE Emitted(n, i)'
    <2>1. PICK k \in 1 .. Len(log) : log[k].event = n /\ log[k].requestId = i
      BY <1>6 DEF Emitted
    <2>2. k \in 1 .. Len(log') /\ log'[k] = log[k]
      BY <1>3
    <2> QED  BY <2>1, <2>2 DEF Emitted
  <1>7. ASSUME n = name, i = id PROVE Emitted(n, i)'
    <2>1. Len(log) + 1 \in 1 .. Len(log')
      BY <1>3
    <2> QED  BY <1>7, <2>1, <1>3, <1>4 DEF Emitted
  <1> QED  BY <1>5, <1>6, <1>7

LogStatusOf(id) ==
  /\ id < nextRequestId <=> Emitted("OnboardingRequested", id)
  /\ requests[id].status \in {"Approved", "Revoked"} <=> Emitted("OnboardingApproved", id)
  /\ requests[id].status = "Rejected" <=> Emitted("OnboardingRejected", id)
  /\ requests[id].status = "Revoked" <=> Emitted("OnboardingRevoked", id)

LEMMA LogStatusSplit == LogTellsStatus <=> \A id \in RequestIds : LogStatusOf(id)
  BY DEF LogTellsStatus, LogStatusOf

LEMMA LogStatusInit == TrustInit => LogTellsStatus
  <1> SUFFICES ASSUME TrustInit, NEW id \in RequestIds PROVE LogStatusOf(id)
    BY LogStatusSplit
  <1>1. Len(log) = 0 /\ nextRequestId = 0 /\ requests[id].status = "Pending"
    BY DEF TrustInit, EmptyRequest
  <1>2. \A n \in EventNames : ~Emitted(n, id)
    BY <1>1 DEF Emitted
  <1> QED  BY <1>1, <1>2 DEF LogStatusOf, EventNames, RequestIds

LEMMA LogStatusRequest ==
  ASSUME TrustInv, LogTellsStatus, NEW sender \in Accounts, NEW d \in Devices,
         NEW owner \in Accounts \cup {ZeroAddress},
         RequestOnboarding(sender, d, owner)
  PROVE  LogTellsStatus'
  <1>1. nextRequestId \in RequestIds /\ nextRequestId \in Nat
    BY RequestType DEF TrustInv, TrustTypeOK
  <1>2. requests[nextRequestId].status = "Pending"
    BY <1>1 DEF TrustInv, SlotsInOrder, EmptyRequest, RequestIds
  <1>3. nextRequestId' = nextRequestId + 1
    BY DEF RequestOnboarding
  <1> SUFFICES ASSUME NEW i \in RequestIds PROVE LogStatusOf(i)'
    BY DEF LogTellsStatus, LogStatusOf
  <1>4. LogStatusOf(i)
    BY LogStatusSplit
  <1>5. requests'[i].status = requests[i].status
    BY <1>1, <1>2, RequestType
  <1>6. \A n \in EventNames : Emitted(n, i)' <=>
          Emitted(n, i) \/ (n = "OnboardingRequested" /\ i = nextRequestId)
    BY <1>1, EmittedAfterEmit DEF RequestOnboarding, EventNames
  <1>7. i < nextRequestId' <=> i < nextRequestId \/ i = nextRequestId
    BY <1>1, <1>3 DEF RequestIds
  <1> QED  BY <1>4, <1>5, <1>6, <1>7 DEF LogStatusOf, EventNames

\* The three decisions and the event each of them emits.
Decision == {<<"Pending", "Approved", "OnboardingApproved">>,
             <<"Pending", "Rejected", "OnboardingRejected">>,
             <<"Approved", "Revoked", "OnboardingRevoked">>}

LEMMA LogStatusDecide ==
  ASSUME TrustInv, LogTellsStatus, NEW sender \in Accounts,
         NEW id \in RequestIds, id < nextRequestId, NEW dec \in Decision,
         requests[id].status = dec[1], SetStatus(id, dec[2]),
         Emit(dec[3], id, requests[id].deviceId, sender)
  PROVE  LogTellsStatus'
  <1>1. dec[2] \in Status /\ dec[3] \in EventNames
    BY DEF Decision, Status, EventNames
  <1>2. requests[id].deviceId \in Devices \cup {NoDevice}
    BY DEF TrustInv, TrustTypeOK, Request
  <1> SUFFICES ASSUME NEW i \in RequestIds PROVE LogStatusOf(i)'
    BY DEF LogTellsStatus, LogStatusOf
  <1>3. LogStatusOf(i)
    BY LogStatusSplit
  <1>4. \A n \in EventNames :
          Emitted(n, i)' <=> Emitted(n, i) \/ (n = dec[3] /\ i = id)
    BY <1>1, <1>2, EmittedAfterEmit
  <1>5. /\ nextRequestId' = nextRequestId
        /\ i # id => requests'[i] = requests[i]
        /\ requests'[id].status = dec[2]
    BY <1>1, SetStatusType
  <1>6. CASE i # id
    BY <1>3, <1>4, <1>5, <1>6 DEF LogStatusOf, EventNames
  <1>7. CASE i = id
    <2>1. CASE dec = <<"Pending", "Approved", "OnboardingApproved">>
      BY <2>1, <1>3, <1>4, <1>5, <1>7 DEF LogStatusOf, EventNames
    <2>2. CASE dec = <<"Pending", "Rejected", "OnboardingRejected">>
      BY <2>2, <1>3, <1>4, <1>5, <1>7 DEF LogStatusOf, EventNames
    <2>3. CASE dec = <<"Approved", "Revoked", "OnboardingRevoked">>
      BY <2>3, <1>3, <1>4, <1>5, <1>7 DEF LogStatusOf, EventNames
    <2> QED  BY <2>1, <2>2, <2>3 DEF Decision
  <1> QED  BY <1>6, <1>7

\* The log tells the status of every request in every reachable state: what a
\* dashboard rebuilds from all the events is what the contract stores.
THEOREM LogTellsStatusCorrect == TrustSpec => []LogTellsStatus
  <1>1. TrustInv /\ LogTellsStatus /\ [TrustNext]_trustVars => LogTellsStatus'
    <2> SUFFICES ASSUME TrustInv, LogTellsStatus, [TrustNext]_trustVars
                 PROVE  LogTellsStatus'
      OBVIOUS
    <2>1. CASE UNCHANGED trustVars
      BY <2>1 DEF trustVars, LogTellsStatus, Emitted
    <2>2. ASSUME NEW sender \in Accounts, NEW d \in Devices,
                 NEW owner \in Accounts \cup {ZeroAddress},
                 RequestOnboarding(sender, d, owner)
          PROVE  LogTellsStatus'
      BY <2>2, LogStatusRequest
    <2>3. ASSUME NEW sender \in Accounts, NEW id \in RequestIds, Approve(sender, id)
          PROVE  LogTellsStatus'
      <3> DEFINE dec == <<"Pending", "Approved", "OnboardingApproved">>
      <3>1. dec \in Decision /\ dec[1] = "Pending" /\ dec[2] = "Approved"
            /\ dec[3] = "OnboardingApproved"
        BY DEF Decision
      <3> HIDE DEF dec
      <3> QED  BY <2>3, <3>1, KnownRequest, LogStatusDecide DEF Approve
    <2>4. ASSUME NEW sender \in Accounts, NEW id \in RequestIds, Reject(sender, id)
          PROVE  LogTellsStatus'
      <3> DEFINE dec == <<"Pending", "Rejected", "OnboardingRejected">>
      <3>1. dec \in Decision /\ dec[1] = "Pending" /\ dec[2] = "Rejected"
            /\ dec[3] = "OnboardingRejected"
        BY DEF Decision
      <3> HIDE DEF dec
      <3> QED  BY <2>4, <3>1, KnownRequest, LogStatusDecide DEF Reject
    <2>5. ASSUME NEW sender \in Accounts, NEW id \in RequestIds, Revoke(sender, id)
          PROVE  LogTellsStatus'
      <3> DEFINE dec == <<"Approved", "Revoked", "OnboardingRevoked">>
      <3>1. dec \in Decision /\ dec[1] = "Approved" /\ dec[2] = "Revoked"
            /\ dec[3] = "OnboardingRevoked"
        BY DEF Decision
      <3> HIDE DEF dec
      <3> QED  BY <2>5, <3>1, KnownRequest, LogStatusDecide DEF Revoke
    <2> QED  BY <2>1, <2>2, <2>3, <2>4, <2>5 DEF TrustNext
  <1> QED  BY <1>1, LogStatusInit, TrustInvInit, TrustInvNext, PTL DEF TrustSpec

-----------------------------------------------------------------------------
(***************************************************************************)
(* How a device loses its approval.                                        *)
(***************************************************************************)

\* A new request for d changes the latest request of d only.
LEMMA RequestChangesOne ==
  ASSUME TrustInv, NEW sender \in Accounts, NEW d \in Devices,
         NEW owner \in Accounts \cup {ZeroAddress},
         RequestOnboarding(sender, d, owner), NEW e \in Devices, e # d
  PROVE  HasStatus(e, "Approved")' <=> HasStatus(e, "Approved")
  <1>1. nextRequestId' = nextRequestId + 1 /\ nextRequestId \in Nat /\ RequestIds \subseteq Nat
    BY DEF RequestOnboarding, TrustInv, TrustTypeOK, RequestIds
  <1>2. nextRequestId \in RequestIds /\ requests'[nextRequestId].deviceId = d
    BY RequestType
  <1>3. \A i \in RequestIds : i # nextRequestId => requests'[i] = requests[i]
    BY RequestType
  <1>4. ASSUME NEW id \in RequestIds, IsLatest(id, e)
        PROVE  IsLatest(id, e)' /\ requests'[id] = requests[id]
    <2>1. id < nextRequestId /\ id # nextRequestId
      BY <1>1, <1>4 DEF IsLatest
    <2>2. requests'[id] = requests[id] /\ id < nextRequestId'
      BY <1>1, <1>3, <2>1
    <2>3. ASSUME NEW later \in RequestIds, id < later, later < nextRequestId'
          PROVE  requests'[later].deviceId # e
      <3>1. CASE later = nextRequestId
        BY <1>2, <3>1
      <3>2. CASE later # nextRequestId
        BY <1>1, <1>3, <1>4, <2>3, <3>2 DEF IsLatest
      <3> QED  BY <3>1, <3>2
    <2> QED  BY <2>2, <2>3, <1>4 DEF IsLatest
  <1>5. ASSUME NEW id \in RequestIds, IsLatest(id, e)'
        PROVE  IsLatest(id, e) /\ requests'[id] = requests[id]
    <2>1. id # nextRequestId
      BY <1>2, <1>5 DEF IsLatest
    <2>2. requests'[id] = requests[id] /\ id < nextRequestId
      BY <1>1, <1>3, <1>5, <2>1 DEF IsLatest
    <2>3. ASSUME NEW later \in RequestIds, id < later, later < nextRequestId
          PROVE  requests[later].deviceId # e
      BY <1>1, <1>3, <1>5, <2>3 DEF IsLatest
    <2> QED  BY <2>2, <2>3, <1>5 DEF IsLatest
  <1> QED  BY <1>4, <1>5 DEF HasStatus

\* A decision on a request of d changes the status of d only.
LEMMA DecideChangesOne ==
  ASSUME TrustInv, NEW id \in RequestIds, NEW status \in Status, SetStatus(id, status),
         NEW e \in Devices, e # requests[id].deviceId
  PROVE  HasStatus(e, "Approved")' <=> HasStatus(e, "Approved")
  <1>1. /\ nextRequestId' = nextRequestId
        /\ \A i \in RequestIds : requests'[i].deviceId = requests[i].deviceId
        /\ \A i \in RequestIds : i # id => requests'[i] = requests[i]
    BY SetStatusType
  <1>2. \A i \in RequestIds : IsLatest(i, e)' <=> IsLatest(i, e)
    BY <1>1 DEF IsLatest
  <1>3. \A i \in RequestIds : IsLatest(i, e) => i # id
    BY DEF IsLatest
  <1> QED  BY <1>1, <1>2, <1>3 DEF HasStatus

\* A transaction that costs a device its approval is the revocation of its
\* latest request or a newer request for it.
LEMMA ApprovalLossNext == TrustInv /\ [TrustNext]_trustVars => ApprovalLossStep
  <1> SUFFICES ASSUME TrustInv, [TrustNext]_trustVars, NEW d \in Devices,
                      HasStatus(d, "Approved"), ~HasStatus(d, "Approved")'
               PROVE  \/ \E id \in RequestIds :
                           IsLatest(id, d)' /\ requests'[id].status = "Revoked"
                      \/ /\ nextRequestId' = nextRequestId + 1
                         /\ requests'[nextRequestId].deviceId = d
                         /\ requests'[nextRequestId].status = "Pending"
    BY DEF ApprovalLossStep
  <1>1. CASE UNCHANGED trustVars
    BY <1>1 DEF trustVars, HasStatus, IsLatest
  <1>2. ASSUME NEW sender \in Accounts, NEW e \in Devices,
               NEW owner \in Accounts \cup {ZeroAddress},
               RequestOnboarding(sender, e, owner)
        PROVE  /\ nextRequestId' = nextRequestId + 1
               /\ requests'[nextRequestId].deviceId = d
               /\ requests'[nextRequestId].status = "Pending"
    <2>1. e = d
      BY <1>2, RequestChangesOne
    <2>2. nextRequestId' = nextRequestId + 1
      BY <1>2 DEF RequestOnboarding
    <2> QED  BY <1>2, <2>1, <2>2, RequestType
  <1>3. ASSUME NEW sender \in Accounts, NEW id \in RequestIds,
               Approve(sender, id) \/ Reject(sender, id) \/ Revoke(sender, id)
        PROVE  IsLatest(id, d)' /\ requests'[id].status = "Revoked"
    <2>1. PICK st \in Status :
            /\ SetStatus(id, st)
            /\ requests[id].status = "Approved" => st = "Revoked"
      BY <1>3 DEF Approve, Reject, Revoke, Status
    <2>2. PICK i \in RequestIds : IsLatest(i, d) /\ requests[i].status = "Approved"
      BY DEF HasStatus
    <2>3. /\ nextRequestId' = nextRequestId
          /\ \A k \in RequestIds : requests'[k].deviceId = requests[k].deviceId
          /\ \A k \in RequestIds : k # id => requests'[k] = requests[k]
          /\ requests'[id].status = st
      BY <2>1, SetStatusType
    <2>4. IsLatest(i, d)'
      BY <2>2, <2>3 DEF IsLatest
    <2>5. i = id
      BY <2>2, <2>3, <2>4 DEF HasStatus
    <2> QED  BY <2>1, <2>2, <2>3, <2>4, <2>5
  <1> QED  BY <1>1, <1>2, <1>3 DEF TrustNext

\* A device loses its approval by a revocation of its latest request or by a
\* newer request that shadows it, and in no other way.
THEOREM ApprovalLossCorrect == TrustSpec => ApprovalLoss
  BY TrustInvInit, TrustInvNext, ApprovalLossNext, PTL DEF TrustSpec, ApprovalLoss
-----------------------------------------------------------------------------
(***************************************************************************)
(* Both contracts together.                                                *)
(***************************************************************************)
USE LeaseEventsAssumption

LeasesTypeOK ==
  /\ leases \in [Devices -> LeaseInfo]
  /\ leaseLog \in Seq(LeaseEvent)

\* The inductive invariant: well-typed contracts, slots in order, and lease
\* records whose two fields agree.
RegistryInv == TrustInv /\ LeasesTypeOK /\ LeaseFieldsAgree

LEMMA RegistryInvInit == Init => RegistryInv
  <1> SUFFICES ASSUME Init PROVE RegistryInv
    OBVIOUS
  <1>1. TrustInv
    BY TrustInvInit DEF Init
  <1>2. LeasesTypeOK
    BY DEF Init, LeasesTypeOK, LeaseInfo
  <1>3. ASSUME NEW d \in Devices
        PROVE  leases[d].isLeased = FALSE /\ leases[d].leasedBy = ZeroAddress
    BY DEF Init
  <1>4. LeaseFieldsAgree
    BY <1>3 DEF LeaseFieldsAgree
  <1> QED  BY <1>1, <1>2, <1>4 DEF RegistryInv

LEMMA LeaseNodeEffect ==
  ASSUME RegistryInv, NEW sender \in Accounts, NEW d \in Devices, LeaseNode(sender, d)
  PROVE  /\ leases' \in [Devices -> LeaseInfo]
         /\ leases'[d].isLeased = TRUE
         /\ leases'[d].leasedBy = sender
         /\ \A e \in Devices : e # d => leases'[e] = leases[e]
         /\ leaseLog' \in Seq(LeaseEvent)
  <1> DEFINE info == [isLeased |-> TRUE, leasedBy |-> sender]
             ev == [event |-> "NodeLeased", deviceId |-> d, leaser |-> sender]
  <1>1. info \in LeaseInfo /\ ev \in LeaseEvent
    BY DEF LeaseInfo, LeaseEvent
  <1>2. leases' = [leases EXCEPT ![d] = info] /\ leaseLog' = Append(leaseLog, ev)
    BY DEF LeaseNode, EmitLease
  <1>3. info.isLeased = TRUE /\ info.leasedBy = sender
    OBVIOUS
  <1> HIDE DEF info, ev
  <1> QED  BY <1>1, <1>2, <1>3 DEF RegistryInv, LeasesTypeOK

LEMMA ReleaseNodeEffect ==
  ASSUME RegistryInv, NEW sender \in Accounts, NEW d \in Devices, ReleaseNode(sender, d)
  PROVE  /\ leases' \in [Devices -> LeaseInfo]
         /\ leases'[d].isLeased = FALSE
         /\ leases'[d].leasedBy = ZeroAddress
         /\ \A e \in Devices : e # d => leases'[e] = leases[e]
         /\ leaseLog' \in Seq(LeaseEvent)
  <1> DEFINE info == [isLeased |-> FALSE, leasedBy |-> ZeroAddress]
             ev == [event |-> "NodeReleased", deviceId |-> d, leaser |-> sender]
  <1>1. info \in LeaseInfo /\ ev \in LeaseEvent
    BY DEF LeaseInfo, LeaseEvent
  <1>2. leases' = [leases EXCEPT ![d] = info] /\ leaseLog' = Append(leaseLog, ev)
    BY DEF ReleaseNode, EmitLease
  <1>3. info.isLeased = FALSE /\ info.leasedBy = ZeroAddress
    OBVIOUS
  <1> HIDE DEF info, ev
  <1> QED  BY <1>1, <1>2, <1>3 DEF RegistryInv, LeasesTypeOK

\* A lease transaction leaves the onboarding contract alone.
LEMMA TrustInvStable == TrustInv /\ UNCHANGED trustVars => TrustInv'
  BY TrustInvNext

LEMMA RegistryInvNext == RegistryInv /\ [Next]_vars => RegistryInv'
  <1> SUFFICES ASSUME RegistryInv, [Next]_vars PROVE RegistryInv'
    OBVIOUS
  <1>1. CASE UNCHANGED vars
    <2>1. UNCHANGED trustVars /\ UNCHANGED <<leases, leaseLog>>
      BY <1>1 DEF vars, trustVars
    <2> QED  BY <2>1, TrustInvStable DEF RegistryInv, LeasesTypeOK, LeaseFieldsAgree
  <1>2. CASE TrustNext /\ UNCHANGED <<leases, leaseLog>>
    BY <1>2, TrustInvNext DEF RegistryInv, LeasesTypeOK, LeaseFieldsAgree
  <1>3. ASSUME NEW sender \in Accounts, NEW d \in Devices, LeaseNode(sender, d)
        PROVE  RegistryInv'
    <2>1. TrustInv'
      BY <1>3, TrustInvStable DEF LeaseNode, RegistryInv
    <2>2. LeasesTypeOK'
      BY <1>3, LeaseNodeEffect DEF LeasesTypeOK
    <2>3. ASSUME NEW e \in Devices
          PROVE  leases'[e].isLeased <=> leases'[e].leasedBy \in Accounts
      <3>1. CASE e = d
        BY <1>3, <3>1, LeaseNodeEffect
      <3>2. CASE e # d
        BY <1>3, <3>2, LeaseNodeEffect DEF RegistryInv, LeaseFieldsAgree
      <3> QED  BY <3>1, <3>2
    <2> QED  BY <2>1, <2>2, <2>3 DEF RegistryInv, LeaseFieldsAgree
  <1>4. ASSUME NEW sender \in Accounts, NEW d \in Devices, ReleaseNode(sender, d)
        PROVE  RegistryInv'
    <2>1. TrustInv'
      BY <1>4, TrustInvStable DEF ReleaseNode, RegistryInv
    <2>2. LeasesTypeOK'
      BY <1>4, ReleaseNodeEffect DEF LeasesTypeOK
    <2>3. ASSUME NEW e \in Devices
          PROVE  leases'[e].isLeased <=> leases'[e].leasedBy \in Accounts
      <3>1. CASE e = d
        BY <1>4, <3>1, ReleaseNodeEffect
      <3>2. CASE e # d
        BY <1>4, <3>2, ReleaseNodeEffect DEF RegistryInv, LeaseFieldsAgree
      <3> QED  BY <3>1, <3>2
    <2> QED  BY <2>1, <2>2, <2>3 DEF RegistryInv, LeaseFieldsAgree
  <1> QED  BY <1>1, <1>2, <1>3, <1>4 DEF Next

\* Both contracts are well typed in every reachable state.
THEOREM RegistryTypeCorrect == Spec => []TypeOK
  <1>1. RegistryInv => TypeOK
    BY DEF RegistryInv, TrustInv, LeasesTypeOK, TypeOK
  <1> QED  BY <1>1, RegistryInvInit, RegistryInvNext, PTL DEF Spec

\* A node shows a leaser exactly when it is leased.
THEOREM LeaseFieldsCorrect == Spec => []LeaseFieldsAgree
  <1>1. RegistryInv => LeaseFieldsAgree
    BY DEF RegistryInv
  <1> QED  BY <1>1, RegistryInvInit, RegistryInvNext, PTL DEF Spec

-----------------------------------------------------------------------------
(***************************************************************************)
(* Leased devices were approved.                                           *)
(***************************************************************************)

\* Some request for d was approved at some time.
WasApproved(d) ==
  \E id \in RequestIds :
    /\ id < nextRequestId
    /\ requests[id].deviceId = d
    /\ requests[id].status \in {"Approved", "Revoked"}

\* No transaction takes an approval back from history.
LEMMA ApprovalIsHistory ==
  ASSUME TrustInv, TrustNext, NEW d \in Devices, WasApproved(d)
  PROVE  WasApproved(d)'
  <1>1. PICK i \in RequestIds : /\ i < nextRequestId
                                /\ requests[i].deviceId = d
                                /\ requests[i].status \in {"Approved", "Revoked"}
    BY DEF WasApproved
  <1>2. ASSUME NEW sender \in Accounts, NEW d2 \in Devices,
               NEW owner \in Accounts \cup {ZeroAddress},
               RequestOnboarding(sender, d2, owner)
        PROVE  WasApproved(d)'
    <2>1. nextRequestId' = nextRequestId + 1 /\ nextRequestId \in Nat /\ i \in Nat
      BY <1>2 DEF RequestOnboarding, TrustInv, TrustTypeOK, RequestIds
    <2>2. i < nextRequestId' /\ requests'[i] = requests[i]
      BY <2>1, <1>1, <1>2, RequestType
    <2> QED  BY <2>2, <1>1 DEF WasApproved
  <1>3. ASSUME NEW sender \in Accounts, NEW id \in RequestIds,
               Approve(sender, id) \/ Reject(sender, id) \/ Revoke(sender, id)
        PROVE  WasApproved(d)'
    <2>1. PICK st \in Status :
            /\ SetStatus(id, st)
            /\ requests[id].status \in {"Approved", "Revoked"} => st = "Revoked"
      BY <1>3 DEF Approve, Reject, Revoke, Status
    <2>2. /\ i < nextRequestId'
          /\ requests'[i].deviceId = d
          /\ requests'[i].status \in {"Approved", "Revoked"}
      BY <2>1, <1>1, SetStatusType
    <2> QED  BY <2>2 DEF WasApproved
  <1> QED  BY <1>2, <1>3 DEF TrustNext

\* Every leased device was approved at some time, in every behaviour of the
\* two contracts.
THEOREM LeasedWasApprovedCorrect == Spec => []LeasedWasApproved
  <1>1. Init => LeasedWasApproved
    BY DEF Init, LeasedWasApproved
  <1>2. RegistryInv /\ LeasedWasApproved /\ [Next]_vars => LeasedWasApproved'
    <2> SUFFICES ASSUME RegistryInv, LeasedWasApproved, [Next]_vars,
                        NEW d \in Devices, leases'[d].isLeased
                 PROVE  WasApproved(d)'
      BY DEF LeasedWasApproved, WasApproved
    <2>1. leases[d].isLeased => WasApproved(d)
      BY DEF LeasedWasApproved, WasApproved
    <2>2. UNCHANGED trustVars /\ WasApproved(d) => WasApproved(d)'
      BY DEF trustVars, WasApproved
    <2>3. CASE UNCHANGED vars
      BY <2>1, <2>2, <2>3 DEF vars, trustVars
    <2>4. CASE TrustNext /\ UNCHANGED <<leases, leaseLog>>
      BY <2>1, <2>4, ApprovalIsHistory DEF RegistryInv
    <2>5. ASSUME NEW sender \in Accounts, NEW e \in Devices, LeaseNode(sender, e)
          PROVE  WasApproved(d)'
      <3>1. HasStatus(e, "Approved") => WasApproved(e)
        BY DEF HasStatus, IsLatest, WasApproved
      <3>2. e # d => leases[d].isLeased
        BY <2>5, LeaseNodeEffect
      <3> QED  BY <2>1, <2>2, <2>5, <3>1, <3>2 DEF LeaseNode
    <2>6. ASSUME NEW sender \in Accounts, NEW e \in Devices, ReleaseNode(sender, e)
          PROVE  WasApproved(d)'
      <3>1. leases[d].isLeased
        BY <2>6, ReleaseNodeEffect
      <3> QED  BY <2>1, <2>2, <2>6, <3>1 DEF ReleaseNode
    <2> QED  BY <2>3, <2>4, <2>5, <2>6 DEF Next
  <1> QED  BY <1>1, <1>2, RegistryInvInit, RegistryInvNext, PTL DEF Spec

-----------------------------------------------------------------------------
(***************************************************************************)
(* The contracts implement the lease board.                                *)
(***************************************************************************)

\* If the approval of at most one device changes, the board sees a TrustChange
\* of that device.
LEMMA OneDeviceChanges ==
  ASSUME NEW d \in Devices,
         \A e \in Devices : e # d => (HasStatus(e, "Approved")' <=> HasStatus(e, "Approved"))
  PROVE  ApprovedDevices' \in {ApprovedDevices \cup {d}, ApprovedDevices \ {d}}
  <1>1. CASE HasStatus(d, "Approved")'
    <2>1. ApprovedDevices' = ApprovedDevices \cup {d}
      BY <1>1 DEF ApprovedDevices
    <2> QED  BY <2>1
  <1>2. CASE ~HasStatus(d, "Approved")'
    <2>1. ApprovedDevices' = ApprovedDevices \ {d}
      BY <1>2 DEF ApprovedDevices
    <2> QED  BY <2>1
  <1> QED  BY <1>1, <1>2

\* Every onboarding transaction is a trust change of one device of the board.
LEMMA TrustNextChangesOne ==
  ASSUME TrustInv, TrustNext
  PROVE  \E d \in Devices :
           ApprovedDevices' \in {ApprovedDevices \cup {d}, ApprovedDevices \ {d}}
  <1>1. ASSUME NEW sender \in Accounts, NEW d \in Devices,
               NEW owner \in Accounts \cup {ZeroAddress},
               RequestOnboarding(sender, d, owner)
        PROVE  ApprovedDevices' \in {ApprovedDevices \cup {d}, ApprovedDevices \ {d}}
    BY <1>1, RequestChangesOne, OneDeviceChanges
  <1>2. ASSUME NEW sender \in Accounts, NEW id \in RequestIds,
               Approve(sender, id) \/ Reject(sender, id) \/ Revoke(sender, id)
        PROVE  \E d \in Devices :
                 ApprovedDevices' \in {ApprovedDevices \cup {d}, ApprovedDevices \ {d}}
    <2>1. sender \in {requests[id].owner, requests[id].requester}
      BY <1>2 DEF Approve, Reject, Revoke
    <2>2. requests[id].deviceId \in Devices
      BY <2>1, KnownRequest DEF TrustInv, SlotsInOrder
    <2>3. PICK st \in Status : SetStatus(id, st)
      BY <1>2 DEF Approve, Reject, Revoke, Status
    <2> QED  BY <2>2, <2>3, DecideChangesOne, OneDeviceChanges
  <1> QED  BY <1>1, <1>2 DEF TrustNext

\* The contracts implement the lease board: whatever transactions are mined in
\* whatever order, a device has one holder at a time, is leased only while its
\* latest request is Approved, and is given back only by its holder.
THEOREM RegistryImplementsBoard == Spec => ImplementsBoard
  <1>1. Init => Board!LeaseInit
    <2> SUFFICES ASSUME Init PROVE Board!LeaseInit
      OBVIOUS
    <2>1. ApprovedDevices = {}
      BY DEF Init, TrustInit, ApprovedDevices, HasStatus, IsLatest, RequestIds
    <2>2. HolderOf = [d \in Devices |-> ZeroAddress]
      BY DEF Init, HolderOf
    <2> QED  BY <2>1, <2>2 DEF Board!LeaseInit
  <1>2. RegistryInv /\ [Next]_vars => [Board!LeaseNext]_Board!leaseVars
    <2> SUFFICES ASSUME RegistryInv, [Next]_vars
                 PROVE  [Board!LeaseNext]_Board!leaseVars
      OBVIOUS
    <2>1. UNCHANGED trustVars => UNCHANGED ApprovedDevices
      BY DEF trustVars, ApprovedDevices, HasStatus, IsLatest
    <2>2. CASE UNCHANGED vars
      <3>1. UNCHANGED ApprovedDevices
        BY <2>1, <2>2 DEF vars, trustVars
      <3>2. UNCHANGED HolderOf
        BY <2>2 DEF vars, HolderOf
      <3> QED  BY <3>1, <3>2 DEF Board!leaseVars
    <2>3. CASE TrustNext /\ UNCHANGED <<leases, leaseLog>>
      <3>1. UNCHANGED HolderOf
        BY <2>3 DEF HolderOf
      <3>2. PICK d \in Devices :
              ApprovedDevices' \in {ApprovedDevices \cup {d}, ApprovedDevices \ {d}}
        BY <2>3, TrustNextChangesOne DEF RegistryInv
      <3> QED  BY <3>1, <3>2 DEF Board!LeaseNext, Board!TrustChange
    <2>4. ASSUME NEW sender \in Accounts, NEW d \in Devices, LeaseNode(sender, d)
          PROVE  Board!LeaseNext
      <3>1. UNCHANGED ApprovedDevices
        BY <2>1, <2>4 DEF LeaseNode
      <3>2. d \in ApprovedDevices
        BY <2>4 DEF LeaseNode, ApprovedDevices
      <3>3. HolderOf[d] = ZeroAddress
        BY <2>4 DEF LeaseNode, HolderOf, RegistryInv, LeaseFieldsAgree, LeasesTypeOK, LeaseInfo
      <3>4. HolderOf' = [HolderOf EXCEPT ![d] = sender]
        BY <2>4, LeaseNodeEffect DEF HolderOf
      <3> QED  BY <3>1, <3>2, <3>3, <3>4 DEF Board!LeaseNext, Board!Lease, Board!Leasable
    <2>5. ASSUME NEW sender \in Accounts, NEW d \in Devices, ReleaseNode(sender, d)
          PROVE  Board!LeaseNext
      <3>1. UNCHANGED ApprovedDevices
        BY <2>1, <2>5 DEF ReleaseNode
      <3>2. HolderOf[d] = sender
        BY <2>5 DEF ReleaseNode, HolderOf
      <3>3. HolderOf' = [HolderOf EXCEPT ![d] = ZeroAddress]
        BY <2>5, ReleaseNodeEffect DEF HolderOf
      <3> QED  BY <3>1, <3>2, <3>3 DEF Board!LeaseNext, Board!Release
    <2> QED  BY <2>2, <2>3, <2>4, <2>5 DEF Next
  <1> QED  BY <1>1, <1>2, RegistryInvInit, RegistryInvNext, PTL
           DEF Spec, ImplementsBoard, Board!LeaseSpec

-----------------------------------------------------------------------------
(***************************************************************************)
(* The lease events tell the holder.                                       *)
(***************************************************************************)

\* What one more event about d does to the log: positions keep their events,
\* and the last event of every other device stays where it is.
LEMMA AppendEffect ==
  ASSUME leaseLog \in Seq(LeaseEvent), NEW n \in Nat, n = Len(leaseLog), NEW d \in Devices,
         NEW ev \in LeaseEvent, ev.deviceId = d, leaseLog' = Append(leaseLog, ev)
  PROVE  /\ Len(leaseLog') = n + 1
         /\ leaseLog'[n + 1] = ev
         /\ \A k \in 1 .. n : leaseLog'[k] = leaseLog[k]
         /\ IsLastLeaseEvent(n + 1, d)'
         /\ \A k \in 1 .. n : ~IsLastLeaseEvent(k, d)'
         /\ \A e \in Devices \ {d} :
              /\ ~IsLastLeaseEvent(n + 1, e)'
              /\ \A k \in 1 .. n : IsLastLeaseEvent(k, e)' <=> IsLastLeaseEvent(k, e)
  <1>1. /\ Len(leaseLog') = n + 1
        /\ leaseLog'[n + 1] = ev
        /\ \A k \in 1 .. n : leaseLog'[k] = leaseLog[k]
    OBVIOUS
  <1>2. IsLastLeaseEvent(n + 1, d)'
    BY <1>1 DEF IsLastLeaseEvent
  <1>3. ASSUME NEW k \in 1 .. n PROVE ~IsLastLeaseEvent(k, d)'
    <2>1. n + 1 \in k + 1 .. Len(leaseLog')
      BY <1>1
    <2> QED  BY <1>1, <2>1 DEF IsLastLeaseEvent
  <1>4. ASSUME NEW e \in Devices, e # d PROVE ~IsLastLeaseEvent(n + 1, e)'
    BY <1>1, <1>4 DEF IsLastLeaseEvent
  <1>5. ASSUME NEW e \in Devices, e # d, NEW k \in 1 .. n
        PROVE  IsLastLeaseEvent(k, e)' <=> IsLastLeaseEvent(k, e)
    <2>1. \A j \in k + 1 .. n + 1 : j = n + 1 \/ (j \in 1 .. n /\ j \in k + 1 .. n)
      OBVIOUS
    <2>2. \A j \in k + 1 .. n : j \in 1 .. n /\ j \in k + 1 .. n + 1
      OBVIOUS
    <2> QED  BY <1>1, <1>5, <2>1, <2>2 DEF IsLastLeaseEvent
  <1> QED  BY <1>1, <1>2, <1>3, <1>4, <1>5

\* Both halves of LeaseLogTellsHolder, by device and by event.
LeasedInLog(d) ==
  \E k \in 1 .. Len(leaseLog) :
    /\ IsLastLeaseEvent(k, d)
    /\ leaseLog[k].event = "NodeLeased"
    /\ leaseLog[k].leaser = leases[d].leasedBy

ReleasesItsLease(k) ==
  \E j \in 1 .. k - 1 :
    /\ leaseLog[j] = [leaseLog[k] EXCEPT !.event = "NodeLeased"]
    /\ \A i \in j + 1 .. k - 1 : leaseLog[i].deviceId # leaseLog[k].deviceId

\* An event about d tells nothing new about the other devices...
LEMMA OthersInLog ==
  ASSUME leaseLog \in Seq(LeaseEvent), NEW n \in Nat, n = Len(leaseLog), NEW d \in Devices,
         NEW ev \in LeaseEvent, ev.deviceId = d, leaseLog' = Append(leaseLog, ev),
         NEW e \in Devices, e # d, leases'[e] = leases[e]
  PROVE  LeasedInLog(e)' <=> LeasedInLog(e)
  <1>1. /\ Len(leaseLog') = n + 1
        /\ \A k \in 1 .. n : leaseLog'[k] = leaseLog[k]
        /\ ~IsLastLeaseEvent(n + 1, e)'
        /\ \A k \in 1 .. n : IsLastLeaseEvent(k, e)' <=> IsLastLeaseEvent(k, e)
    BY AppendEffect
  <1>2. ASSUME LeasedInLog(e)' PROVE LeasedInLog(e)
    <2>1. PICK k \in 1 .. Len(leaseLog') : /\ IsLastLeaseEvent(k, e)'
                                           /\ leaseLog'[k].event = "NodeLeased"
                                           /\ leaseLog'[k].leaser = leases'[e].leasedBy
      BY <1>2 DEF LeasedInLog
    <2>2. k \in 1 .. n
      BY <1>1, <2>1
    <2> QED  BY <1>1, <2>1, <2>2 DEF LeasedInLog
  <1>3. ASSUME LeasedInLog(e) PROVE LeasedInLog(e)'
    <2>1. PICK k \in 1 .. n : /\ IsLastLeaseEvent(k, e)
                                          /\ leaseLog[k].event = "NodeLeased"
                                          /\ leaseLog[k].leaser = leases[e].leasedBy
      BY <1>3 DEF LeasedInLog
    <2>2. k \in 1 .. Len(leaseLog')
      BY <1>1
    <2> QED  BY <1>1, <2>1, <2>2 DEF LeasedInLog
  <1> QED  BY <1>2, <1>3

\* ... and nothing new about the releases before it.
LEMMA OldReleases ==
  ASSUME leaseLog \in Seq(LeaseEvent), NEW n \in Nat, n = Len(leaseLog), NEW d \in Devices,
         NEW ev \in LeaseEvent, ev.deviceId = d, leaseLog' = Append(leaseLog, ev),
         NEW k \in 1 .. n, ReleasesItsLease(k)
  PROVE  ReleasesItsLease(k)'
  <1>1. \A i \in 1 .. n : leaseLog'[i] = leaseLog[i]
    BY AppendEffect
  <1>2. PICK j \in 1 .. k - 1 :
          /\ leaseLog[j] = [leaseLog[k] EXCEPT !.event = "NodeLeased"]
          /\ \A i \in j + 1 .. k - 1 : leaseLog[i].deviceId # leaseLog[k].deviceId
    BY DEF ReleasesItsLease
  <1>3. j \in 1 .. n /\ \A i \in j + 1 .. k - 1 : i \in 1 .. n
    BY <1>1
  <1>4. leaseLog'[j] = leaseLog[j] /\ leaseLog'[k] = leaseLog[k]
    BY <1>1, <1>3
  <1>5. \A i \in j + 1 .. k - 1 : leaseLog'[i].deviceId # leaseLog'[k].deviceId
    BY <1>1, <1>2, <1>3
  <1> QED  BY <1>2, <1>4, <1>5 DEF ReleasesItsLease

LEMMA TellsHolderNext ==
  ASSUME RegistryInv, LeaseLogTellsHolder, [Next]_vars
  PROVE  LeaseLogTellsHolder'
  <1>1. PICK n \in Nat : n = Len(leaseLog)
    BY DEF RegistryInv, LeasesTypeOK
  <1>2. leaseLog \in Seq(LeaseEvent) /\ n \in Nat /\ n = Len(leaseLog)
    BY <1>1 DEF RegistryInv, LeasesTypeOK
  <1>3. /\ \A e \in Devices : leases[e].isLeased <=> LeasedInLog(e)
        /\ \A k \in 1 .. n :
             leaseLog[k].event = "NodeReleased" => ReleasesItsLease(k)
    BY <1>2 DEF LeaseLogTellsHolder, LeasedInLog, ReleasesItsLease
  <1>4. CASE UNCHANGED <<leases, leaseLog>>
    BY <1>4 DEF LeaseLogTellsHolder, IsLastLeaseEvent
  <1>5. ASSUME NEW sender \in Accounts, NEW d \in Devices, LeaseNode(sender, d)
        PROVE  LeaseLogTellsHolder'
    <2> DEFINE ev == [event |-> "NodeLeased", deviceId |-> d, leaser |-> sender]
    <2>1. ev \in LeaseEvent /\ leaseLog' = Append(leaseLog, ev)
      BY <1>5 DEF LeaseNode, EmitLease, LeaseEvent
    <2>2. /\ Len(leaseLog') = n + 1
          /\ leaseLog'[n + 1] = ev
          /\ \A k \in 1 .. n : leaseLog'[k] = leaseLog[k]
          /\ IsLastLeaseEvent(n + 1, d)'
      BY <1>2, <2>1, AppendEffect
    <2>3. n + 1 \in 1 .. Len(leaseLog')
      BY <1>2, <2>2
    <2>4. leases'[d].isLeased /\ LeasedInLog(d)'
      <3>1. leases'[d].isLeased = TRUE /\ leases'[d].leasedBy = sender
        BY <1>5, LeaseNodeEffect
      <3>2. ev.event = "NodeLeased" /\ ev.leaser = sender
        OBVIOUS
      <3>3. LeasedInLog(d)'
        BY <2>2, <2>3, <3>1, <3>2 DEF LeasedInLog
      <3> QED  BY <3>1, <3>3
    <2>5. ASSUME NEW e \in Devices, e # d
          PROVE  leases'[e].isLeased <=> LeasedInLog(e)'
      BY <1>2, <1>3, <1>5, <2>1, <2>5, LeaseNodeEffect, OthersInLog
    <2>6. ASSUME NEW k \in 1 .. Len(leaseLog'), leaseLog'[k].event = "NodeReleased"
          PROVE  ReleasesItsLease(k)'
      <3>1. k # n + 1
        BY <2>2, <2>6
      <3>2. k \in 1 .. n
        BY <1>2, <2>2, <3>1
      <3> QED  BY <1>2, <1>3, <2>1, <2>2, <2>6, <3>2, OldReleases
    <2>7. \A e \in Devices : leases'[e].isLeased <=> LeasedInLog(e)'
      BY <2>4, <2>5
    <2> QED  BY <2>6, <2>7 DEF LeaseLogTellsHolder, LeasedInLog, ReleasesItsLease
  <1>6. ASSUME NEW sender \in Accounts, NEW d \in Devices, ReleaseNode(sender, d)
        PROVE  LeaseLogTellsHolder'
    <2> DEFINE ev == [event |-> "NodeReleased", deviceId |-> d, leaser |-> sender]
    <2>1. ev \in LeaseEvent /\ leaseLog' = Append(leaseLog, ev)
      BY <1>6 DEF ReleaseNode, EmitLease, LeaseEvent
    <2>2. /\ Len(leaseLog') = n + 1
          /\ leaseLog'[n + 1] = ev
          /\ \A k \in 1 .. n : leaseLog'[k] = leaseLog[k]
          /\ \A k \in 1 .. n : ~IsLastLeaseEvent(k, d)'
      BY <1>2, <2>1, AppendEffect
    <2>3. ~leases'[d].isLeased
      BY <1>6, ReleaseNodeEffect
    <2>4. ASSUME LeasedInLog(d)' PROVE FALSE
      <3>1. PICK k \in 1 .. Len(leaseLog') : /\ IsLastLeaseEvent(k, d)'
                                             /\ leaseLog'[k].event = "NodeLeased"
        BY <2>4 DEF LeasedInLog
      <3>2. k # n + 1
        BY <2>2, <3>1
      <3>3. k \in 1 .. n
        BY <1>2, <2>2, <3>2
      <3> QED  BY <2>2, <3>1, <3>3
    <2>5. ASSUME NEW e \in Devices, e # d
          PROVE  leases'[e].isLeased <=> LeasedInLog(e)'
      BY <1>2, <1>3, <1>6, <2>1, <2>5, ReleaseNodeEffect, OthersInLog
    <2>6. PICK j \in 1 .. n : /\ IsLastLeaseEvent(j, d)
                              /\ leaseLog[j].event = "NodeLeased"
                              /\ leaseLog[j].leaser = sender
      BY <1>2, <1>3, <1>6 DEF ReleaseNode, LeasedInLog
    <2>7. ReleasesItsLease(n + 1)'
      <3>1. leaseLog[j] \in LeaseEvent /\ leaseLog[j].deviceId = d
        BY <1>2, <2>6 DEF IsLastLeaseEvent
      <3>2. leaseLog[j] = [ev EXCEPT !.event = "NodeLeased"]
        BY <2>6, <3>1 DEF LeaseEvent
      <3>3. ASSUME NEW i \in j + 1 .. n
            PROVE  leaseLog'[i].deviceId # d
        <4>1. i \in 1 .. n /\ leaseLog[i].deviceId # d
          BY <1>2, <2>6 DEF IsLastLeaseEvent
        <4> QED  BY <2>2, <4>1
      <3>4. /\ (n + 1) - 1 = n
            /\ leaseLog'[j] = [leaseLog'[n + 1] EXCEPT !.event = "NodeLeased"]
            /\ leaseLog'[n + 1].deviceId = d
        BY <1>2, <2>2, <3>2
      <3>5. \E l \in 1 .. (n + 1) - 1 :
              /\ leaseLog'[l] = [leaseLog'[n + 1] EXCEPT !.event = "NodeLeased"]
              /\ \A i \in l + 1 .. (n + 1) - 1 :
                   leaseLog'[i].deviceId # leaseLog'[n + 1].deviceId
        BY <3>3, <3>4
      <3> QED  BY <3>5, <2>2 DEF ReleasesItsLease
    <2>8. ASSUME NEW k \in 1 .. Len(leaseLog'), leaseLog'[k].event = "NodeReleased"
          PROVE  ReleasesItsLease(k)'
      <3>1. CASE k = n + 1
        BY <2>7, <3>1
      <3>2. CASE k \in 1 .. n
        BY <1>2, <1>3, <2>1, <2>2, <2>8, <3>2, OldReleases
      <3> QED  BY <1>2, <2>2, <3>1, <3>2
    <2>9. \A e \in Devices : leases'[e].isLeased <=> LeasedInLog(e)'
      BY <2>3, <2>4, <2>5
    <2> QED  BY <2>8, <2>9 DEF LeaseLogTellsHolder, LeasedInLog, ReleasesItsLease
  <1> QED  BY <1>4, <1>5, <1>6 DEF Next, vars

\* The lease events tell who holds every device, and every release in them is
\* by the account of the lease before it.
THEOREM LeaseLogCorrect == Spec => []LeaseLogTellsHolder
  <1>1. Init => LeaseLogTellsHolder
    BY DEF Init, LeaseLogTellsHolder
  <1>2. RegistryInv /\ LeaseLogTellsHolder /\ [Next]_vars => LeaseLogTellsHolder'
    BY TellsHolderNext
  <1> QED  BY <1>1, <1>2, RegistryInvInit, RegistryInvNext, PTL DEF Spec
-----------------------------------------------------------------------------
(***************************************************************************)
(* The onboarding script and the auto-approve service.                     *)
(***************************************************************************)
ApprovalLogged(d) ==
  \E i \in 1 .. Len(log) : log[i].event = "OnboardingApproved" /\ log[i].deviceId = d

\* What the script knows: where it is, and that it filed the request it is about
\* to approve.  Nobody changes the owner or the device of a request.
ScriptInv ==
  /\ pc \in {"request", "approve"} => at <= Len(Workers)
  /\ pc = "done" => at = Len(Workers) + 1
  /\ pc = "approve" => /\ reqId \in RequestIds /\ reqId < nextRequestId
                       /\ requests[reqId].deviceId = Workers[at]
                       /\ requests[reqId].owner = Owner

\* Every approval is on the log under its device, and every worker the script
\* has left behind is approved there.
ApprovalsInv ==
  /\ \A id \in RequestIds :
       requests[id].status = "Approved" => ApprovalLogged(requests[id].deviceId)
  /\ \A i \in 1 .. Len(Workers) : i < at => ApprovalLogged(Workers[i])

\* While nothing has gone wrong all requests are the script's, one for a
\* worker, and all of them are approved but the one it is about to approve: so a
\* worker that getDeviceStatus does not call approved has no request.
CalmInv ==
  troubles = 0 /\ pc # "done" =>
    /\ \A id \in RequestIds : id < nextRequestId =>
         \/ requests[id].status = "Approved"
         \/ pc = "approve" /\ id = reqId /\ requests[id].status = "Pending"
    /\ \A i, j \in RequestIds :
         i < j /\ j < nextRequestId => requests[i].deviceId # requests[j].deviceId
    /\ pc = "request" => \A id \in RequestIds :
         id < nextRequestId => requests[id].deviceId # Workers[at]

StartupInv == TrustInv /\ StartupTypeOK /\ ScriptInv /\ ApprovalsInv /\ CalmInv

\* The log only grows, with the approval of a device by the transaction that
\* approves a request for it.
LEMMA EmitAppends ==
  ASSUME TrustInv, NEW name \in EventNames, NEW id \in RequestIds,
         NEW d \in Devices \cup {NoDevice}, NEW sender \in Accounts,
         Emit(name, id, d, sender)
  PROVE  /\ Len(log) \in Nat /\ Len(log') = Len(log) + 1
         /\ \A i \in 1 .. Len(log) : log'[i] = log[i]
         /\ name = "OnboardingApproved" => ApprovalLogged(d)'
<1> DEFINE e == [event |-> name, requestId |-> id, deviceId |-> d, actor |-> sender]
<1>1. log \in Seq(Event) /\ e \in Event /\ log' = Append(log, e)
  BY DEF TrustInv, TrustTypeOK, Event, Emit
<1>2. e.event = name /\ e.deviceId = d
  OBVIOUS
<1> HIDE DEF e
<1>3. /\ Len(log) \in Nat /\ Len(log') = Len(log) + 1 /\ log'[Len(log) + 1] = e
      /\ \A i \in 1 .. Len(log) : log'[i] = log[i]
  BY <1>1
<1>4. Len(log) + 1 \in 1 .. Len(log')
  BY <1>3
<1> QED BY <1>2, <1>3, <1>4 DEF ApprovalLogged

Frame ==
  /\ Len(log) \in Nat /\ Len(log') \in Nat /\ Len(log) <= Len(log')
  /\ \A i \in 1 .. Len(log) : log'[i] = log[i]
  /\ nextRequestId \in Nat /\ nextRequestId' \in Nat /\ nextRequestId <= nextRequestId'
  /\ \A id \in RequestIds : id < nextRequestId =>
       /\ requests'[id].deviceId = requests[id].deviceId
       /\ requests'[id].owner = requests[id].owner
  /\ \A id \in RequestIds :
       requests'[id].status = "Approved" /\ requests[id].status # "Approved" =>
         /\ ApprovalLogged(requests[id].deviceId)'
         /\ requests'[id].deviceId = requests[id].deviceId

\* What a transaction leaves alone.
LEMMA TransactionFrame ==
  ASSUME TrustInv, [TrustNext]_trustVars
  PROVE  Frame
<1> USE DEF Frame
<1>0. log \in Seq(Event) /\ Len(log) \in Nat /\ nextRequestId \in Nat
  BY DEF TrustInv, TrustTypeOK
<1>1. CASE UNCHANGED trustVars
  BY <1>0, <1>1 DEF trustVars
<1>2. ASSUME NEW sender \in Accounts, NEW d \in Devices,
             NEW owner \in Accounts \cup {ZeroAddress},
             RequestOnboarding(sender, d, owner)
      PROVE  Frame
  <2>1. /\ nextRequestId \in RequestIds /\ requests'[nextRequestId].status = "Pending"
        /\ \A i \in RequestIds : i # nextRequestId => requests'[i] = requests[i]
        /\ nextRequestId' = nextRequestId + 1
    BY <1>2, RequestType DEF RequestOnboarding
  <2>2. /\ Len(log') = Len(log) + 1 /\ \A i \in 1 .. Len(log) : log'[i] = log[i]
    BY <1>2, <2>1, EmitAppends DEF RequestOnboarding, EventNames
  <2>3. ASSUME NEW id \in RequestIds
        PROVE  /\ id < nextRequestId => requests'[id] = requests[id]
               /\ requests'[id].status = "Approved" => requests'[id] = requests[id]
    BY <1>0, <2>1 DEF RequestIds
  <2> QED BY <1>0, <2>1, <2>2, <2>3
<1>3. ASSUME NEW sender \in Accounts, NEW id \in RequestIds,
             Approve(sender, id) \/ Reject(sender, id) \/ Revoke(sender, id)
      PROVE  Frame
  <2>1. PICK status \in Status, name \in EventNames :
          /\ SetStatus(id, status) /\ Emit(name, id, requests[id].deviceId, sender)
          /\ status = "Approved" => name = "OnboardingApproved"
    BY <1>3 DEF Approve, Reject, Revoke, Status, EventNames
  <2>2. requests[id].deviceId \in Devices \cup {NoDevice}
    BY DEF TrustInv, TrustTypeOK, Request
  <2>3. /\ Len(log') = Len(log) + 1 /\ \A i \in 1 .. Len(log) : log'[i] = log[i]
        /\ status = "Approved" => ApprovalLogged(requests[id].deviceId)'
    <3>1. PICK d \in Devices \cup {NoDevice} : d = requests[id].deviceId
      BY <2>2
    <3>2. requests'[id].deviceId = d
      BY <2>1, <3>1, SetStatusType
    <3>3. /\ Len(log') = Len(log) + 1 /\ \A i \in 1 .. Len(log) : log'[i] = log[i]
          /\ name = "OnboardingApproved" => ApprovalLogged(d)'
      BY <2>1, <3>1, EmitAppends
    <3> QED BY <2>1, <3>2, <3>3
  <2>4. /\ requests'[id].status = status /\ nextRequestId' = nextRequestId
        /\ requests'[id].deviceId = requests[id].deviceId
        /\ requests'[id].owner = requests[id].owner
        /\ \A i \in RequestIds : i # id => requests'[i] = requests[i]
    BY <2>1, SetStatusType
  <2> QED BY <1>0, <2>3, <2>4
<1> QED BY <1>1, <1>2, <1>3 DEF TrustNext

LEMMA LoggedStays ==
  ASSUME Frame, NEW d, ApprovalLogged(d)
  PROVE  ApprovalLogged(d)'
  BY DEF Frame, ApprovalLogged

-----------------------------------------------------------------------------
(***************************************************************************)
(* Every step of the stack is a transaction or none.                       *)
(***************************************************************************)
LEMMA StackTransaction ==
  ASSUME StartupInv, [StartupNext]_startupVars
  PROVE  [TrustNext]_trustVars
<1> USE StartupAssumption
<1>1. CASE UNCHANGED startupVars
  BY <1>1 DEF startupVars, trustVars
<1>2. CASE Script
  <2>1. CASE CheckStatus
    BY <2>1 DEF CheckStatus, trustVars
  <2>2. CASE ScriptRequest
    <3>1. Workers[at] \in Devices
      BY <2>2 DEF StartupInv, StartupTypeOK, ScriptInv, ScriptRequest
    <3> QED BY <2>2, <3>1 DEF ScriptRequest, TrustNext
  <2>3. CASE ScriptApprove
    <3>1. reqId \in RequestIds
      BY <2>3 DEF StartupInv, ScriptInv, ScriptApprove
    <3> QED BY <2>3, <3>1 DEF ScriptApprove, TrustNext, trustVars
  <2> QED BY <1>2, <2>1, <2>2, <2>3 DEF Script
<1>3. CASE Service
  BY <1>3 DEF Service, Subscribe, Deliver, ServiceApprove, TrustNext, trustVars
<1>4. CASE Environment
  BY <1>4 DEF Environment, ScriptDies, Rerun, ServiceDies, OwnerDecides, EditTrust,
              GatewayRequest, TrustNext, trustVars
<1> QED BY <1>1, <1>2, <1>3, <1>4 DEF StartupNext

LEMMA StartupStart == StartupInit => StartupInv
<1> SUFFICES ASSUME StartupInit PROVE StartupInv
  OBVIOUS
<1> USE StartupAssumption DEF StartupInit
<1>1. TrustInv
  BY TrustInvInit
<1>2. Len(log) = 0 /\ nextRequestId = 0 /\ \A id \in RequestIds : requests[id].status = "Pending"
  BY DEF TrustInit, EmptyRequest
<1>3. StartupTypeOK
  <2>1. Len(Workers) \in Nat /\ at \in 1 .. Len(Workers) + 1
    OBVIOUS
  <2>2. reqId \in RequestIds \cup {0} /\ approving \in SUBSET RequestIds
    BY Zenon
  <2>3. heard \in 0 .. Len(log) /\ troubles \in 0 .. MaxTroubles
    BY <1>2
  <2> QED BY <2>2, <2>3, <1>1, <1>2, <2>1 DEF StartupTypeOK, TrustInv
<1>4. ScriptInv /\ ApprovalsInv /\ CalmInv
  BY <1>2 DEF ScriptInv, ApprovalsInv, CalmInv, RequestIds
<1> QED BY <1>1, <1>3, <1>4 DEF StartupInv

LEMMA StackTypes ==
  ASSUME StartupInv, [StartupNext]_startupVars, Frame, TrustInv'
  PROVE  StartupTypeOK'
<1> USE StartupAssumption DEF StartupTypeOK
<1>1. /\ StartupTypeOK /\ TrustTypeOK' /\ Len(log) \in Nat /\ Len(log') \in Nat
      /\ Len(log) <= Len(log') /\ log \in Seq(Event) /\ Len(Workers) \in Nat
  BY DEF StartupInv, Frame, TrustInv, TrustTypeOK
<1>2. CASE UNCHANGED startupVars
  BY <1>1, <1>2 DEF startupVars
<1>3. CASE Script
  <2>1. /\ pc' \in {"check", "request", "approve", "done", "failed"}
        /\ at' \in 1 .. Len(Workers) + 1
    BY <1>1, <1>3 DEF Script, CheckStatus, ScriptRequest, ScriptApprove, NextWorker,
                      StartupInv, ScriptInv
  <2>2. reqId' \in RequestIds \cup {0}
    <3>1. CASE ScriptRequest
      <4>1. reqId' = nextRequestId /\ nextRequestId < MaxRequests /\ nextRequestId \in Nat
        BY <3>1 DEF ScriptRequest, RequestOnboarding, TrustTypeOK, TrustInv, StartupInv
      <4>2. reqId' \in RequestIds
        BY <4>1, TrustAssumption DEF RequestIds
      <4> QED BY <4>2, Zenon
    <3> QED BY <1>1, <1>3, <3>1 DEF Script, CheckStatus, ScriptApprove
  <2>3. UNCHANGED <<listening, heard, approving, trusted>>
    BY <1>3 DEF Script, CheckStatus, ScriptRequest, ScriptApprove, serviceVars
  <2>4. troubles' \in 0 .. MaxTroubles
    BY <1>1, <1>3 DEF Script, CheckStatus, ScriptRequest, ScriptApprove, Trouble
  <2> QED BY <1>1, <2>1, <2>2, <2>3, <2>4
<1>4. CASE Service
  <2>1. UNCHANGED <<pc, at, reqId, trusted>>
    BY <1>4 DEF Service, Subscribe, Deliver, ServiceApprove, scriptVars
  <2>2. CASE Subscribe
    BY <1>1, <2>1, <2>2 DEF Subscribe, trustVars
  <2>3. CASE Deliver
    <3>1. log[heard + 1] \in Event /\ heard' \in 0 .. Len(log')
      BY <1>1, <2>3 DEF Deliver
    <3>2. approving' \in SUBSET RequestIds
      BY <1>1, <2>3, <3>1 DEF Deliver, Load, Hear, Event
    <3>3. troubles' \in 0 .. MaxTroubles /\ listening' \in BOOLEAN
      BY <1>1, <2>3 DEF Deliver, Load, Trouble
    <3> QED BY <1>1, <2>1, <3>1, <3>2, <3>3
  <2>4. CASE \E id \in RequestIds : ServiceApprove(id)
    BY <1>1, <2>1, <2>4 DEF ServiceApprove
  <2> QED BY <1>4, <2>2, <2>3, <2>4 DEF Service
<1>5. CASE Environment
  <2>1. /\ pc' \in {"check", "request", "approve", "done", "failed"}
        /\ at' \in 1 .. Len(Workers) + 1 /\ reqId' = reqId
    BY <1>1, <1>5 DEF Environment, ScriptDies, Rerun, ServiceDies, OwnerDecides, EditTrust,
                      GatewayRequest, scriptVars
  <2>2. UNCHANGED serviceVars \/ (listening' = FALSE /\ heard' = 0 /\ approving' = {})
    BY <1>5 DEF Environment, ScriptDies, Rerun, ServiceDies, OwnerDecides, EditTrust,
                      GatewayRequest
  <2>4. listening' \in BOOLEAN /\ heard' \in 0 .. Len(log') /\ approving' \in SUBSET RequestIds
    <3>1. CASE UNCHANGED serviceVars
      BY <1>1, <3>1 DEF serviceVars
    <3>2. CASE listening' = FALSE /\ heard' = 0 /\ approving' = {}
      <4>1. heard' \in 0 .. Len(log')
        BY <1>1, <3>2
      <4>2. listening' \in BOOLEAN /\ approving' \in SUBSET RequestIds
        BY <3>2, Zenon
      <4> QED BY <4>1, <4>2
    <3> QED BY <2>2, <3>1, <3>2
  <2>3. trusted' \in SUBSET Devices /\ troubles' \in 0 .. MaxTroubles
    BY <1>1, <1>5 DEF Environment, ScriptDies, Rerun, ServiceDies, OwnerDecides, EditTrust,
                      GatewayRequest, Trouble
  <2> QED BY <1>1, <2>1, <2>3, <2>4
<1> QED BY <1>2, <1>3, <1>4, <1>5 DEF StartupNext

\* What the other processes do to the script: kill it or start it again.
LEMMA OthersMove ==
  ASSUME StartupInv, Service \/ Environment
  PROVE  \/ UNCHANGED <<pc, at, reqId>>
         \/ pc' = "failed" /\ UNCHANGED <<at, reqId>>
         \/ pc' = "check" /\ at' = 1 /\ UNCHANGED reqId
  BY DEF Service, Subscribe, Deliver, ServiceApprove, Environment, ScriptDies, Rerun,
         ServiceDies, OwnerDecides, EditTrust, GatewayRequest, scriptVars

LEMMA ScriptStep ==
  ASSUME StartupInv, [StartupNext]_startupVars, Frame, StartupTypeOK'
  PROVE  ScriptInv'
<1> USE StartupAssumption
<1>1. Len(Workers) \in Nat /\ at \in 1 .. Len(Workers) + 1 /\ RequestIds \subseteq Nat
  BY DEF StartupInv, StartupTypeOK, RequestIds
<1>2. CASE UNCHANGED <<pc, at, reqId>>
  <2>1. ScriptInv /\ nextRequestId \in Nat /\ nextRequestId' \in Nat
        /\ nextRequestId <= nextRequestId'
    BY DEF StartupInv, Frame
  <2>2. ASSUME pc = "approve"
        PROVE  /\ reqId < nextRequestId'
               /\ requests'[reqId].deviceId = requests[reqId].deviceId
               /\ requests'[reqId].owner = requests[reqId].owner
    <3>1. reqId \in RequestIds /\ reqId \in Nat /\ reqId < nextRequestId
      BY <1>1, <2>1, <2>2 DEF ScriptInv
    <3> QED BY <2>1, <3>1 DEF Frame
  <2> QED BY <1>2, <2>1, <2>2 DEF ScriptInv
<1>3. CASE Service \/ Environment
  BY <1>2, <1>3, OthersMove DEF ScriptInv
<1>4. CASE CheckStatus
  BY <1>1, <1>4 DEF CheckStatus, ScriptInv, NextWorker
<1>5. CASE ScriptRequest
  <2>1. Workers[at] \in Devices /\ at <= Len(Workers)
    BY <1>1, <1>5 DEF StartupInv, ScriptInv, ScriptRequest
  <2>2. RequestOnboarding(Admin, Workers[at], Owner) /\ TrustInv
    BY <1>5 DEF ScriptRequest, StartupInv
  <2>3. nextRequestId \in RequestIds /\ requests'[nextRequestId].deviceId = Workers[at]
    BY <2>1, <2>2, RequestType
  <2>4. requests'[nextRequestId].owner = Owner
    BY <2>2, <2>3 DEF RequestOnboarding, TrustInv, TrustTypeOK
  <2>5. nextRequestId < nextRequestId'
    BY <2>2 DEF RequestOnboarding, Frame
  <2> QED BY <1>5, <2>1, <2>3, <2>4, <2>5 DEF ScriptRequest, ScriptInv
<1>6. CASE ScriptApprove
  BY <1>6 DEF ScriptApprove, NextWorker, ScriptInv
<1> QED BY <1>2, <1>3, <1>4, <1>5, <1>6 DEF StartupNext, Script, startupVars

LEMMA ApprovedDevice ==
  ASSUME StartupInv, NEW d \in Devices, HasStatus(d, "Approved")
  PROVE  ApprovalLogged(d)
<1>1. PICK id \in RequestIds : IsLatest(id, d) /\ requests[id].status = "Approved"
  BY DEF HasStatus
<1> QED BY <1>1 DEF StartupInv, ApprovalsInv, IsLatest

LEMMA ApprovalsStep ==
  ASSUME StartupInv, [StartupNext]_startupVars, Frame, StartupTypeOK'
  PROVE  ApprovalsInv'
<1> USE StartupAssumption
<1>1. /\ Len(Workers) \in Nat /\ at \in 1 .. Len(Workers) + 1 /\ RequestIds \subseteq Nat
      /\ ApprovalsInv
  BY DEF StartupInv, StartupTypeOK, RequestIds
<1>2. ASSUME NEW id \in RequestIds, requests'[id].status = "Approved"
      PROVE  ApprovalLogged(requests[id].deviceId)'
  <2>1. CASE requests[id].status = "Approved"
    <3>1. id < nextRequestId
      BY <2>1 DEF StartupInv, TrustInv, SlotsInOrder, EmptyRequest
    <3>2. requests'[id].deviceId = requests[id].deviceId
      BY <3>1 DEF Frame
    <3>3. PICK d : d = requests[id].deviceId
      OBVIOUS
    <3>4. ApprovalLogged(d)'
      BY <1>1, <2>1, <3>3, LoggedStays DEF ApprovalsInv
    <3> QED BY <3>2, <3>3, <3>4
  <2>2. CASE requests[id].status # "Approved"
    BY <1>2, <2>2 DEF Frame
  <2> QED BY <2>1, <2>2
<1>3. ASSUME NEW i \in 1 .. Len(Workers), i < at
      PROVE  ApprovalLogged(Workers[i])'
  BY <1>1, <1>3, LoggedStays DEF ApprovalsInv
<1>4. ASSUME NEW i \in 1 .. Len(Workers), i < at', ~(i < at)
      PROVE  ApprovalLogged(Workers[i])'
  <2>1. Workers[i] \in Devices
    OBVIOUS
  <2>2. CASE CheckStatus
    <3>1. i = at /\ HasStatus(Workers[i], "Approved")
      BY <1>1, <1>4, <2>2 DEF CheckStatus, NextWorker
    <3> QED BY <2>1, <3>1, ApprovedDevice, LoggedStays
  <2>3. CASE ScriptApprove
    <3>1. i = at /\ Approve(Owner, reqId)
      BY <1>1, <1>4, <2>3 DEF ScriptApprove, NextWorker
    <3>2. reqId \in RequestIds /\ reqId < nextRequestId /\ requests[reqId].deviceId = Workers[i]
      BY <2>3, <3>1 DEF StartupInv, ScriptInv, ScriptApprove
    <3>3. requests[reqId].status # "Approved" /\ requests'[reqId].status = "Approved"
          /\ requests'[reqId].deviceId = Workers[i]
      BY <3>1, <3>2, SetStatusType DEF Approve, Status, StartupInv
    <3>4. PICK r \in RequestIds : r = reqId
      BY <3>2
    <3>5. ApprovalLogged(requests[r].deviceId)'
      BY <3>3, <3>4 DEF Frame
    <3> QED BY <3>3, <3>4, <3>5
  <2>4. CASE Service \/ Environment
    <3>1. at' = at \/ at' = 1
      BY <2>4, OthersMove
    <3> QED BY <1>1, <1>4, <3>1
  <2> QED BY <1>1, <1>4, <2>2, <2>3, <2>4 DEF StartupNext, Script, ScriptRequest, startupVars
<1> QED BY <1>2, <1>3, <1>4 DEF ApprovalsInv

\* Decisions and other steps that file no request: the requests of a calm stack
\* are settled one by one.
LEMMA CalmSettles ==
  ASSUME StartupInv, Frame, CalmInv, troubles = 0, pc # "done", nextRequestId' = nextRequestId,
         \A id \in RequestIds : \/ requests'[id] = requests[id]
                                \/ requests'[id].status = "Approved",
         \A id \in RequestIds :
           id < nextRequestId /\ requests'[id].status # "Approved" =>
             pc' = "approve" /\ reqId' = id,
         pc' = "request" => \A id \in RequestIds :
           id < nextRequestId => requests[id].deviceId # Workers[at']
  PROVE  CalmInv'
<1>1. RequestIds \subseteq Nat /\ nextRequestId \in Nat
  BY TrustAssumption DEF RequestIds, Frame
<1>2. \A id \in RequestIds : id < nextRequestId => requests'[id].deviceId = requests[id].deviceId
  BY DEF Frame
<1>3. \A i, j \in RequestIds :
        i < j /\ j < nextRequestId => requests'[i].deviceId # requests'[j].deviceId
  <2> SUFFICES ASSUME NEW i \in RequestIds, NEW j \in RequestIds, i < j, j < nextRequestId
               PROVE  requests'[i].deviceId # requests'[j].deviceId
    OBVIOUS
  <2>1. i < nextRequestId
    BY <1>1
  <2> QED BY <1>2, <2>1 DEF CalmInv
<1>4. ASSUME NEW id \in RequestIds, id < nextRequestId
      PROVE  \/ requests'[id].status = "Approved"
             \/ pc' = "approve" /\ id = reqId' /\ requests'[id].status = "Pending"
  BY <1>4 DEF CalmInv
<1>5. pc' = "request" => \A id \in RequestIds :
        id < nextRequestId => requests'[id].deviceId # Workers'[at']
  BY <1>2
<1> QED BY <1>3, <1>4, <1>5 DEF CalmInv

LEMMA NothingWrong ==
  ASSUME StartupInv, [StartupNext]_startupVars, troubles' = 0, pc' # "done"
  PROVE  troubles = 0 /\ pc # "done" /\ ~Trouble
<1>1. troubles \in Nat
  BY StartupAssumption DEF StartupInv, StartupTypeOK
<1>2. ~Trouble
  BY <1>1 DEF Trouble
<1>3. troubles = 0
  BY <1>2 DEF StartupNext, Script, Service, Environment, CheckStatus, ScriptRequest, ScriptApprove,
      Subscribe, Deliver, Load, ServiceApprove, ScriptDies, Rerun, ServiceDies, OwnerDecides,
      EditTrust, GatewayRequest, startupVars
<1>4. pc # "done"
  BY DEF StartupNext, Script, Service, Environment, CheckStatus, ScriptRequest, ScriptApprove,
      Subscribe, Deliver, ServiceApprove, ScriptDies, Rerun, ServiceDies, OwnerDecides,
      EditTrust, GatewayRequest, startupVars, scriptVars
<1> QED BY <1>2, <1>3, <1>4

LEMMA CalmStep ==
  ASSUME StartupInv, [StartupNext]_startupVars, Frame
  PROVE  CalmInv'
<1> SUFFICES ASSUME troubles' = 0, pc' # "done" PROVE CalmInv'
  BY DEF CalmInv
<1>1. /\ CalmInv /\ troubles = 0 /\ pc # "done" /\ ~Trouble /\ RequestIds \subseteq Nat
      /\ nextRequestId \in Nat
  BY NothingWrong, TrustAssumption DEF StartupInv, RequestIds, Frame
<1>2. \A id \in RequestIds : id < nextRequestId =>
        \/ requests[id].status = "Approved"
        \/ pc = "approve" /\ id = reqId /\ requests[id].status = "Pending"
  BY <1>1 DEF CalmInv
<1>3. CASE UNCHANGED <<requests, nextRequestId, pc, at, reqId>>
  BY <1>1, <1>2, <1>3, CalmSettles DEF CalmInv
<1>4. CASE CheckStatus
  <2>1. /\ requests' = requests /\ nextRequestId' = nextRequestId /\ pc = "check"
        /\ pc' = "request" => /\ at' = at /\ at <= Len(Workers)
                              /\ ~HasStatus(Workers[at], "Approved")
    BY <1>1, <1>4 DEF CheckStatus, NextWorker, trustVars
  <2>2. \A id \in RequestIds : id < nextRequestId => requests[id].status = "Approved"
    BY <1>2, <2>1
  <2>3. ASSUME pc' = "request", NEW id \in RequestIds, id < nextRequestId,
               requests[id].deviceId = Workers[at]
        PROVE  FALSE
    <3>1. IsLatest(id, Workers[at])
      BY <1>1, <2>3 DEF IsLatest, CalmInv
    <3> QED BY <2>1, <2>2, <2>3, <3>1 DEF HasStatus
  <2> QED BY <1>1, <2>1, <2>2, <2>3, CalmSettles
<1>5. CASE ScriptRequest
  <2>1. /\ RequestOnboarding(Admin, Workers[at], Owner) /\ TrustInv /\ pc = "request"
        /\ pc' = "approve" /\ reqId' = nextRequestId /\ nextRequestId' = nextRequestId + 1
    BY <1>5 DEF ScriptRequest, StartupInv, RequestOnboarding
  <2>2. Workers[at] \in Devices
    BY <2>1, StartupAssumption DEF StartupInv, StartupTypeOK, ScriptInv
  <2>3. /\ nextRequestId \in RequestIds
        /\ requests'[nextRequestId].deviceId = Workers[at]
        /\ requests'[nextRequestId].status = "Pending"
        /\ \A i \in RequestIds : i # nextRequestId => requests'[i] = requests[i]
    BY <2>1, <2>2, StartupAssumption, RequestType
  <2>4. \A id \in RequestIds : id < nextRequestId =>
          /\ requests'[id] = requests[id] /\ requests[id].status = "Approved"
          /\ requests[id].deviceId # Workers[at]
    BY <1>1, <1>2, <2>1, <2>3 DEF CalmInv
  <2>5. ASSUME NEW id \in RequestIds, id < nextRequestId'
        PROVE  \/ requests'[id].status = "Approved"
               \/ pc' = "approve" /\ id = reqId' /\ requests'[id].status = "Pending"
    <3>1. id = nextRequestId \/ id < nextRequestId
      BY <1>1, <2>1, <2>5
    <3> QED BY <2>1, <2>3, <2>4, <3>1
  <2>6. ASSUME NEW i \in RequestIds, NEW j \in RequestIds, i < j, j < nextRequestId'
        PROVE  requests'[i].deviceId # requests'[j].deviceId
    <3>1. i < nextRequestId /\ (j = nextRequestId \/ j < nextRequestId)
      BY <1>1, <2>1, <2>6
    <3>2. CASE j = nextRequestId
      BY <2>3, <2>4, <3>1, <3>2
    <3>3. CASE j < nextRequestId
      BY <1>1, <2>4, <2>6, <3>1, <3>3 DEF CalmInv
    <3> QED BY <3>1, <3>2, <3>3
  <2> QED BY <2>1, <2>5, <2>6 DEF CalmInv
<1>6. ASSUME NEW id \in RequestIds, Approve(Owner, id)
      PROVE  /\ nextRequestId' = nextRequestId /\ requests'[id].status = "Approved"
             /\ \A i \in RequestIds : i # id => requests'[i] = requests[i]
  BY <1>6, SetStatusType DEF Approve, Status, StartupInv
<1>7. CASE ScriptApprove
  <2>1. /\ pc = "approve" /\ pc' \in {"check", "failed"} /\ reqId \in RequestIds
        /\ reqId < nextRequestId /\ requests[reqId].owner = Owner
    BY <1>7 DEF ScriptApprove, NextWorker, StartupInv, ScriptInv
  <2>2. CASE Approve(Owner, reqId)
    BY <1>1, <1>2, <1>6, <2>1, <2>2, CalmSettles
  <2>3. CASE ~MayApprove(reqId) /\ UNCHANGED trustVars
    <3>1. requests[reqId].status # "Pending" /\ requests' = requests
          /\ nextRequestId' = nextRequestId
      BY <2>1, <2>3 DEF MayApprove, trustVars
    <3> QED BY <1>1, <1>2, <2>1, <3>1, CalmSettles
  <2> QED BY <1>7, <2>2, <2>3 DEF ScriptApprove
<1>8. ASSUME NEW id \in RequestIds, ServiceApprove(id)
      PROVE  CalmInv'
  <2>1. UNCHANGED <<pc, at, reqId>>
    BY <1>8 DEF ServiceApprove, scriptVars
  <2>2. CASE Approve(Owner, id)
    BY <1>1, <1>2, <1>6, <2>1, <2>2, CalmSettles DEF CalmInv
  <2>3. CASE UNCHANGED trustVars
    BY <1>3, <2>1, <2>3 DEF trustVars
  <2> QED BY <1>8, <2>2, <2>3 DEF ServiceApprove
<1>9. CASE Rerun
  <2>1. /\ pc = "failed" /\ pc' = "check" /\ requests' = requests
        /\ nextRequestId' = nextRequestId
    BY <1>9 DEF Rerun, trustVars
  <2> QED BY <1>1, <1>2, <2>1, CalmSettles
<1>10. CASE Subscribe \/ Deliver \/ \E d \in Editable : EditTrust(d)
  BY <1>3, <1>10 DEF Subscribe, Deliver, EditTrust, trustVars, scriptVars
<1>11. ~(ScriptDies \/ ServiceDies \/ \E id \in RequestIds : OwnerDecides(id))
  BY <1>1 DEF ScriptDies, ServiceDies, OwnerDecides
<1>12. ~\E d \in Devices, owner \in Accounts : GatewayRequest(d, owner)
  BY <1>1 DEF GatewayRequest
<1> QED
  BY <1>3, <1>4, <1>5, <1>7, <1>8, <1>9, <1>10, <1>11, <1>12
  DEF StartupNext, Script, Service, Environment, startupVars

-----------------------------------------------------------------------------
LEMMA StartupInductive ==
  ASSUME StartupInv, [StartupNext]_startupVars
  PROVE  StartupInv' /\ [TrustNext]_trustVars
<1>1. [TrustNext]_trustVars
  BY StackTransaction
<1>2. Frame /\ TrustInv'
  BY <1>1, TransactionFrame, TrustInvNext DEF StartupInv
<1>3. StartupTypeOK'
  BY <1>2, StackTypes
<1> QED BY <1>1, <1>2, <1>3, ScriptStep, ApprovalsStep, CalmStep DEF StartupInv

LEMMA StartupInvariant == StartupSpec => []StartupInv
<1>1. StartupInv /\ [StartupNext]_startupVars => StartupInv'
  BY StartupInductive
<1> QED BY <1>1, StartupStart, PTL DEF StartupSpec

\* Whatever the script, the service and the owner do, in any order, restarts
\* included, the contract sees transactions of its own specification: all that
\* is proved of the contract holds while the stack starts.
THEOREM StartupUsesContract == StartupSpec => TrustSpec
<1>1. StartupInit => TrustInit
  BY DEF StartupInit
<1>2. StartupInv /\ [StartupNext]_startupVars => [TrustNext]_trustVars
  BY StartupInductive
<1> QED BY <1>1, <1>2, StartupInvariant, PTL DEF StartupSpec, TrustSpec

\* The script and the service keep their variables in their types.
THEOREM StartupTypeCorrect == StartupSpec => []StartupTypeOK
<1>1. StartupInv => StartupTypeOK
  BY DEF StartupInv
<1> QED BY <1>1, StartupInvariant, PTL

\* The gateway starts only when every worker has been approved on the chain,
\* also when the script was killed or lost a race and was run again, and when
\* the owner decided otherwise in between (DoneMeansApproved).
THEOREM DoneMeansApprovedCorrect == StartupSpec => []DoneMeansApproved
<1>1. ASSUME StartupInv PROVE DoneMeansApproved
  <2> SUFFICES ASSUME pc = "done", NEW i \in 1 .. Len(Workers)
               PROVE  ApprovalLogged(Workers[i])
    BY DEF DoneMeansApproved, WorkerSet, ApprovalLogged
  <2>1. at = Len(Workers) + 1 /\ Len(Workers) \in Nat
    BY <1>1, StartupAssumption DEF StartupInv, ScriptInv
  <2> QED BY <1>1, <2>1 DEF StartupInv, ApprovalsInv
<1>2. StartupInv => DoneMeansApproved
  BY <1>1
<1> QED BY <1>2, StartupInvariant, PTL

\* Unless something else goes wrong the script files one request for a worker
\* at most, however often it loses the race and is run again
\* (OneRequestPerWorker).
THEOREM OneRequestPerWorkerCorrect == StartupSpec => []OneRequestPerWorker
<1>1. StartupInv => OneRequestPerWorker
  BY DEF StartupInv, CalmInv, OneRequestPerWorker
<1> QED BY <1>1, StartupInvariant, PTL

-----------------------------------------------------------------------------
(***************************************************************************)
(* The event feed: numbering the events of one type.                       *)
(***************************************************************************)
LEMMA BeforeCounts ==
  ASSUME NEW S \in SUBSET Nat, IsFiniteSet(S)
  PROVE  /\ Cardinality(S) \in Nat
         /\ \A i \in S : Before(S, i) \in 0 .. Cardinality(S) - 1
         /\ \A i, l \in S : i < l => Before(S, i) < Before(S, l)
<1> DEFINE B(i) == {j \in S : j < i}
<1>1. Cardinality(S) \in Nat
  BY FS_CardinalityType
<1>2. ASSUME NEW i \in S
      PROVE  IsFiniteSet(B(i)) /\ Cardinality(B(i)) \in 0 .. Cardinality(S) - 1
  <2>1. IsFiniteSet(S \ {i}) /\ Cardinality(S \ {i}) = Cardinality(S) - 1
    BY FS_RemoveElement
  <2>2. B(i) \in SUBSET (S \ {i})
    OBVIOUS
  <2> HIDE DEF B
  <2>3. IsFiniteSet(B(i)) /\ Cardinality(B(i)) <= Cardinality(S \ {i})
    BY <2>1, <2>2, FS_Subset
  <2>4. Cardinality(B(i)) \in Nat
    BY <2>3, FS_CardinalityType
  <2> QED BY <1>1, <2>1, <2>3, <2>4
<1>3. ASSUME NEW i \in S, NEW l \in S, i < l
      PROVE  Cardinality(B(i)) < Cardinality(B(l))
  <2>1. i \in B(l) /\ i \notin B(i)
    BY <1>3
  <2>2. ASSUME NEW j \in B(i) PROVE j \in B(l)
    BY <1>3, <2>2
  <2> HIDE DEF B
  <2>3. Cardinality(B(i) \cup {i}) = Cardinality(B(i)) + 1
    BY <1>2, <2>1, FS_AddElement
  <2>4. B(i) \cup {i} \in SUBSET B(l)
    BY <2>1, <2>2
  <2>5. Cardinality(B(i) \cup {i}) <= Cardinality(B(l))
    BY <1>2, <2>4, FS_Subset
  <2>6. Cardinality(B(i)) \in Int /\ Cardinality(B(l)) \in Int
    BY <1>1, <1>2
  <2> QED BY <2>3, <2>5, <2>6
<1> QED BY <1>1, <1>2, <1>3 DEF Before

LEMMA NthExists ==
  ASSUME NEW S \in SUBSET Nat, IsFiniteSet(S)
  PROVE  /\ \A k \in 1 .. Cardinality(S) : Nth(S, k) \in S /\ Before(S, Nth(S, k)) = k - 1
         /\ \A i \in S : \E k \in 1 .. Cardinality(S) : Nth(S, k) = i
<1> DEFINE n == Cardinality(S)
           rank == [i \in S |-> Before(S, i) + 1]
<1>1. n \in Nat /\ \A i \in S : rank[i] \in 1 .. n /\ rank[i] = Before(S, i) + 1
  BY BeforeCounts
<1>2. \A i, l \in S : Before(S, i) = Before(S, l) => i = l
  <2> SUFFICES ASSUME NEW i \in S, NEW l \in S, i # l PROVE Before(S, i) # Before(S, l)
    OBVIOUS
  <2>1. i < l \/ l < i
    OBVIOUS
  <2>2. Before(S, i) \in Int /\ Before(S, l) \in Int
    BY BeforeCounts
  <2> QED BY <2>1, <2>2, BeforeCounts
<1> HIDE DEF n
<1>3. rank \in Injection(S, 1 .. n)
  <2>1. rank \in [S -> 1 .. n]
    BY <1>1
  <2>2. ASSUME NEW i \in S, NEW l \in S, rank[i] = rank[l] PROVE i = l
    <3>1. Before(S, i) = Before(S, l)
      BY <1>1, <2>2, BeforeCounts
    <3> QED BY <3>1, <1>2
  <2> HIDE DEF rank
  <2> QED BY <2>1, <2>2 DEF Injection, IsInjective
<1>4. rank \in Surjection(S, 1 .. n)
  <2>1. IsFiniteSet(1 .. n) /\ Cardinality(1 .. n) = n
    BY <1>1, FS_Interval
  <2> HIDE DEF rank
  <2> QED BY <1>3, <2>1, FS_Injection DEF n
<1>5. ASSUME NEW k \in 1 .. n
      PROVE  Nth(S, k) \in S /\ Before(S, Nth(S, k)) = k - 1
  <2>1. PICK i \in S : rank[i] = k
    <3> HIDE DEF rank
    <3> QED BY <1>4 DEF Surjection
  <2>2. Before(S, i) = k - 1
    BY <1>1, <2>1, BeforeCounts
  <2> QED BY <2>2 DEF Nth
<1>6. ASSUME NEW i \in S
      PROVE  \E k \in 1 .. n : Nth(S, k) = i
  <2>1. rank[i] \in 1 .. n /\ rank[i] - 1 = Before(S, i)
    BY <1>1, BeforeCounts
  <2>2. Nth(S, rank[i]) \in S /\ Before(S, Nth(S, rank[i])) = Before(S, i)
    BY <1>5, <2>1
  <2>3. Nth(S, rank[i]) = i
    BY <1>2, <2>2
  <2> QED BY <2>1, <2>3
<1> QED BY <1>5, <1>6 DEF n

\* A set of positions has a last one.
LEMMA LastPosition ==
  ASSUME NEW n \in Nat, NEW S \in SUBSET (1 .. n), S # {}
  PROVE  \E i \in S : \A j \in S : j <= i
<1>1. IsFiniteSet(S) /\ S \in SUBSET Nat
  <2>1. IsFiniteSet(1 .. n)
    BY FS_Interval
  <2>2. IsFiniteSet(S)
    BY <2>1, FS_Subset
  <2>3. \A x \in 1 .. n : x \in Nat
    OBVIOUS
  <2> QED BY <2>2, <2>3
<1>2. Cardinality(S) \in Nat /\ Cardinality(S) \in 1 .. Cardinality(S)
  <2>1. Cardinality(S) # 0
    <3>1. Cardinality(S) = 0 <=> S = {}
      BY <1>1, FS_EmptySet, Zenon
    <3> QED BY <3>1
  <2>2. Cardinality(S) \in Nat
    BY <1>1, BeforeCounts
  <2> QED BY <2>1, <2>2
<1>3. PICK i \in S : Before(S, i) = Cardinality(S) - 1
  <2>1. /\ Nth(S, Cardinality(S)) \in S
        /\ Before(S, Nth(S, Cardinality(S))) = Cardinality(S) - 1
    BY <1>1, <1>2, NthExists
  <2> QED BY <2>1
<1>4. ASSUME NEW j \in S PROVE j <= i
  <2>1. Before(S, j) \in 0 .. Cardinality(S) - 1 /\ (i < j => Before(S, i) < Before(S, j))
    BY <1>1, BeforeCounts
  <2> QED BY <1>1, <1>2, <1>3, <2>1
<1> QED BY <1>4

-----------------------------------------------------------------------------
(***************************************************************************)
(* The life of a request in the log: its events come in the order of their *)
(* levels, and no two of them have the same.                               *)
(***************************************************************************)
Level == [OnboardingRequested |-> 1, OnboardingApproved |-> 2,
          OnboardingRejected  |-> 2, OnboardingRevoked  |-> 3]

StatusLevel == [Pending |-> 1, Approved |-> 2, Rejected |-> 2, Revoked |-> 3]

InLifeOrder(s) ==
  \A i, j \in 1 .. Len(s) :
    i < j /\ s[i].requestId = s[j].requestId => Level[s[i].event] < Level[s[j].event]

LogInv ==
  /\ InLifeOrder(log)
  /\ \A i \in 1 .. Len(log) :
       /\ log[i].requestId < nextRequestId
       /\ Level[log[i].event] <= StatusLevel[requests[log[i].requestId].status]

LEMMA Levels ==
  /\ \A name \in EventNames : Level[name] \in 1 .. 3
  /\ \A status \in Status : StatusLevel[status] \in 1 .. 3
  BY DEF EventNames, Status, Level, StatusLevel

LEMMA EventFields ==
  ASSUME NEW s \in Seq(Event), NEW i \in 1 .. Len(s)
  PROVE  s[i] \in Event /\ s[i].event \in EventNames /\ s[i].requestId \in RequestIds
<1>1. s[i] \in Event
  OBVIOUS
<1> QED BY <1>1 DEF Event

LEMMA AppendKeepsLogInv ==
  ASSUME TrustInv, LogInv, NEW name \in EventNames, NEW id \in RequestIds,
         NEW d \in Devices \cup {NoDevice}, NEW sender \in Accounts,
         Emit(name, id, d, sender),
         requests' \in [RequestIds -> Request],
         nextRequestId' \in 0 .. MaxRequests, nextRequestId <= nextRequestId',
         id < nextRequestId', Level[name] <= StatusLevel[requests'[id].status],
         \A i \in RequestIds : i # id => requests'[i].status = requests[i].status,
         \A i \in 1 .. Len(log) : log[i].requestId = id =>
           Level[log[i].event] < Level[name]
  PROVE  LogInv'
<1> DEFINE e == [event |-> name, requestId |-> id, deviceId |-> d, actor |-> sender]
<1>1. e \in Event /\ e.event = name /\ e.requestId = id
  BY DEF Event
<1> HIDE DEF e
<1>2. log' = Append(log, e) /\ log \in Seq(Event)
  BY DEF Emit, TrustInv, TrustTypeOK, e
<1>3. /\ Len(log') = Len(log) + 1 /\ Len(log) \in Nat
      /\ log'[Len(log) + 1] = e
      /\ \A i \in 1 .. Len(log) : log'[i] = log[i]
  BY <1>1, <1>2
<1>4. \A i \in 1 .. Len(log') : i \in 1 .. Len(log) \/ i = Len(log) + 1
  BY <1>3
<1>5. nextRequestId \in Int /\ nextRequestId' \in Int /\ RequestIds \subseteq Int
  BY DEF TrustInv, TrustTypeOK, RequestIds
<1>6. InLifeOrder(log)'
  <2> SUFFICES ASSUME NEW i \in 1 .. Len(log'), NEW j \in 1 .. Len(log'),
                      i < j, log'[i].requestId = log'[j].requestId
               PROVE  Level[log'[i].event] < Level[log'[j].event]
    BY DEF InLifeOrder
  <2>1. i \in 1 .. Len(log)
    BY <1>3, <1>4
  <2>2. CASE j \in 1 .. Len(log)
    BY <1>3, <2>1, <2>2 DEF LogInv, InLifeOrder
  <2>3. CASE j = Len(log) + 1
    BY <1>1, <1>3, <2>1, <2>3
  <2> QED BY <1>4, <2>2, <2>3
<1>7. ASSUME NEW i \in 1 .. Len(log')
      PROVE  /\ log'[i].requestId < nextRequestId'
             /\ Level[log'[i].event] <= StatusLevel[requests'[log'[i].requestId].status]
  <2>1. CASE i = Len(log) + 1
    BY <1>1, <1>3, <2>1
  <2>2. CASE i \in 1 .. Len(log)
    <3>1. log'[i] = log[i] /\ log[i].requestId \in RequestIds /\ log[i].event \in EventNames
      BY <1>2, <1>3, <2>2, EventFields
    <3>2. /\ log[i].requestId < nextRequestId
          /\ Level[log[i].event] <= StatusLevel[requests[log[i].requestId].status]
      BY <2>2 DEF LogInv
    <3>3. CASE log[i].requestId # id
      <4>1. requests'[log[i].requestId].status = requests[log[i].requestId].status
        BY <3>1, <3>3
      <4>2. log[i].requestId \in Int
        BY <1>5, <3>1
      <4>3. log[i].requestId < nextRequestId'
        BY <1>5, <3>2, <4>2
      <4> QED BY <3>1, <3>2, <4>1, <4>3
    <3>4. CASE log[i].requestId = id
      <4>1. Level[log[i].event] < Level[name]
        BY <2>2, <3>4
      <4>2. /\ Level[log[i].event] \in Int /\ Level[name] \in Int
            /\ StatusLevel[requests'[id].status] \in Int
        BY <3>1, Levels DEF Request
      <4> QED BY <1>5, <3>1, <3>2, <3>4, <4>1, <4>2
    <3> QED BY <3>3, <3>4
  <2> QED BY <1>4, <2>1, <2>2
<1> QED BY <1>6, <1>7 DEF LogInv

LEMMA DecideKeepsLogInv ==
  ASSUME TrustInv, LogInv, NEW id \in RequestIds, id < nextRequestId,
         NEW status \in Status, NEW name \in EventNames, NEW sender \in Accounts,
         SetStatus(id, status), Emit(name, id, requests[id].deviceId, sender),
         StatusLevel[requests[id].status] < Level[name], Level[name] = StatusLevel[status]
  PROVE  LogInv'
<1>1. /\ requests' \in [RequestIds -> Request] /\ requests'[id].status = status
      /\ \A i \in RequestIds : i # id => requests'[i].status = requests[i].status
      /\ nextRequestId' = nextRequestId
  BY SetStatusType
<1>2. nextRequestId \in 0 .. MaxRequests /\ nextRequestId \in Int
      /\ requests[id].deviceId \in Devices \cup {NoDevice} /\ requests[id].status \in Status
  BY DEF TrustInv, TrustTypeOK, Request
<1>3. Level[name] <= StatusLevel[requests'[id].status]
  BY <1>1, Levels
<1>4. ASSUME NEW i \in 1 .. Len(log), log[i].requestId = id
      PROVE  Level[log[i].event] < Level[name]
  <2>1. Level[log[i].event] <= StatusLevel[requests[id].status]
    BY <1>4 DEF LogInv
  <2>2. log[i].event \in EventNames
    BY EventFields DEF TrustInv, TrustTypeOK
  <2>3. /\ Level[log[i].event] \in Int /\ Level[name] \in Int
        /\ StatusLevel[requests[id].status] \in Int
    BY <1>2, <2>2, Levels
  <2> QED BY <2>1, <2>3
<1>5. /\ nextRequestId' \in 0 .. MaxRequests /\ nextRequestId <= nextRequestId'
      /\ id < nextRequestId'
  BY <1>1, <1>2
<1> QED BY <1>1, <1>2, <1>3, <1>4, <1>5, AppendKeepsLogInv

LEMMA LogInvNext == TrustInv /\ LogInv /\ TrustNext => LogInv'
<1> SUFFICES ASSUME TrustInv, LogInv, TrustNext PROVE LogInv'
  OBVIOUS
<1>1. ASSUME NEW sender \in Accounts, NEW d \in Devices,
             NEW owner \in Accounts \cup {ZeroAddress}, RequestOnboarding(sender, d, owner)
      PROVE  LogInv'
  <2>1. /\ nextRequestId \in RequestIds /\ requests' \in [RequestIds -> Request]
        /\ requests'[nextRequestId].status = "Pending"
        /\ nextRequestId' \in 0 .. MaxRequests
        /\ \A i \in RequestIds : i # nextRequestId => requests'[i].status = requests[i].status
    BY <1>1, RequestType
  <2>2. nextRequestId' = nextRequestId + 1 /\ nextRequestId \in Int
    BY <1>1 DEF RequestOnboarding, TrustInv, TrustTypeOK
  <2>3. \A i \in 1 .. Len(log) : log[i].requestId # nextRequestId
    <3>1. \A i \in 1 .. Len(log) : log[i].requestId < nextRequestId
      BY DEF LogInv
    <3> QED BY <2>2, <3>1
  <2>4. Level["OnboardingRequested"] <= StatusLevel["Pending"]
        /\ "OnboardingRequested" \in EventNames
    BY DEF Level, StatusLevel, EventNames
  <2>5. Emit("OnboardingRequested", nextRequestId, d, sender)
    BY <1>1 DEF RequestOnboarding
  <2>6. nextRequestId <= nextRequestId' /\ nextRequestId < nextRequestId'
    BY <2>2
  <2> QED BY <2>1, <2>3, <2>4, <2>5, <2>6, AppendKeepsLogInv
<1>2. ASSUME NEW sender \in Accounts, NEW id \in RequestIds, Approve(sender, id)
      PROVE  LogInv'
  BY <1>2, KnownRequest, DecideKeepsLogInv DEF Approve, Status, EventNames, Level, StatusLevel
<1>3. ASSUME NEW sender \in Accounts, NEW id \in RequestIds, Reject(sender, id)
      PROVE  LogInv'
  BY <1>3, KnownRequest, DecideKeepsLogInv DEF Reject, Status, EventNames, Level, StatusLevel
<1>4. ASSUME NEW sender \in Accounts, NEW id \in RequestIds, Revoke(sender, id)
      PROVE  LogInv'
  BY <1>4, KnownRequest, DecideKeepsLogInv DEF Revoke, Status, EventNames, Level, StatusLevel
<1> QED BY <1>1, <1>2, <1>3, <1>4 DEF TrustNext

-----------------------------------------------------------------------------
(***************************************************************************)
(* What a poll fetches.  A part has the events of some names from a block  *)
(* on, each of them, in the order of their lives.                          *)
(***************************************************************************)
IsPart(s, names, first) ==
  /\ s \in Seq(Event)
  /\ InLifeOrder(s)
  /\ \A k \in 1 .. Len(s) :
       s[k].event \in names /\ \E j \in first .. Len(log) : s[k] = log[j]
  /\ \A j \in first .. Len(log) :
       log[j].event \in names => \E k \in 1 .. Len(s) : s[k] = log[j]

LEMMA LogsType ==
  ASSUME log \in Seq(Event), InLifeOrder(log),
         NEW name \in EventNames, NEW first \in Nat \ {0}, NEW failed
  PROVE  /\ Logs(name, first, failed) \in Seq(Event)
         /\ name \notin failed => IsPart(Logs(name, first, failed), {name}, first)
<1> DEFINE found == {i \in first .. Len(log) : log[i].event = name /\ name \notin failed}
           s == [k \in 1 .. Cardinality(found) |-> log[Nth(found, k)]]
<1>1. s = Logs(name, first, failed)
  BY DEF Logs
<1>2. found \in SUBSET Nat /\ IsFiniteSet(found)
  <2>1. IsFiniteSet(first .. Len(log))
    BY FS_Interval
  <2>2. found \in SUBSET (first .. Len(log))
    OBVIOUS
  <2>3. IsFiniteSet(found)
    BY <2>1, <2>2, FS_Subset
  <2>4. found \in SUBSET Nat
    BY <2>2
  <2> QED BY <2>3, <2>4
<1>3. Cardinality(found) \in Nat
  BY <1>2, BeforeCounts
<1>4. \A i \in found : i \in 1 .. Len(log) /\ i \in first .. Len(log) /\ log[i].event = name
  OBVIOUS
<1>5. name \notin failed =>
        \A i \in first .. Len(log) : log[i].event = name => i \in found
  OBVIOUS
<1> HIDE DEF found
<1>6. \A k \in 1 .. Cardinality(found) :
        Nth(found, k) \in found /\ Before(found, Nth(found, k)) = k - 1
  BY <1>2, NthExists
<1>7. /\ s \in Seq(Event) /\ Len(s) = Cardinality(found)
      /\ \A k \in 1 .. Len(s) : s[k] = log[Nth(found, k)]
  <2>1. \A k \in 1 .. Cardinality(found) : log[Nth(found, k)] \in Event
    BY <1>4, <1>6
  <2> QED BY <1>3, <2>1
<1> HIDE DEF s
<1>8. ASSUME name \notin failed PROVE IsPart(s, {name}, first)
  <2>1. InLifeOrder(s)
    <3> SUFFICES ASSUME NEW i \in 1 .. Len(s), NEW j \in 1 .. Len(s),
                        i < j, s[i].requestId = s[j].requestId
                 PROVE  Level[s[i].event] < Level[s[j].event]
      BY DEF InLifeOrder
    <3>1. /\ Nth(found, i) \in found /\ Nth(found, j) \in found
          /\ Nth(found, i) # Nth(found, j)
      BY <1>6, <1>7
    <3> DEFINE a == Nth(found, i)
               b == Nth(found, j)
    <3>2. /\ a \in 1 .. Len(log) /\ b \in 1 .. Len(log) /\ (a < b \/ b < a)
          /\ log[a].event = name /\ log[b].event = name
          /\ s[i] = log[a] /\ s[j] = log[b]
      BY <1>4, <1>7, <3>1
    <3> HIDE DEF a, b
    <3>3. Level[log[a].event] < Level[log[b].event] \/ Level[log[b].event] < Level[log[a].event]
      BY <3>2 DEF InLifeOrder
    <3>4. Level[name] \in Int
      BY Levels
    <3> QED BY <3>2, <3>3, <3>4
  <2>2. ASSUME NEW k \in 1 .. Len(s)
        PROVE  s[k].event \in {name} /\ \E j \in first .. Len(log) : s[k] = log[j]
    BY <1>4, <1>6, <1>7
  <2>3. ASSUME NEW j \in first .. Len(log), log[j].event = name
        PROVE  \E k \in 1 .. Len(s) : s[k] = log[j]
    <3>1. j \in found
      BY <1>5, <1>8, <2>3
    <3>2. PICK k \in 1 .. Cardinality(found) : Nth(found, k) = j
      BY <1>2, <3>1, NthExists
    <3> QED BY <1>7, <3>2
  <2> QED BY <1>7, <2>1, <2>2, <2>3 DEF IsPart
<1> QED BY <1>1, <1>7, <1>8

\* One sequence of events after another.
HasBoth(u, s, t) ==
  /\ u \in Seq(Event)
  /\ \A k \in 1 .. Len(u) : \/ \E i \in 1 .. Len(s) : u[k] = s[i]
                            \/ \E i \in 1 .. Len(t) : u[k] = t[i]
  /\ \A i \in 1 .. Len(s) : \E k \in 1 .. Len(u) : u[k] = s[i]
  /\ \A i \in 1 .. Len(t) : \E k \in 1 .. Len(u) : u[k] = t[i]

LEMMA Concatenation ==
  ASSUME NEW s \in Seq(Event), NEW t \in Seq(Event)
  PROVE  HasBoth(s \o t, s, t)
<1>1. /\ Len(s) \in Nat /\ Len(t) \in Nat /\ Len(s \o t) = Len(s) + Len(t)
      /\ s \o t \in Seq(Event)
  OBVIOUS
<1>2. ASSUME NEW k \in 1 .. Len(s)
      PROVE  k \in 1 .. Len(s \o t) /\ (s \o t)[k] = s[k]
  BY <1>1
<1>3. ASSUME NEW k \in 1 .. Len(t)
      PROVE  Len(s) + k \in 1 .. Len(s \o t) /\ (s \o t)[Len(s) + k] = t[k]
  BY <1>1
<1>4. ASSUME NEW k \in 1 .. Len(s \o t)
      PROVE  \/ \E i \in 1 .. Len(s) : (s \o t)[k] = s[i]
             \/ \E i \in 1 .. Len(t) : (s \o t)[k] = t[i]
  <2>1. CASE k \in 1 .. Len(s)
    BY <1>2, <2>1
  <2>2. CASE k > Len(s)
    <3>1. k - Len(s) \in 1 .. Len(t) /\ k = Len(s) + (k - Len(s))
      BY <1>1, <2>2
    <3> QED BY <1>3, <3>1
  <2> QED BY <1>1, <2>1, <2>2
<1> QED BY <1>1, <1>2, <1>3, <1>4 DEF HasBoth

LEMMA ConcatenationInOrder ==
  ASSUME NEW s \in Seq(Event), NEW t \in Seq(Event), InLifeOrder(s), InLifeOrder(t),
         \A i \in 1 .. Len(s), k \in 1 .. Len(t) :
           s[i].requestId = t[k].requestId => Level[s[i].event] < Level[t[k].event]
  PROVE  InLifeOrder(s \o t)
<1> SUFFICES ASSUME NEW i \in 1 .. Len(s \o t), NEW j \in 1 .. Len(s \o t),
                    i < j, (s \o t)[i].requestId = (s \o t)[j].requestId
             PROVE  Level[(s \o t)[i].event] < Level[(s \o t)[j].event]
  BY DEF InLifeOrder
<1>1. Len(s) \in Nat /\ Len(t) \in Nat /\ Len(s \o t) = Len(s) + Len(t)
  OBVIOUS
<1>2. ASSUME NEW k \in 1 .. Len(s \o t), k > Len(s)
      PROVE  k - Len(s) \in 1 .. Len(t) /\ (s \o t)[k] = t[k - Len(s)]
  BY <1>1, <1>2
<1>3. ASSUME NEW k \in 1 .. Len(s \o t), ~(k > Len(s))
      PROVE  k \in 1 .. Len(s) /\ (s \o t)[k] = s[k]
  BY <1>1, <1>3
<1>4. CASE j > Len(s) /\ i > Len(s)
  <2>1. i - Len(s) < j - Len(s)
    BY <1>1
  <2> QED BY <1>2, <1>4, <2>1 DEF InLifeOrder
<1>5. CASE j > Len(s) /\ ~(i > Len(s))
  <2>1. i \in 1 .. Len(s) /\ (s \o t)[i] = s[i]
    BY <1>3, <1>5
  <2>2. j - Len(s) \in 1 .. Len(t) /\ (s \o t)[j] = t[j - Len(s)]
    BY <1>2, <1>5
  <2>3. s[i].requestId = t[j - Len(s)].requestId
    BY <2>1, <2>2
  <2>4. Level[s[i].event] < Level[t[j - Len(s)].event]
    BY <2>1, <2>2, <2>3
  <2> QED BY <2>1, <2>2, <2>4
<1>6. CASE ~(j > Len(s))
  <2>1. ~(i > Len(s))
    BY <1>1, <1>6
  <2> QED BY <1>3, <1>6, <2>1 DEF InLifeOrder
<1> QED BY <1>4, <1>5, <1>6

\* Two parts of which the second has names that come later in a life.
LEMMA JoinParts ==
  ASSUME log \in Seq(Event), InLifeOrder(log), NEW first \in Nat \ {0},
         NEW M \in SUBSET EventNames, NEW N \in SUBSET EventNames, M \cap N = {},
         \A m \in M, n \in N : Level[m] <= Level[n],
         NEW s, NEW t, IsPart(s, M, first), IsPart(t, N, first)
  PROVE  IsPart(s \o t, M \cup N, first)
<1>1. /\ s \in Seq(Event) /\ InLifeOrder(s)
      /\ \A k \in 1 .. Len(s) : s[k].event \in M /\ \E j \in first .. Len(log) : s[k] = log[j]
      /\ \A j \in first .. Len(log) :
           log[j].event \in M => \E k \in 1 .. Len(s) : s[k] = log[j]
  BY DEF IsPart
<1>2. /\ t \in Seq(Event) /\ InLifeOrder(t)
      /\ \A k \in 1 .. Len(t) : t[k].event \in N /\ \E j \in first .. Len(log) : t[k] = log[j]
      /\ \A j \in first .. Len(log) :
           log[j].event \in N => \E k \in 1 .. Len(t) : t[k] = log[j]
  BY DEF IsPart
<1>3. ASSUME NEW i \in 1 .. Len(s), NEW k \in 1 .. Len(t), s[i].requestId = t[k].requestId
      PROVE  Level[s[i].event] < Level[t[k].event]
  <2>1. PICK a \in first .. Len(log) : s[i] = log[a]
    BY <1>1
  <2>2. PICK b \in first .. Len(log) : t[k] = log[b]
    BY <1>2
  <2>3. /\ s[i].event \in M /\ t[k].event \in N /\ s[i].event # t[k].event
        /\ Level[s[i].event] <= Level[t[k].event]
    BY <1>1, <1>2
  <2>4. a \in 1 .. Len(log) /\ b \in 1 .. Len(log) /\ (a < b \/ b < a)
    BY <2>1, <2>2, <2>3
  <2>5. Level[s[i].event] < Level[t[k].event] \/ Level[t[k].event] < Level[s[i].event]
    BY <1>3, <2>1, <2>2, <2>4 DEF InLifeOrder
  <2>6. Level[s[i].event] \in Int /\ Level[t[k].event] \in Int
    BY <2>3, Levels
  <2> QED BY <2>3, <2>5, <2>6
<1>4. InLifeOrder(s \o t)
  BY <1>1, <1>2, <1>3, ConcatenationInOrder
<1> DEFINE u == s \o t
<1>5. HasBoth(u, s, t)
  BY <1>1, <1>2, Concatenation
<1> HIDE DEF u
<1>6. ASSUME NEW k \in 1 .. Len(u)
      PROVE  u[k].event \in M \cup N /\ \E j \in first .. Len(log) : u[k] = log[j]
  <2>1. CASE \E i \in 1 .. Len(s) : u[k] = s[i]
    BY <1>1, <2>1
  <2>2. CASE \E i \in 1 .. Len(t) : u[k] = t[i]
    BY <1>2, <2>2
  <2> QED BY <1>5, <2>1, <2>2 DEF HasBoth
<1>7. ASSUME NEW j \in first .. Len(log), log[j].event \in M \cup N
      PROVE  \E k \in 1 .. Len(u) : u[k] = log[j]
  <2>1. CASE log[j].event \in M
    BY <1>1, <1>5, <2>1 DEF HasBoth
  <2>2. CASE log[j].event \in N
    BY <1>2, <1>5, <2>2 DEF HasBoth
  <2> QED BY <1>7, <2>1, <2>2
<1> QED BY <1>4, <1>5, <1>6, <1>7 DEF IsPart, HasBoth, u

LEMMA FetchPart ==
  ASSUME log \in Seq(Event), InLifeOrder(log), NEW first \in Nat \ {0}, NEW failed
  PROVE  /\ Fetch(first, failed) \in Seq(Event)
         /\ IsPart(Fetch(first, {}), EventNames, first)
<1> DEFINE of(name) == Logs(name, first, {})
<1>1. \A name \in EventNames : Logs(name, first, failed) \in Seq(Event)
  BY LogsType
<1>2. Fetch(first, failed) \in Seq(Event)
  BY <1>1 DEF Fetch, EventNames
<1>3. \A name \in EventNames : IsPart(of(name), {name}, first)
  BY LogsType
<1>4. Fetch(first, {}) = ((of("OnboardingRequested") \o of("OnboardingApproved"))
                            \o of("OnboardingRejected")) \o of("OnboardingRevoked")
  BY DEF Fetch
<1> HIDE DEF of
<1>5. IsPart(of("OnboardingRequested") \o of("OnboardingApproved"),
             {"OnboardingRequested", "OnboardingApproved"}, first)
  <2>1. {"OnboardingRequested"} \cup {"OnboardingApproved"}
          = {"OnboardingRequested", "OnboardingApproved"}
    OBVIOUS
  <2>2. IsPart(of("OnboardingRequested") \o of("OnboardingApproved"),
               {"OnboardingRequested"} \cup {"OnboardingApproved"}, first)
    BY <1>3, JoinParts DEF EventNames, Level
  <2> QED BY <2>1, <2>2
<1>6. IsPart((of("OnboardingRequested") \o of("OnboardingApproved"))
               \o of("OnboardingRejected"),
             {"OnboardingRequested", "OnboardingApproved", "OnboardingRejected"}, first)
  <2>1. {"OnboardingRequested", "OnboardingApproved"} \cup {"OnboardingRejected"}
          = {"OnboardingRequested", "OnboardingApproved", "OnboardingRejected"}
    OBVIOUS
  <2>2. IsPart((of("OnboardingRequested") \o of("OnboardingApproved"))
                 \o of("OnboardingRejected"),
               {"OnboardingRequested", "OnboardingApproved"} \cup {"OnboardingRejected"},
               first)
    BY <1>3, <1>5, JoinParts DEF EventNames, Level
  <2> QED BY <2>1, <2>2
<1>7. IsPart(((of("OnboardingRequested") \o of("OnboardingApproved"))
                \o of("OnboardingRejected")) \o of("OnboardingRevoked"), EventNames, first)
  <2>1. {"OnboardingRequested", "OnboardingApproved", "OnboardingRejected"}
          \cup {"OnboardingRevoked"} = EventNames
    BY DEF EventNames
  <2>2. IsPart(((of("OnboardingRequested") \o of("OnboardingApproved"))
                  \o of("OnboardingRejected")) \o of("OnboardingRevoked"),
               {"OnboardingRequested", "OnboardingApproved", "OnboardingRejected"}
                 \cup {"OnboardingRevoked"}, first)
    BY <1>3, <1>6, JoinParts DEF EventNames, Level
  <2> QED BY <2>1, <2>2
<1> QED BY <1>2, <1>4, <1>7

-----------------------------------------------------------------------------
(***************************************************************************)
(* The inductive invariant: as long as nothing was missed, the cache has   *)
(* the events up to the last block polled, every one and no other, and     *)
(* those of one request in the order of its life.                          *)
(***************************************************************************)
CacheInv ==
  /\ cache \in Seq(Event) /\ last \in Nat
  /\ whole =>
       /\ last <= Len(log)
       /\ InLifeOrder(cache)
       /\ \A i \in 1 .. Len(cache) : \E j \in 1 .. last : cache[i] = log[j]
       /\ \A j \in 1 .. last : \E i \in 1 .. Len(cache) : cache[i] = log[j]

FeedInv == TrustInv /\ LogInv /\ CacheInv

LEMMA FeedStart == FeedInit => FeedInv
  <1> SUFFICES ASSUME FeedInit PROVE FeedInv
    OBVIOUS
  <1>1. TrustInv
    BY TrustInvInit DEF FeedInit
  <1>2. LogInv
    BY DEF FeedInit, TrustInit, LogInv, InLifeOrder
  <1>3. CacheInv
    BY DEF FeedInit, TrustInit, CacheInv, InLifeOrder
  <1> QED BY <1>1, <1>2, <1>3 DEF FeedInv

\* The chain grows: what was polled is still there.
LEMMA LogGrows ==
  ASSUME TrustInv, TrustNext
  PROVE  /\ Len(log) \in Nat /\ Len(log') = Len(log) + 1
         /\ \A i \in 1 .. Len(log) : log'[i] = log[i]
<1>1. ASSUME NEW name, NEW id, NEW d, NEW sender, Emit(name, id, d, sender)
      PROVE  /\ Len(log) \in Nat /\ Len(log') = Len(log) + 1
             /\ \A i \in 1 .. Len(log) : log'[i] = log[i]
  BY <1>1 DEF Emit, TrustInv, TrustTypeOK
<1>2. \E name, id, d, sender : Emit(name, id, d, sender)
  BY DEF TrustNext, RequestOnboarding, Approve, Reject, Revoke
<1> QED BY <1>1, <1>2

LEMMA TransactKeepsFeedInv ==
  ASSUME FeedInv, Transact PROVE FeedInv'
<1>1. TrustInv' /\ LogInv'
  BY TrustInvNext, LogInvNext DEF FeedInv, Transact
<1>2. CacheInv'
  <2>1. /\ Len(log) \in Nat /\ Len(log') = Len(log) + 1
        /\ \A i \in 1 .. Len(log) : log'[i] = log[i]
        /\ UNCHANGED <<cache, last, whole>>
    BY LogGrows DEF FeedInv, Transact
  <2>2. cache \in Seq(Event) /\ last \in Nat
    BY DEF FeedInv, CacheInv
  <2>3. ASSUME whole
        PROVE  /\ last <= Len(log') /\ InLifeOrder(cache)
               /\ \A i \in 1 .. Len(cache) : \E j \in 1 .. last : cache[i] = log'[j]
               /\ \A j \in 1 .. last : \E i \in 1 .. Len(cache) : cache[i] = log'[j]
    <3>1. /\ last <= Len(log) /\ InLifeOrder(cache)
          /\ \A i \in 1 .. Len(cache) : \E j \in 1 .. last : cache[i] = log[j]
          /\ \A j \in 1 .. last : \E i \in 1 .. Len(cache) : cache[i] = log[j]
      BY <2>3 DEF FeedInv, CacheInv
    <3>2. \A j \in 1 .. last : log'[j] = log[j]
      BY <2>1, <2>2, <3>1
    <3> QED BY <2>1, <2>2, <3>1, <3>2
  <2> QED BY <2>1, <2>2, <2>3 DEF CacheInv, InLifeOrder
<1> QED BY <1>1, <1>2 DEF FeedInv

LEMMA PollKeepsFeedInv ==
  ASSUME FeedInv, Poll PROVE FeedInv'
<1>1. /\ log \in Seq(Event) /\ InLifeOrder(log) /\ cache \in Seq(Event) /\ last \in Nat
      /\ Len(log) \in Nat /\ last < Len(log) /\ last' = Len(log) /\ UNCHANGED trustVars
  BY DEF FeedInv, TrustInv, TrustTypeOK, LogInv, CacheInv, Poll
<1>2. TrustInv' /\ LogInv'
  BY <1>1 DEF FeedInv, TrustInv, TrustTypeOK, SlotsInOrder, LogInv, InLifeOrder, trustVars
<1>3. PICK failed \in SUBSET EventNames :
        /\ cache' = cache \o Fetch(last + 1, failed)
        /\ whole' = (whole /\ Fetch(last + 1, failed) = Fetch(last + 1, {}))
  BY DEF Poll
<1>4. last + 1 \in Nat \ {0}
  BY <1>1
<1>5. /\ Fetch(last + 1, failed) \in Seq(Event)
      /\ IsPart(Fetch(last + 1, {}), EventNames, last + 1)
  BY <1>1, <1>4, FetchPart
<1>6. cache' \in Seq(Event) /\ last' \in Nat
  BY <1>1, <1>3, <1>5
<1>7. ASSUME whole'
      PROVE  /\ last' <= Len(log') /\ InLifeOrder(cache')
             /\ \A i \in 1 .. Len(cache') : \E j \in 1 .. last' : cache'[i] = log'[j]
             /\ \A j \in 1 .. last' : \E i \in 1 .. Len(cache') : cache'[i] = log'[j]
  <2> DEFINE s == Fetch(last + 1, {})
  <2>1. /\ cache' = cache \o s /\ s \in Seq(Event) /\ InLifeOrder(s)
        /\ log' = log
        /\ InLifeOrder(cache)
        /\ \A i \in 1 .. Len(cache) : \E j \in 1 .. last : cache[i] = log[j]
        /\ \A j \in 1 .. last : \E i \in 1 .. Len(cache) : cache[i] = log[j]
        /\ \A k \in 1 .. Len(s) : \E j \in last + 1 .. Len(log) : s[k] = log[j]
        /\ \A j \in last + 1 .. Len(log) : \E k \in 1 .. Len(s) : s[k] = log[j]
    <3>1. whole /\ cache' = cache \o s
      BY <1>3, <1>7
    <3>2. /\ InLifeOrder(cache)
          /\ \A i \in 1 .. Len(cache) : \E j \in 1 .. last : cache[i] = log[j]
          /\ \A j \in 1 .. last : \E i \in 1 .. Len(cache) : cache[i] = log[j]
      BY <3>1 DEF FeedInv, CacheInv
    <3> HIDE DEF s
    <3>3. IsPart(s, EventNames, last + 1)
      BY <1>5 DEF s
    <3>4. \A j \in last + 1 .. Len(log) : log[j].event \in EventNames
      <4>1. \A j \in last + 1 .. Len(log) : j \in 1 .. Len(log)
        BY <1>1
      <4> QED BY <1>1, <4>1, EventFields
    <3> QED BY <1>1, <3>1, <3>2, <3>3, <3>4 DEF IsPart, trustVars
  <2> HIDE DEF s
  <2>2. ASSUME NEW i \in 1 .. Len(cache), NEW k \in 1 .. Len(s),
               cache[i].requestId = s[k].requestId
        PROVE  Level[cache[i].event] < Level[s[k].event]
    <3>1. PICK a \in 1 .. last : cache[i] = log[a]
      BY <2>1
    <3>2. PICK b \in last + 1 .. Len(log) : s[k] = log[b]
      BY <2>1
    <3>3. a \in 1 .. Len(log) /\ b \in 1 .. Len(log) /\ a < b
      BY <1>1
    <3> QED BY <1>1, <2>2, <3>1, <3>2, <3>3 DEF InLifeOrder
  <2>3. InLifeOrder(cache')
    BY <1>1, <2>1, <2>2, ConcatenationInOrder
  <2>4. HasBoth(cache', cache, s)
    BY <1>1, <2>1, Concatenation
  <2>5. \A j \in 1 .. Len(log) : j \in 1 .. last \/ j \in last + 1 .. Len(log)
    BY <1>1
  <2>6. ASSUME NEW k \in 1 .. Len(cache')
        PROVE  \E j \in 1 .. Len(log) : cache'[k] = log[j]
    <3>1. \/ \E j \in 1 .. last : cache'[k] = log[j]
          \/ \E j \in last + 1 .. Len(log) : cache'[k] = log[j]
      <4>1. CASE \E i \in 1 .. Len(cache) : cache'[k] = cache[i]
        BY <2>1, <4>1
      <4>2. CASE \E i \in 1 .. Len(s) : cache'[k] = s[i]
        BY <2>1, <4>2
      <4> QED BY <2>4, <4>1, <4>2 DEF HasBoth
    <3>2. \A j : j \in 1 .. last \/ j \in last + 1 .. Len(log) => j \in 1 .. Len(log)
      BY <1>1
    <3> QED BY <3>1, <3>2
  <2>7. ASSUME NEW j \in 1 .. Len(log)
        PROVE  \E k \in 1 .. Len(cache') : cache'[k] = log[j]
    <3>1. \/ \E i \in 1 .. Len(cache) : cache[i] = log[j]
          \/ \E i \in 1 .. Len(s) : s[i] = log[j]
      BY <2>1, <2>5
    <3>2. CASE \E i \in 1 .. Len(cache) : cache[i] = log[j]
      BY <2>4, <3>2 DEF HasBoth
    <3>3. CASE \E i \in 1 .. Len(s) : s[i] = log[j]
      BY <2>4, <3>3 DEF HasBoth
    <3> QED BY <3>1, <3>2, <3>3
  <2>8. last' <= Len(log') /\ last' = Len(log) /\ log' = log
    BY <1>1, <2>1
  <2> QED BY <2>3, <2>6, <2>7, <2>8
<1> QED BY <1>2, <1>6, <1>7 DEF FeedInv, CacheInv, InLifeOrder

LEMMA NewChain == TrustInit' => TrustInv' /\ LogInv'
<1>1. TrustInit => TrustInv /\ LogInv
  BY TrustInvInit DEF TrustInit, LogInv, InLifeOrder
<1> QED BY <1>1, PTL

LEMMA FeedInductive == FeedInv /\ [FeedNext]_feedVars => FeedInv'
<1> SUFFICES ASSUME FeedInv, [FeedNext]_feedVars PROVE FeedInv'
  OBVIOUS
<1>1. ASSUME UNCHANGED <<trustVars, cache, last, whole>> PROVE FeedInv'
  BY <1>1 DEF FeedInv, TrustInv, TrustTypeOK, SlotsInOrder, LogInv, InLifeOrder, CacheInv,
              trustVars
<1>2. CASE ChainReset
  <2>1. TrustInit' /\ UNCHANGED <<cache, last>> /\ whole' = (whole /\ last = 0)
    BY <1>2 DEF ChainReset, TrustInit
  <2>2. TrustInv' /\ LogInv'
    BY <2>1, NewChain
  <2>3. CacheInv'
    <3>1. cache \in Seq(Event) /\ last \in Nat /\ log' = <<>>
      BY <2>1 DEF FeedInv, CacheInv, TrustInit
    <3>2. whole' => last = 0 /\ InLifeOrder(cache) /\ \A i \in 1 .. Len(cache) : FALSE
      <4> SUFFICES ASSUME whole'
                   PROVE  last = 0 /\ InLifeOrder(cache) /\ \A i \in 1 .. Len(cache) : FALSE
        OBVIOUS
      <4>1. whole /\ last = 0
        BY <2>1
      <4>2. /\ InLifeOrder(cache)
            /\ \A i \in 1 .. Len(cache) : \E j \in 1 .. last : cache[i] = log[j]
        BY <4>1 DEF FeedInv, CacheInv
      <4>3. \A j \in 1 .. last : FALSE
        BY <4>1
      <4> QED BY <4>1, <4>2, <4>3
    <3> QED BY <2>1, <3>1, <3>2 DEF CacheInv, InLifeOrder
  <2> QED BY <2>2, <2>3 DEF FeedInv
<1>3. CASE Restart
  <2>1. UNCHANGED trustVars /\ cache' = <<>> /\ last' = 0 /\ Len(log) \in Nat
    BY <1>3 DEF Restart, FeedInv, TrustInv, TrustTypeOK
  <2>2. TrustInv' /\ LogInv'
    BY <2>1 DEF FeedInv, TrustInv, TrustTypeOK, SlotsInOrder, LogInv, InLifeOrder, trustVars
  <2>3. CacheInv'
    BY <2>1 DEF CacheInv, InLifeOrder, trustVars
  <2> QED BY <2>2, <2>3 DEF FeedInv
<1>4. CASE Ask
  BY <1>1, <1>4 DEF Ask
<1>5. ASSUME NEW table \in flight, Receive(table) \/ ReceiveError(table) PROVE FeedInv'
  BY <1>1, <1>5 DEF Receive, ReceiveError
<1>6. CASE UNCHANGED feedVars
  BY <1>1, <1>6 DEF feedVars, trustVars
<1> QED BY <1>2, <1>3, <1>4, <1>5, <1>6, TransactKeepsFeedInv, PollKeepsFeedInv DEF FeedNext

LEMMA FeedInvariant == FeedSpec => []FeedInv
  BY FeedStart, FeedInductive, PTL DEF FeedSpec

-----------------------------------------------------------------------------
(***************************************************************************)
(* What a sequence of events tells of a request: what its last event does. *)
(***************************************************************************)
IsLastOf(events, id, i) ==
  /\ i \in 1 .. Len(events) /\ events[i].requestId = id
  /\ \A j \in i + 1 .. Len(events) : events[j].requestId # id

LEMMA ViewIsLast ==
  ASSUME NEW events \in Seq(Event), NEW id \in Shown(events)
  PROVE  \E i : IsLastOf(events, id, i) /\ View(events)[id] = StatusOf[events[i].event]
<1> DEFINE S == {j \in 1 .. Len(events) : events[j].requestId = id}
<1>1. Len(events) \in Nat /\ DOMAIN events = 1 .. Len(events)
  OBVIOUS
<1>2. S \in SUBSET (1 .. Len(events)) /\ S # {}
  BY <1>1 DEF Shown
<1>3. \E i \in S : \A j \in S : j <= i
  <2> HIDE DEF S
  <2> QED BY <1>1, <1>2, LastPosition
<1>4. \E i \in 1 .. Len(events) : IsLastOf(events, id, i)
  <2>1. PICK i \in S : \A j \in S : j <= i
    BY <1>3
  <2>2. ASSUME NEW j \in i + 1 .. Len(events) PROVE events[j].requestId # id
    <3>1. j \in 1 .. Len(events) /\ ~(j <= i)
      BY <1>1, <2>1
    <3> QED BY <2>1, <3>1
  <2> QED BY <2>1, <2>2 DEF IsLastOf
<1> DEFINE lastOf == CHOOSE i \in DOMAIN events :
                       /\ events[i].requestId = id
                       /\ \A j \in i + 1 .. Len(events) : events[j].requestId # id
<1>5. IsLastOf(events, id, lastOf)
  BY <1>1, <1>4 DEF IsLastOf
<1>6. View(events)[id] = StatusOf[events[lastOf].event]
  BY DEF View
<1> QED BY <1>5, <1>6

\* In the order of its life, the last event of a request has the highest level.
LEMMA LastIsHighest ==
  ASSUME NEW events \in Seq(Event), InLifeOrder(events), NEW id, NEW i,
         IsLastOf(events, id, i), NEW j \in 1 .. Len(events), events[j].requestId = id
  PROVE  j = i \/ Level[events[j].event] < Level[events[i].event]
<1>1. i \in 1 .. Len(events) /\ j \in 1 .. Len(events) /\ events[i].requestId = id
  BY DEF IsLastOf
<1>2. ~(j > i)
  BY <1>1 DEF IsLastOf
<1>3. j = i \/ j < i
  BY <1>1, <1>2
<1> QED BY <1>1, <1>3 DEF InLifeOrder

\* The recent events are the end of the cache.
LEMMA RecentIsSuffix ==
  ASSUME cache \in Seq(Event)
  PROVE  /\ RecentEvents \in Seq(Event)
         /\ \A id, i : IsLastOf(RecentEvents, id, i) =>
              \E c : IsLastOf(cache, id, c) /\ cache[c] = RecentEvents[i]
<1> DEFINE first == IF Len(cache) > Limit THEN Len(cache) - Limit + 1 ELSE 1
<1>1. /\ first \in Nat \ {0} /\ first <= Len(cache) + 1 /\ Len(cache) \in Nat
      /\ RecentEvents = SubSeq(cache, first, Len(cache))
  BY FeedAssumption DEF RecentEvents
<1> HIDE DEF first
<1>2. /\ RecentEvents \in Seq(Event)
      /\ Len(RecentEvents) = Len(cache) - first + 1
      /\ \A k \in 1 .. Len(RecentEvents) : RecentEvents[k] = cache[first + k - 1]
  BY <1>1
<1>3. ASSUME NEW id, NEW i, IsLastOf(RecentEvents, id, i)
      PROVE  \E c : IsLastOf(cache, id, c) /\ cache[c] = RecentEvents[i]
  <2> DEFINE c == first + i - 1
  <2>1. i \in 1 .. Len(RecentEvents) /\ RecentEvents[i].requestId = id
    BY <1>3 DEF IsLastOf
  <2>2. c \in 1 .. Len(cache) /\ cache[c] = RecentEvents[i]
    BY <1>1, <1>2, <2>1
  <2>3. ASSUME NEW j \in c + 1 .. Len(cache) PROVE cache[j].requestId # id
    <3>1. /\ j - first + 1 \in i + 1 .. Len(RecentEvents)
          /\ j - first + 1 \in 1 .. Len(RecentEvents)
          /\ first + (j - first + 1) - 1 = j
      BY <1>1, <1>2, <2>1
    <3>2. RecentEvents[j - first + 1] = cache[j]
      BY <1>2, <3>1
    <3> QED BY <1>3, <3>1, <3>2 DEF IsLastOf
  <2> QED BY <2>1, <2>2, <2>3 DEF IsLastOf
<1> QED BY <1>2, <1>3

LEMMA AnswersAreRight == FeedInv => AnswersAsOfLastPoll
<1> SUFFICES ASSUME FeedInv, whole, NEW id \in Shown(RecentEvents)
             PROVE  View(RecentEvents)[id] = View(SubSeq(log, 1, last))[id]
  BY DEF AnswersAsOfLastPoll
<1> DEFINE polled == SubSeq(log, 1, last)
<1>1. /\ log \in Seq(Event) /\ InLifeOrder(log) /\ cache \in Seq(Event) /\ last \in Nat
      /\ last <= Len(log) /\ InLifeOrder(cache)
      /\ \A i \in 1 .. Len(cache) : \E j \in 1 .. last : cache[i] = log[j]
      /\ \A j \in 1 .. last : \E i \in 1 .. Len(cache) : cache[i] = log[j]
  BY DEF FeedInv, TrustInv, TrustTypeOK, LogInv, CacheInv
<1>2. /\ polled \in Seq(Event) /\ Len(polled) = last
      /\ \A j \in 1 .. last : polled[j] = log[j]
  BY <1>1
<1> HIDE DEF polled
<1>3. InLifeOrder(polled)
  <2>1. \A j \in 1 .. last : j \in 1 .. Len(log)
    BY <1>1
  <2> QED BY <1>1, <1>2, <2>1 DEF InLifeOrder
<1>4. PICK i : /\ IsLastOf(RecentEvents, id, i)
               /\ View(RecentEvents)[id] = StatusOf[RecentEvents[i].event]
  BY <1>1, RecentIsSuffix, ViewIsLast
<1>5. PICK c : IsLastOf(cache, id, c) /\ cache[c] = RecentEvents[i]
  BY <1>1, <1>4, RecentIsSuffix
<1>6. c \in 1 .. Len(cache) /\ cache[c].requestId = id
  BY <1>5 DEF IsLastOf
<1>7. PICK j \in 1 .. last : polled[j] = cache[c]
  <2>1. PICK j \in 1 .. last : cache[c] = log[j]
    BY <1>1, <1>6
  <2> QED BY <1>2, <2>1
<1>8. id \in Shown(polled)
  BY <1>2, <1>6, <1>7 DEF Shown
<1>9. PICK p : IsLastOf(polled, id, p) /\ View(polled)[id] = StatusOf[polled[p].event]
  BY <1>2, <1>8, ViewIsLast
<1>10. p \in 1 .. last /\ polled[p].requestId = id
  BY <1>2, <1>9 DEF IsLastOf
<1>11. PICK d \in 1 .. Len(cache) : cache[d] = polled[p]
  BY <1>1, <1>2, <1>10
<1>12. d = c \/ Level[cache[d].event] < Level[cache[c].event]
  BY <1>1, <1>5, <1>10, <1>11, LastIsHighest
<1>13. j = p \/ Level[polled[j].event] < Level[polled[p].event]
  <2>1. j \in 1 .. Len(polled) /\ polled[j].requestId = id
    BY <1>2, <1>6, <1>7
  <2> QED BY <1>2, <1>3, <1>9, <2>1, LastIsHighest
<1>14. /\ Level[cache[c].event] \in Int /\ Level[cache[d].event] \in Int
  <2>1. cache[c].event \in EventNames /\ cache[d].event \in EventNames
    BY <1>1, <1>6, <1>11, EventFields
  <2> QED BY <2>1, Levels
<1>15. cache[c] = polled[p]
  BY <1>7, <1>11, <1>12, <1>13, <1>14
<1> QED BY <1>4, <1>5, <1>9, <1>15 DEF polled

\* Whatever the window cuts off and however the events of a poll are sorted by
\* type, the gateway answers every request with the status it had at the last
\* poll, as long as nothing was missed (AnswersAsOfLastPoll).
THEOREM AnswersAsOfLastPollCorrect == FeedSpec => []AnswersAsOfLastPoll
  BY FeedInvariant, AnswersAreRight, PTL

-----------------------------------------------------------------------------
(***************************************************************************)
(* Types of the feed.                                                      *)
(***************************************************************************)
TableOK(table) ==
  DOMAIN table \subseteq RequestIds /\ \A id \in DOMAIN table : table[id] \in Status

LEMMA ViewType ==
  ASSUME NEW events \in Seq(Event) PROVE TableOK(View(events))
<1>1. DOMAIN View(events) = Shown(events)
  BY DEF View
<1>2. Shown(events) \subseteq RequestIds
  BY EventFields DEF Shown
<1>3. ASSUME NEW id \in Shown(events) PROVE View(events)[id] \in Status
  <2>1. PICK i : IsLastOf(events, id, i) /\ View(events)[id] = StatusOf[events[i].event]
    BY ViewIsLast
  <2>2. events[i].event \in EventNames
    BY <2>1, EventFields DEF IsLastOf
  <2> QED BY <2>1, <2>2 DEF StatusOf, EventNames, Status
<1> QED BY <1>1, <1>2, <1>3 DEF TableOK

FeedRest ==
  /\ faults \in 0 .. MaxFaults /\ restarts \in 0 .. MaxRestarts
  /\ whole \in BOOLEAN
  /\ \A table \in flight \cup {page} : TableOK(table)

LEMMA FeedRestNext == FeedInv /\ FeedRest /\ [FeedNext]_feedVars => FeedRest'
<1> SUFFICES ASSUME FeedInv, FeedRest, [FeedNext]_feedVars PROVE FeedRest'
  OBVIOUS
<1> USE DEF FeedRest
<1>1. CASE Transact
  BY <1>1 DEF Transact, TableOK
<1>2. ASSUME NEW n \in Nat, Fault(n) PROVE faults' \in 0 .. MaxFaults
  BY <1>2, FeedAssumption DEF Fault
<1>3. CASE ChainReset
  BY <1>2, <1>3 DEF ChainReset, TableOK
<1>4. CASE Poll
  <2>1. PICK failed \in SUBSET EventNames :
          /\ Fault(Cardinality(failed))
          /\ whole' = (whole /\ Fetch(last + 1, failed) = Fetch(last + 1, {}))
    BY <1>4 DEF Poll
  <2>2. Cardinality(failed) \in Nat
    <3>1. IsFiniteSet(EventNames)
      <4> DEFINE first == {"OnboardingRequested", "OnboardingApproved"}
                 second == {"OnboardingRejected", "OnboardingRevoked"}
      <4>1. ASSUME NEW x, NEW y PROVE IsFiniteSet({x, y})
        <5>1. IsFiniteSet({x} \cup {y})
          BY FS_Singleton, FS_AddElement
        <5>2. {x} \cup {y} = {x, y}
          OBVIOUS
        <5> QED BY <5>1, <5>2
      <4>2. IsFiniteSet(first) /\ IsFiniteSet(second)
        BY <4>1
      <4>3. EventNames = first \cup second
        BY DEF EventNames
      <4> HIDE DEF first, second
      <4> QED BY <4>2, <4>3, FS_Union
    <3> QED BY <3>1, FS_Subset, FS_CardinalityType
  <2>3. faults' \in 0 .. MaxFaults
    BY <1>2, <2>1, <2>2
  <2>4. whole' \in BOOLEAN
    BY <2>1
  <2> QED BY <1>4, <2>3, <2>4 DEF Poll, TableOK
<1>5. CASE Restart
  BY <1>5, FeedAssumption DEF Restart, TableOK
<1>6. CASE Ask
  <2>1. TableOK(View(RecentEvents))
    BY RecentIsSuffix, ViewType DEF FeedInv, CacheInv
  <2> QED BY <1>6, <2>1 DEF Ask, TableOK
<1>7. ASSUME NEW table \in flight, Receive(table) \/ ReceiveError(table) PROVE FeedRest'
  BY <1>7 DEF Receive, ReceiveError, TableOK
<1>8. CASE UNCHANGED feedVars
  BY <1>8 DEF feedVars, TableOK
<1> QED BY <1>1, <1>3, <1>4, <1>5, <1>6, <1>7, <1>8 DEF FeedNext

\* Cache, position, answers under way and page have their types in every
\* reachable state; in particular every request shown has a status to show.
THEOREM FeedTypeCorrect == FeedSpec => []FeedTypeOK
<1>1. FeedInit => FeedRest
  BY FeedAssumption DEF FeedInit, FeedRest, TableOK
<1>2. FeedInv /\ FeedRest => FeedTypeOK
  BY DEF FeedInv, TrustInv, CacheInv, FeedRest, FeedTypeOK, TableOK
<1> QED BY <1>1, <1>2, FeedInvariant, FeedRestNext, PTL DEF FeedSpec
=============================================================================
