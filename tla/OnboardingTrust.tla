--------------------------- MODULE OnboardingTrust ---------------------------
(***************************************************************************)
(* The contract chain/contracts/OnboardingTrust.sol: the on-chain registry *)
(* of device onboarding requests.                                          *)
(*                                                                         *)
(* One action is one successful transaction; a transaction that fails a    *)
(* `require` reverts, changes nothing and is a stuttering step.  The       *)
(* Hardhat node mines one block per transaction and every method emits     *)
(* exactly one event, so the event log `log` is a sequence and the         *)
(* position of an event orders it like its block number does.              *)
(***************************************************************************)
EXTENDS Integers, Sequences

CONSTANTS
  Devices,      \* device identifiers (strings in the contract)
  Accounts,     \* externally owned accounts that can be msg.sender
  ZeroAddress,  \* address(0): the owner of a mapping slot never written
  NoDevice,     \* the empty string of a mapping slot never written
  MaxRequests   \* bound of the model: how many requests are ever created

ASSUME TrustAssumption ==
  /\ ZeroAddress \notin Accounts
  /\ NoDevice \notin Devices
  /\ MaxRequests \in Nat

VARIABLES
  requests,       \* requestId -> Request, every slot readable (Solidity mapping)
  nextRequestId,  \* the id the next request gets
  log             \* the events emitted so far

trustVars == <<requests, nextRequestId, log>>

RequestIds == 0 .. MaxRequests - 1

Status == {"Pending", "Approved", "Rejected", "Revoked"}

EventNames == {"OnboardingRequested", "OnboardingApproved",
               "OnboardingRejected", "OnboardingRevoked"}

Request == [deviceId  : Devices \cup {NoDevice},
            requester : Accounts \cup {ZeroAddress},
            owner     : Accounts \cup {ZeroAddress},
            status    : Status]

\* An unwritten slot reads as zeroes, and status zero is Pending.
EmptyRequest == [deviceId  |-> NoDevice,   requester |-> ZeroAddress,
                 owner     |-> ZeroAddress, status   |-> "Pending"]

Event == [event : EventNames, requestId : RequestIds,
          deviceId : Devices \cup {NoDevice}, actor : Accounts]

TrustTypeOK ==
  /\ requests \in [RequestIds -> Request]
  /\ nextRequestId \in 0 .. MaxRequests
  /\ log \in Seq(Event)

TrustInit ==
  /\ requests = [id \in RequestIds |-> EmptyRequest]
  /\ nextRequestId = 0
  /\ log = <<>>

Emit(name, id, d, sender) ==
  log' = Append(log, [event |-> name, requestId |-> id,
                      deviceId |-> d, actor |-> sender])

-----------------------------------------------------------------------------
(***************************************************************************)
(* Transactions.  The owner of a request is not checked: it may be any     *)
(* address, the zero address included.                                     *)
(***************************************************************************)
RequestOnboarding(sender, d, owner) ==
  /\ nextRequestId < MaxRequests
  /\ requests' = [requests EXCEPT ![nextRequestId] =
                    [deviceId |-> d, requester |-> sender,
                     owner |-> owner, status |-> "Pending"]]
  /\ nextRequestId' = nextRequestId + 1
  /\ Emit("OnboardingRequested", nextRequestId, d, sender)

SetStatus(id, status) ==
  /\ requests' = [requests EXCEPT ![id].status = status]
  /\ UNCHANGED nextRequestId

Approve(sender, id) ==
  /\ requests[id].owner = sender
  /\ requests[id].status = "Pending"
  /\ SetStatus(id, "Approved")
  /\ Emit("OnboardingApproved", id, requests[id].deviceId, sender)

\* Faulty variants: no check of the status, no event.
RejectAnyStatus(sender, id) ==
  /\ requests[id].owner = sender
  /\ SetStatus(id, "Rejected")
  /\ Emit("OnboardingRejected", id, requests[id].deviceId, sender)

RejectSilently(sender, id) ==
  /\ requests[id].owner = sender
  /\ requests[id].status = "Pending"
  /\ SetStatus(id, "Rejected")
  /\ UNCHANGED log

Reject(sender, id) ==
  /\ requests[id].owner = sender
  /\ requests[id].status = "Pending"
  /\ SetStatus(id, "Rejected")
  /\ Emit("OnboardingRejected", id, requests[id].deviceId, sender)

\* Faulty variant: no check of the status.
RevokeAnyStatus(sender, id) ==
  /\ sender \in {requests[id].owner, requests[id].requester}
  /\ SetStatus(id, "Revoked")
  /\ Emit("OnboardingRevoked", id, requests[id].deviceId, sender)

Revoke(sender, id) ==
  /\ sender \in {requests[id].owner, requests[id].requester}
  /\ requests[id].status = "Approved"
  /\ SetStatus(id, "Revoked")
  /\ Emit("OnboardingRevoked", id, requests[id].deviceId, sender)

TrustNext ==
  \E sender \in Accounts :
    \/ \E d \in Devices, owner \in Accounts \cup {ZeroAddress} :
         RequestOnboarding(sender, d, owner)
    \/ \E id \in RequestIds :
         \/ Approve(sender, id)
         \/ Reject(sender, id)
         \/ Revoke(sender, id)

TrustSpec == TrustInit /\ [][TrustNext]_trustVars

-----------------------------------------------------------------------------
(***************************************************************************)
(* getDeviceStatus scans the requests backwards and answers with the first *)
(* one of the device: the status of a device is the status of its LATEST   *)
(* request.  No request at all reverts ("Device not found").               *)
(***************************************************************************)
IsLatest(id, d) ==
  /\ id < nextRequestId
  /\ requests[id].deviceId = d
  /\ \A later \in RequestIds :
       id < later /\ later < nextRequestId => requests[later].deviceId # d

HasStatus(d, status) ==
  \E id \in RequestIds : IsLatest(id, d) /\ requests[id].status = status

-----------------------------------------------------------------------------
(***************************************************************************)
(* Properties.                                                             *)
(***************************************************************************)
Emitted(name, id) ==
  \E k \in 1 .. Len(log) : log[k].event = name /\ log[k].requestId = id

\* The status of every request can be recomputed from the events alone, which
\* is what the gateway's poller and both dashboards do (ui/app/main.py:34-75,
\* static/app.js:40-97): no transition is silent and no event is spurious.
LogTellsStatus ==
  \A id \in RequestIds :
    /\ id < nextRequestId <=> Emitted("OnboardingRequested", id)
    /\ requests[id].status \in {"Approved", "Revoked"} <=> Emitted("OnboardingApproved", id)
    /\ requests[id].status = "Rejected" <=> Emitted("OnboardingRejected", id)
    /\ requests[id].status = "Revoked" <=> Emitted("OnboardingRevoked", id)

\* A request's decisions are final: the only moves are Pending to Approved or
\* Rejected and Approved to Revoked, whichever transactions race.
StatusMoves == {<<"Pending", "Approved">>, <<"Pending", "Rejected">>,
                <<"Approved", "Revoked">>}

LifecycleStep ==
  \A id \in RequestIds :
    requests'[id].status # requests[id].status =>
      /\ <<requests[id].status, requests'[id].status>> \in StatusMoves
      /\ id < nextRequestId

Lifecycle == [][LifecycleStep]_trustVars

\* One transaction changes the status of at most one device, and the way a
\* device LOSES its approval without a revocation is a newer request for it:
\* anyone may file one, and it shadows the approved request.
ApprovalLossStep ==
  \A d \in Devices :
    HasStatus(d, "Approved") /\ ~HasStatus(d, "Approved")' =>
      \/ \E id \in RequestIds : IsLatest(id, d)' /\ requests'[id].status = "Revoked"
      \/ /\ nextRequestId' = nextRequestId + 1
         /\ requests'[nextRequestId].deviceId = d
         /\ requests'[nextRequestId].status = "Pending"

ApprovalLoss == [][ApprovalLossStep]_trustVars
=============================================================================
