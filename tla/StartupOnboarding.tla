-------------------------- MODULE StartupOnboarding --------------------------
(***************************************************************************)
(* The start of the base stack: deploy/docker-compose.yml starts, side by  *)
(* side, the script chain/scripts/auto-onboard-workers.ts, which requests  *)
(* and approves the workers one after the other, and the service           *)
(* chain/scripts/auto-approve-trusted.ts, which approves the requests for  *)
(* trusted devices as it hears of them.  The gateway starts when the       *)
(* script has exited with 0.                                               *)
(*                                                                         *)
(* Both processes sign as the same owner; every await between two          *)
(* transactions or reads is a point where the other one may run.           *)
(***************************************************************************)
EXTENDS OnboardingTrust

CONSTANTS
  Admin, Owner,     \* signers 0 and 1 of the node
  Workers,          \* the worker ids, in the order of the script
  Initial,          \* devices the allowlist matches at the start
  Editable,         \* devices the allowlist may come to match, or not
  MaxTroubles       \* bound of the model: troubles that may happen, see Trouble

ASSUME StartupAssumption ==
  /\ Admin \in Accounts /\ Owner \in Accounts
  /\ Workers \in Seq(Devices)
  /\ Initial \subseteq Devices /\ Editable \subseteq Devices
  /\ MaxTroubles \in Nat

VARIABLES
  pc,         \* what the script does next
  at,         \* the worker it is at
  reqId,      \* the request it has just filed
  listening,  \* has the service subscribed to OnboardingRequested?
  heard,      \* how much of the log the service has been told of, or missed
  approving,  \* requests whose handler is about to call approve
  trusted,    \* devices the allowlist matches now
  troubles    \* how many troubles there have been

scriptVars == <<pc, at, reqId>>
serviceVars == <<listening, heard, approving>>
startupVars == <<requests, nextRequestId, log, pc, at, reqId, listening, heard, approving,
                 trusted, troubles>>

StartupTypeOK ==
  /\ TrustTypeOK
  /\ pc \in {"check", "request", "approve", "done", "failed"}
  /\ at \in 1 .. Len(Workers) + 1
  /\ reqId \in RequestIds \cup {0}
  /\ listening \in BOOLEAN
  /\ heard \in 0 .. Len(log)
  /\ approving \in SUBSET RequestIds
  /\ trusted \in SUBSET Devices
  /\ troubles \in 0 .. MaxTroubles

StartupInit ==
  /\ TrustInit
  /\ pc = "check" /\ at = 1 /\ reqId = 0
  /\ listening = FALSE /\ heard = 0 /\ approving = {}
  /\ trusted = Initial /\ troubles = 0

\* What may go wrong: a process is killed, the status or the allowlist cannot be
\* read, the owner decides by hand.
Trouble == troubles < MaxTroubles /\ troubles' = troubles + 1

-----------------------------------------------------------------------------
(***************************************************************************)
(* The script.                                                             *)
(***************************************************************************)
NextWorker(next) == pc' = next /\ at' = at + 1

\* Faulty variant: onboard without looking at the status first.
CheckNothing ==
  /\ pc = "check"
  /\ IF at > Len(Workers) THEN pc' = "done" ELSE pc' = "request"
  /\ UNCHANGED <<trustVars, serviceVars, at, reqId, trusted, troubles>>

\* A call of getDeviceStatus that fails counts as a worker without approval.
CheckStatus ==
  /\ pc = "check"
  /\ \/ /\ at > Len(Workers)
        /\ pc' = "done"
        /\ UNCHANGED <<at, troubles>>
     \/ /\ at <= Len(Workers)
        /\ IF HasStatus(Workers[at], "Approved")
           THEN NextWorker("check")
           ELSE pc' = "request" /\ UNCHANGED at
        /\ UNCHANGED troubles
     \/ /\ at <= Len(Workers) /\ Trouble
        /\ pc' = "request" /\ UNCHANGED at
  /\ UNCHANGED <<trustVars, serviceVars, reqId, trusted>>

\* The id comes from the event in the receipt.
ScriptRequest ==
  /\ pc = "request"
  /\ RequestOnboarding(Admin, Workers[at], Owner)
  /\ pc' = "approve"
  /\ reqId' = nextRequestId
  /\ UNCHANGED <<serviceVars, at, trusted, troubles>>

MayApprove(id) == requests[id].owner = Owner /\ requests[id].status = "Pending"

\* Faulty variants: a revert is swallowed, or leaves the script hanging.
ScriptApproveSwallow ==
  /\ pc = "approve"
  /\ \/ Approve(Owner, reqId)
     \/ ~MayApprove(reqId) /\ UNCHANGED trustVars
  /\ NextWorker("check")
  /\ UNCHANGED <<serviceVars, reqId, trusted, troubles>>

ScriptApproveOrHang ==
  /\ pc = "approve"
  /\ Approve(Owner, reqId)
  /\ NextWorker("check")
  /\ UNCHANGED <<serviceVars, reqId, trusted, troubles>>

\* A revert is an exception: main rejects and the process exits with 1.
ScriptApprove ==
  /\ pc = "approve"
  /\ \/ Approve(Owner, reqId) /\ NextWorker("check")
     \/ ~MayApprove(reqId) /\ pc' = "failed" /\ UNCHANGED <<trustVars, at>>
  /\ UNCHANGED <<serviceVars, reqId, trusted, troubles>>

ScriptDies ==
  /\ Trouble
  /\ pc \notin {"done", "failed"}
  /\ pc' = "failed"
  /\ UNCHANGED <<trustVars, serviceVars, at, reqId, trusted>>

\* Somebody starts the script again, against the same contract.
Rerun ==
  /\ pc = "failed"
  /\ pc' = "check" /\ at' = 1
  /\ UNCHANGED <<trustVars, serviceVars, reqId, trusted, troubles>>

-----------------------------------------------------------------------------
(***************************************************************************)
(* The service.  Subscribing delivers no event of the past.                *)
(***************************************************************************)
Subscribe ==
  /\ ~listening
  /\ listening' = TRUE
  /\ heard' = Len(log)
  /\ UNCHANGED <<trustVars, scriptVars, approving, trusted, troubles>>

Concerns(e) ==
  /\ e.event = "OnboardingRequested"
  /\ requests[e.requestId].owner = Owner

\* The handler up to its await of approve: a request that concerns the owner,
\* for a device that the configuration matches, is about to be approved.
Hear(e, config) ==
  approving' = IF Concerns(e) /\ e.deviceId \in config
               THEN approving \cup {e.requestId} ELSE approving

\* loadConfig returns the allowlist or, when it cannot be read, no stack at all.
Load(e) ==
  \/ Hear(e, trusted) /\ UNCHANGED troubles
  \/ Hear(e, {}) /\ Trouble

\* Faulty variant: only the newest event is delivered.
DeliverNewest ==
  /\ listening /\ heard < Len(log)
  /\ heard' = Len(log)
  /\ Load(log[Len(log)])
  /\ UNCHANGED <<trustVars, scriptVars, listening, trusted>>

Deliver ==
  /\ listening /\ heard < Len(log)
  /\ heard' = heard + 1
  /\ Load(log[heard + 1])
  /\ UNCHANGED <<trustVars, scriptVars, listening, trusted>>

\* A revert is logged and forgotten.
ServiceApprove(id) ==
  /\ id \in approving
  /\ approving' = approving \ {id}
  /\ Approve(Owner, id) \/ (~MayApprove(id) /\ UNCHANGED trustVars)
  /\ UNCHANGED <<scriptVars, listening, heard, trusted, troubles>>

ServiceDies ==
  /\ Trouble /\ listening
  /\ listening' = FALSE /\ heard' = 0 /\ approving' = {}
  /\ UNCHANGED <<trustVars, scriptVars, trusted>>

-----------------------------------------------------------------------------
(***************************************************************************)
(* The world around: the owner decides by hand, the allowlist is edited,   *)
(* and the gateway, once started, files requests.                          *)
(***************************************************************************)
OwnerDecides(id) ==
  /\ Trouble
  /\ Reject(Owner, id) \/ Revoke(Owner, id)
  /\ UNCHANGED <<scriptVars, serviceVars, trusted>>

EditTrust(d) ==
  /\ trusted' \in {trusted \cup {d}, trusted \ {d}}
  /\ UNCHANGED <<trustVars, scriptVars, serviceVars, troubles>>

GatewayRequest(d, owner) ==
  /\ pc = "done"
  /\ RequestOnboarding(Admin, d, owner)
  /\ UNCHANGED <<scriptVars, serviceVars, trusted, troubles>>

-----------------------------------------------------------------------------
Script == CheckStatus \/ ScriptRequest \/ ScriptApprove

Service == Subscribe \/ Deliver \/ \E id \in RequestIds : ServiceApprove(id)

Environment ==
  \/ ScriptDies \/ Rerun \/ ServiceDies
  \/ \E id \in RequestIds : OwnerDecides(id)
  \/ \E d \in Editable : EditTrust(d)
  \/ \E d \in Devices, owner \in Accounts : GatewayRequest(d, owner)

StartupNext == Script \/ Service \/ Environment

StartupSpec == StartupInit /\ [][StartupNext]_startupVars

\* Running processes run; the script is started again until it succeeds; the
\* service hears of every event and sends every transaction it is about to.
StartupFairSpec ==
  /\ StartupSpec
  /\ WF_startupVars(Script) /\ WF_startupVars(Rerun)
  /\ WF_startupVars(Subscribe) /\ WF_startupVars(Deliver)
  /\ \A id \in RequestIds : WF_startupVars(ServiceApprove(id))

-----------------------------------------------------------------------------
(***************************************************************************)
(* Properties.                                                             *)
(***************************************************************************)
WorkerSet == {Workers[i] : i \in 1 .. Len(Workers)}

\* The gateway never starts before every worker has been approved on the chain
\* (the ordering that PROGRESS.md:141 relies on), also when the script has been
\* killed and run again, and when the owner rejects in between.
DoneMeansApproved ==
  pc = "done" => \A d \in WorkerSet :
    \E i \in 1 .. Len(log) : log[i].event = "OnboardingApproved" /\ log[i].deviceId = d

\* The script files at most one request for a worker, however often it is run
\* again after it lost the race, unless something else goes wrong: a second one
\* would shadow the approved first.
OneRequestPerWorker ==
  pc # "done" /\ troubles = 0 => \A i, j \in RequestIds :
    /\ i < j /\ j < nextRequestId
    => requests[i].deviceId # requests[j].deviceId

\* A request the service hears of is decided, unless the allowlist stops
\* matching its device or something goes wrong.
Undelivered(id) ==
  /\ listening /\ id < nextRequestId
  /\ requests[id].owner = Owner
  /\ \E i \in heard + 1 .. Len(log) :
       log[i].event = "OnboardingRequested" /\ log[i].requestId = id

TrustedIsApproved ==
  \A id \in RequestIds :
    Undelivered(id) ~>
      (requests[id].status # "Pending" \/ requests[id].deviceId \notin trusted
       \/ troubles > 0)

\* Run again often enough, the script succeeds and the gateway starts: each run
\* that loses the race leaves one more worker approved, and each trouble costs
\* one request at most.
RetriesConverge == <>(pc = "done")

\* The race between the two mechanisms "non e' un errore reale, solo una corsa"
\* (auto-approve-trusted.ts:109-111): whoever approves first, the script ends
\* well.
RaceIsHarmless == pc # "failed"
=============================================================================
