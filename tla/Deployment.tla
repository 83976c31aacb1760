----------------------------- MODULE Deployment -----------------------------
(***************************************************************************)
(* Where the contracts are.  chain/scripts/deploy.ts creates both and      *)
(* writes their addresses to two files on a mounted directory; the other   *)
(* processes read the files when they start and keep what they read        *)
(* (auto-approve-trusted.ts, the notification's chain_listener.py, the     *)
(* gateway's chain_client.py and leasing_client.py).  deploy/              *)
(* docker-compose.yml says in which order all of them start.               *)
(*                                                                         *)
(* The address of a contract follows from the account that creates it and  *)
(* the number of its transactions before.  All that matters here is signed *)
(* by one account, so a chain is the sequence of its transactions and an   *)
(* address a position in it.  The chain lives in its node's container and  *)
(* is lost with it; the files outlive it.                                  *)
(***************************************************************************)
EXTENDS Integers, Sequences

CONSTANTS
  MaxChain,   \* bound of the model: the transactions of the account on a chain
  MaxRuns     \* bound of the model: how often the stack is brought up

ASSUME DeploymentAssumption == {MaxChain, MaxRuns} \subseteq Nat

VARIABLES
  alive,      \* is the node running?
  chain,      \* the transactions of the account, oldest first
  stage,      \* how far "docker compose up" has come
  run,        \* how many times the stack has been brought up
  deployer,   \* contract -> the address main has in hand
  files,      \* contract -> what its file says
  listening,  \* listener -> the address it works with, or why it has none
  gateway,    \* the addresses of the gateway's clients, its state, and whether compose
              \* started it and no file was written while it loaded (history)
  adjacent,   \* were both contracts always created one after the other? (history)
  fresh       \* was every deployment the first of its chain? (history)

vars == <<alive, chain, stage, run, deployer, files, listening, gateway, adjacent, fresh>>

Contracts == {"trust", "leasing"}
Listeners == {"approver", "notification"}

\* A listener that does not run, or has no address yet.
Off == -1
Waiting == 0

\* What a position of the chain holds: a contract, the registry with the trust
\* contract it consults, or a transaction that creates nothing.
Trust == [kind |-> "trust"]
Leasing(over) == [kind |-> "leasing", over |-> over]
Other == [kind |-> "other"]
Transactions == {Trust, Other} \cup [kind : {"leasing"}, over : Nat]

\* What a file says that is not there, or not readable.
Missing == 0

Deploying == {"trust", "write trust", "leasing", "write leasing"}
Stages == Deploying \cup {"idle", "onboarding", "starting"}

TypeOK ==
  /\ alive \in BOOLEAN /\ adjacent \in BOOLEAN /\ fresh \in BOOLEAN
  /\ chain \in Seq(Transactions)
  /\ stage \in Stages /\ run \in Nat
  /\ deployer \in [Contracts -> Nat]
  /\ files \in [Contracts -> Nat]
  /\ listening \in [Listeners -> Nat \cup {Off}]
  /\ gateway \in [trust : Nat, leasing : Nat, state : {"down", "loading", "up"}, orderly : BOOLEAN]

Down == [trust |-> Missing, leasing |-> Missing, state |-> "down", orderly |-> FALSE]

Init ==
  /\ alive = FALSE /\ chain = <<>>
  /\ stage = "idle" /\ run = 0
  /\ deployer = [c \in Contracts |-> 0]
  /\ files = [c \in Contracts |-> Missing]
  /\ listening = [l \in Listeners |-> Off]
  /\ gateway = Down
  /\ adjacent = TRUE /\ fresh = TRUE

HasCode(address) ==
  address \in DOMAIN chain /\ chain[address].kind \in Contracts

-----------------------------------------------------------------------------
(***************************************************************************)
(* docker compose up: the node if it is not running, the deployer again,   *)
(* the onboarding script again, and then what is not running yet.          *)
(***************************************************************************)
Up ==
  /\ stage = "idle" /\ run < MaxRuns
  /\ run' = run + 1
  /\ alive' = TRUE
  /\ stage' = "trust"
  /\ UNCHANGED <<chain, deployer, files, listening, gateway, adjacent, fresh>>

Create(contract, code) ==
  /\ stage = contract
  /\ Len(chain) < MaxChain
  /\ chain' = Append(chain, code)
  /\ deployer' = [deployer EXCEPT ![contract] = Len(chain')]
  /\ UNCHANGED <<alive, run, listening, gateway>>

DeployTrust ==
  /\ Create("trust", Trust)
  /\ stage' = "write trust"
  /\ fresh' = (fresh /\ chain = <<>>)
  /\ UNCHANGED <<files, adjacent>>

Writing(contract) == IF contract = "trust" THEN "write trust" ELSE "write leasing"

Write(contract) ==
  /\ stage = Writing(contract)
  /\ files' = [files EXCEPT ![contract] = deployer[contract]]
  /\ gateway' = [gateway EXCEPT !.orderly = @ /\ gateway.state = "up"]
  /\ UNCHANGED <<alive, chain, run, deployer, listening, adjacent, fresh>>

\* Faulty variant: a file that exists is kept.
WriteTrustOnce ==
  /\ IF files["trust"] = Missing
     THEN Write("trust")
     ELSE stage = "write trust" /\ UNCHANGED <<alive, chain, run, deployer, files, listening, gateway, adjacent, fresh>>
  /\ stage' = "leasing"

WriteTrust == Write("trust") /\ stage' = "leasing"

DeployLeasing ==
  /\ Create("leasing", Leasing(deployer["trust"]))
  /\ stage' = "write leasing"
  /\ adjacent' = (adjacent /\ deployer'["leasing"] = deployer["trust"] + 1)
  /\ UNCHANGED <<files, fresh>>

WriteLeasing == Write("leasing") /\ stage' = "onboarding"

\* Faulty variant: main's catch does not set the exit code.
DeployerDiesQuietly ==
  /\ stage \in Deploying
  /\ stage' = "onboarding"
  /\ UNCHANGED <<alive, chain, run, deployer, files, listening, gateway, adjacent, fresh>>

\* The deployer fails or is killed, maybe while writing a file it has emptied.
DeployerDies ==
  /\ stage \in Deploying
  /\ stage' = "idle"
  /\ \/ UNCHANGED files
     \/ \E c \in Contracts : /\ stage = Writing(c)
                            /\ files' = [files EXCEPT ![c] = Missing]
  /\ UNCHANGED <<alive, chain, run, deployer, listening, gateway, adjacent, fresh>>

\* The script's transactions at the contract on file, in the model one.
SendRequests ==
  /\ HasCode(files["trust"]) /\ Len(chain) < MaxChain
  /\ chain' = Append(chain, Other)

Onboarded(next) ==
  /\ stage = "onboarding" /\ stage' = next
  /\ UNCHANGED <<alive, run, deployer, files, listening, gateway, adjacent, fresh>>

Onboard == Onboarded("starting") /\ SendRequests

\* It loses its race (StartupOnboarding), finds no contract or is killed, with
\* transactions mined or not.
OnboardFails == Onboarded("idle") /\ (SendRequests \/ UNCHANGED chain)

-----------------------------------------------------------------------------
(***************************************************************************)
(* The listeners.  The approver polls for code at the address on file; the *)
(* notification service takes any address.  Compose starts them behind the *)
(* deployer, somebody may start or stop them by hand.                      *)
(***************************************************************************)
Listen(l, state) ==
  /\ listening' = [listening EXCEPT ![l] = state]
  /\ UNCHANGED <<alive, chain, stage, run, deployer, files, gateway, adjacent, fresh>>

\* Faulty variant: an error ends the loop, with no contract.
StartListenerOnce(l) ==
  /\ listening[l] = Off
  /\ Listen(l, IF files["trust"] = Missing THEN -2 ELSE Waiting)

StartListener(l) == listening[l] = Off /\ Listen(l, Waiting)

Bind(l) ==
  LET address == files["trust"]
  IN  /\ listening[l] = Waiting
      /\ address # Missing /\ (l = "approver" => HasCode(address))
      /\ Listen(l, address)

StopListener(l) == listening[l] # Off /\ Listen(l, Off)

-----------------------------------------------------------------------------
(***************************************************************************)
(* The gateway imports its two clients one after the other.  The first one *)
(* needs its file; the second one does without.                            *)
(***************************************************************************)
Load(client) ==
  /\ gateway' = client
  /\ UNCHANGED <<alive, chain, run, deployer, files, listening, adjacent, fresh>>

LoadTrust(orderly) ==
  /\ gateway.state = "down" /\ files["trust"] # Missing
  /\ Load([trust |-> files["trust"], leasing |-> Missing, state |-> "loading", orderly |-> orderly])

\* By compose, when the script has ended well, or by hand at any time.
StartGateway ==
  \/ stage = "starting" /\ stage' = "idle" /\ LoadTrust(TRUE)
  \/ UNCHANGED stage /\ LoadTrust(FALSE)

\* It runs already, or its import fails.
LeaveGateway ==
  /\ stage = "starting" /\ stage' = "idle"
  /\ gateway.state # "down" \/ files["trust"] = Missing
  /\ UNCHANGED <<alive, chain, run, deployer, files, listening, gateway, adjacent, fresh>>

LoadLeasing ==
  /\ gateway.state = "loading"
  /\ Load([gateway EXCEPT !.leasing = files["leasing"], !.state = "up"])
  /\ UNCHANGED stage

StopGateway == gateway.state # "down" /\ Load(Down) /\ UNCHANGED stage

\* Requests, leases and releases, whatever is at the address they are sent to.
Transact ==
  /\ gateway.state = "up" /\ alive
  /\ Len(chain) < MaxChain
  /\ chain' = Append(chain, Other)
  /\ UNCHANGED <<alive, stage, run, deployer, files, listening, gateway, adjacent, fresh>>

\* What runs against the node fails without it; the services stay.
NodeDies ==
  /\ alive /\ alive' = FALSE
  /\ chain' = <<>>
  /\ stage' = IF stage \in Deploying \cup {"onboarding"} THEN "idle" ELSE stage
  /\ UNCHANGED <<run, deployer, files, listening, gateway, adjacent, fresh>>

-----------------------------------------------------------------------------
Deployer == DeployTrust \/ WriteTrust \/ DeployLeasing \/ WriteLeasing

Next ==
  \/ Up \/ Deployer \/ DeployerDies \/ Onboard \/ OnboardFails
  \/ \E l \in Listeners : StartListener(l) \/ Bind(l) \/ StopListener(l)
  \/ StartGateway \/ LeaveGateway \/ LoadLeasing \/ StopGateway
  \/ Transact \/ NodeDies

Spec == Init /\ [][Next]_vars

\* A service that has been started runs.
FairSpec == Spec /\ \A l \in Listeners : WF_vars(Bind(l))

-----------------------------------------------------------------------------
(***************************************************************************)
(* Properties.                                                             *)
(***************************************************************************)
\* A gateway that compose has started, with no deployer in its way, asks for leases
\* where it asks for onboarding: if its registry is one, on this chain
\* or on one created since, it consults the trust contract of the other client.
\* It takes that no other transaction has come between two contracts.
LeasesWhereItOnboards ==
  /\ adjacent /\ gateway.state = "up" /\ gateway.orderly
  /\ gateway.leasing \in DOMAIN chain /\ chain[gateway.leasing].kind = "leasing"
  => chain[gateway.leasing].over = gateway.trust

\* Whatever has code at the address in localhost.json is a trust contract, after
\* any loss of the chain and any deployment cut short: the approver, which asks
\* for code only, does not end up on the registry.
CodeIsTrust ==
  HasCode(files["trust"]) => chain[files["trust"]] = Trust

\* A listener that is not stopped comes to listen to the contract on file, also
\* when it was started before that was deployed, or when the chain was lost under
\* it: a new chain has the old address, if its first deployment comes first.
ListenersComeUp ==
  \A l \in Listeners :
    [](fresh) /\ <>[](HasCode(files["trust"]) /\ listening[l] # Off)
      => <>[](listening[l] = files["trust"])

\* What does not hold: that the requests of the gateway are heard, when the stack
\* is brought up again on the same chain ("intercetta gli eventi
\* OnboardingRequested", deploy/README.md).
RequestsAreHeard ==
  gateway.state = "up" /\ listening["approver"] > 0 =>
    listening["approver"] = gateway.trust
=============================================================================
