-------------------------- MODULE Deployment_proofs --------------------------
(***************************************************************************)
(* Proofs about Deployment: for chains of any length and any number of     *)
(* runs, the code at the address on file is a trust contract, and the two  *)
(* clients of a gateway that compose starts belong together.               *)
(***************************************************************************)
EXTENDS Deployment, TLAPS

\* While the deployer has a trust contract in hand, it is where main says; and
\* once written, it is the one on file.
InHand ==
  /\ stage \in Deploying \ {"trust"} =>
       deployer["trust"] \in DOMAIN chain /\ chain[deployer["trust"]] = Trust
  /\ stage \in {"leasing", "write leasing"} => files["trust"] = deployer["trust"]

CodeInv == TypeOK /\ InHand /\ CodeIsTrust

\* When a registry always follows its trust contract, the two addresses differ by
\* one wherever they are a pair: on a chain, in the deployer, in the files when it
\* has ended well, and in a gateway that reads them before it runs again.
Pairs ==
  /\ \A i \in DOMAIN chain : chain[i].kind = "leasing" => chain[i].over = i - 1
  /\ stage = "write leasing" => deployer["leasing"] = deployer["trust"] + 1
  /\ stage \in {"onboarding", "starting"} => files["leasing"] = files["trust"] + 1
  /\ gateway.orderly /\ gateway.state = "loading" =>
       /\ stage \in {"idle", "trust", "write trust"}
       /\ files["leasing"] = gateway.trust + 1
  /\ gateway.orderly /\ gateway.state = "up" => gateway.leasing = gateway.trust + 1

PairInv == CodeInv /\ (adjacent => Pairs)

-----------------------------------------------------------------------------
LEMMA InitEstablishes == Init => PairInv
<1> SUFFICES ASSUME Init PROVE PairInv
  OBVIOUS
<1>1. chain \in Seq(Transactions) /\ DOMAIN chain = {}
  BY DEF Init
<1>2. TypeOK
  BY <1>1 DEF Init, TypeOK, Down, Missing, Stages
<1> QED
  BY <1>1, <1>2 DEF Init, PairInv, CodeInv, InHand, CodeIsTrust, HasCode, Pairs, Down, Deploying

\* What a transaction that is added to a chain leaves as it was.
LEMMA Appended ==
  ASSUME NEW c \in Seq(Transactions), NEW t \in Transactions
  PROVE  /\ Append(c, t) \in Seq(Transactions)
         /\ Len(Append(c, t)) = Len(c) + 1
         /\ DOMAIN Append(c, t) = DOMAIN c \cup {Len(c) + 1}
         /\ \A i \in DOMAIN c : Append(c, t)[i] = c[i]
         /\ Append(c, t)[Len(c) + 1] = t
         /\ Len(c) \in Nat /\ DOMAIN c = 1 .. Len(c)
  BY SMT

LEMMA Codes ==
  /\ Trust \in Transactions /\ Trust.kind = "trust"
  /\ Other \in Transactions /\ Other.kind = "other"
  /\ \A a \in Nat : /\ Leasing(a) \in Transactions /\ Leasing(a).kind = "leasing"
                    /\ Leasing(a).over = a
  BY DEF Trust, Other, Leasing, Transactions

LEMMA Positions ==
  ASSUME NEW c \in Seq(Transactions)
  PROVE  DOMAIN c = 1 .. Len(c) /\ Len(c) \in Nat /\ 0 \notin DOMAIN c
  BY SMT

LEMMA EmptyChain == DOMAIN <<>> = {}
  BY SMT

\* The types, action by action.
LEMMA TypeStep == TypeOK /\ [Next]_vars => TypeOK'
<1> SUFFICES ASSUME TypeOK, [Next]_vars PROVE TypeOK'
  OBVIOUS
<1>1. CASE Up
  BY <1>1 DEF TypeOK, Up, Stages, Deploying
<1>2. CASE DeployTrust
  <2>1. fresh' \in BOOLEAN
    BY <1>2, Zenon DEF DeployTrust
  <2>2. chain' \in Seq(Transactions) /\ Len(chain') \in Nat
    BY <1>2, Codes, Appended DEF DeployTrust, Create, TypeOK
  <2>3. deployer' \in [Contracts -> Nat]
    BY <1>2, <2>2 DEF TypeOK, DeployTrust, Create, Contracts
  <2>4. stage' \in Stages
    BY <1>2 DEF DeployTrust, Stages, Deploying
  <2> QED
    BY <1>2, <2>1, <2>2, <2>3, <2>4 DEF TypeOK, DeployTrust, Create
<1>3. CASE WriteTrust \/ WriteLeasing
  BY <1>3 DEF TypeOK, WriteTrust, WriteLeasing, Write, Stages, Deploying, Contracts
<1>4. CASE DeployLeasing
  <2>1. adjacent' \in BOOLEAN
    BY <1>4, Zenon DEF DeployLeasing
  <2>2. chain' \in Seq(Transactions) /\ Len(chain') \in Nat
    BY <1>4, Codes, Appended DEF DeployLeasing, Create, TypeOK, Contracts
  <2>3. deployer' \in [Contracts -> Nat]
    BY <1>4, <2>2 DEF TypeOK, DeployLeasing, Create, Contracts
  <2>4. stage' \in Stages
    BY <1>4 DEF DeployLeasing, Stages, Deploying
  <2> QED
    BY <1>4, <2>1, <2>2, <2>3, <2>4 DEF TypeOK, DeployLeasing, Create
<1>5. CASE DeployerDies
  <2>1. files' \in [Contracts -> Nat]
    BY <1>5 DEF TypeOK, DeployerDies, Missing
  <2> QED
    BY <1>5, <2>1 DEF TypeOK, DeployerDies, Stages
<1>6. CASE Onboard \/ OnboardFails
  <2>1. stage' \in Stages
    BY <1>6 DEF Onboard, OnboardFails, Onboarded, Stages
  <2>2. chain' = chain \/ chain' = Append(chain, Other)
    BY <1>6 DEF Onboard, OnboardFails, SendRequests
  <2>3. chain' \in Seq(Transactions)
    <3>1. chain \in Seq(Transactions) /\ Append(chain, Other) \in Seq(Transactions)
      BY Codes, Appended DEF TypeOK
    <3> QED BY <2>2, <3>1
  <2>4. UNCHANGED <<alive, run, deployer, files, listening, gateway, adjacent, fresh>>
    BY <1>6 DEF Onboard, OnboardFails, Onboarded
  <2> QED
    BY <2>1, <2>3, <2>4 DEF TypeOK
<1>7. CASE \E l \in Listeners : StartListener(l) \/ Bind(l) \/ StopListener(l)
  BY <1>7 DEF TypeOK, StartListener, Bind, StopListener, Listen, Waiting, Off, Contracts
<1>8. CASE StartGateway
  <2>1. stage' \in Stages
    BY <1>8 DEF TypeOK, StartGateway, Stages
  <2>2. ASSUME NEW b \in BOOLEAN, LoadTrust(b)
        PROVE  gateway' \in [trust : Nat, leasing : Nat,
                             state : {"down", "loading", "up"}, orderly : BOOLEAN]
    BY <2>2 DEF TypeOK, LoadTrust, Load, Missing, Contracts
  <2>3. gateway' \in [trust : Nat, leasing : Nat,
                      state : {"down", "loading", "up"}, orderly : BOOLEAN]
    BY <1>8, <2>2 DEF StartGateway
  <2> QED
    BY <1>8, <2>1, <2>3 DEF TypeOK, StartGateway, LoadTrust, Load
<1>9. CASE LeaveGateway
  BY <1>9 DEF TypeOK, LeaveGateway, Stages
<1>10. CASE LoadLeasing
  BY <1>10 DEF TypeOK, LoadLeasing, Load, Contracts
<1>11. CASE StopGateway
  BY <1>11 DEF TypeOK, StopGateway, Load, Down, Missing
<1>12. CASE Transact
  BY <1>12, Codes, Appended DEF TypeOK, Transact
<1>13. CASE NodeDies
  <2>1. stage' \in Stages
    BY <1>13 DEF TypeOK, NodeDies, Stages
  <2>2. chain' \in Seq(Transactions)
    BY <1>13 DEF NodeDies
  <2> QED
    BY <1>13, <2>1, <2>2 DEF TypeOK, NodeDies
<1>14. CASE UNCHANGED vars
  BY <1>14 DEF TypeOK, vars
<1> QED
  BY <1>1, <1>2, <1>3, <1>4, <1>5, <1>6, <1>7, <1>8, <1>9, <1>10, <1>11, <1>12, <1>13,
     <1>14 DEF Next, Deployer

LEMMA Extended ==
  ASSUME TypeOK, NEW t \in Transactions, chain' = Append(chain, t)
  PROVE  /\ Len(chain) \in Nat /\ Len(chain') = Len(chain) + 1
         /\ DOMAIN chain = 1 .. Len(chain) /\ DOMAIN chain' = DOMAIN chain \cup {Len(chain')}
         /\ \A i \in DOMAIN chain : chain'[i] = chain[i]
         /\ chain'[Len(chain')] = t
  BY Appended DEF TypeOK

\* A transaction at the end of the chain disturbs nothing that is in it.
LEMMA CodeKept ==
  ASSUME TypeOK, InHand, CodeIsTrust, NEW t \in Transactions, chain' = Append(chain, t),
         UNCHANGED files, HasCode(files["trust"])' => HasCode(files["trust"]) \/ t = Trust
  PROVE  CodeIsTrust'
<1>1. /\ DOMAIN chain' = DOMAIN chain \cup {Len(chain')} /\ chain'[Len(chain')] = t
      /\ \A i \in DOMAIN chain : chain'[i] = chain[i]
  BY Extended
<1> QED
  BY <1>1 DEF CodeIsTrust, HasCode

\* The invariant of CodeIsTrust, action by action.
LEMMA CodeStep == CodeInv /\ [Next]_vars => CodeInv'
<1> SUFFICES ASSUME CodeInv, [Next]_vars PROVE InHand' /\ CodeIsTrust'
  BY TypeStep DEF CodeInv
<1>t. TypeOK /\ InHand /\ CodeIsTrust
  BY DEF CodeInv
<1> USE <1>t DEF InHand, Deploying
<1>1. CASE Up
  BY <1>1 DEF Up, CodeIsTrust, HasCode
<1>2. CASE DeployTrust
  <2>1. /\ chain' = Append(chain, Trust) /\ deployer'["trust"] = Len(chain') /\ UNCHANGED files
        /\ stage' = "write trust"
    BY <1>2 DEF DeployTrust, Create, TypeOK, Contracts
  <2>2. CodeIsTrust'
    BY <2>1, CodeKept, Codes
  <2>3. Len(chain') \in DOMAIN chain' /\ chain'[Len(chain')] = Trust
    BY <2>1, Extended, Codes
  <2> QED
    BY <2>1, <2>2, <2>3
<1>3. CASE WriteTrust
  BY <1>3 DEF WriteTrust, Write, Writing, TypeOK, Contracts, CodeIsTrust
<1>4. CASE DeployLeasing
  <2>1. /\ chain' = Append(chain, Leasing(deployer["trust"])) /\ UNCHANGED files
        /\ Leasing(deployer["trust"]) \in Transactions
        /\ stage = "leasing" /\ stage' = "write leasing"
        /\ deployer'["trust"] = deployer["trust"]
    BY <1>4, Codes DEF DeployLeasing, Create, TypeOK, Contracts
  <2>2. files["trust"] \in DOMAIN chain /\ chain[files["trust"]] = Trust
    BY <2>1
  <2>3. HasCode(files["trust"])
    BY <2>2, Codes DEF HasCode, Contracts
  <2>4. CodeIsTrust'
    BY <2>1, <2>3, CodeKept
  <2>5. DOMAIN chain \subseteq DOMAIN chain' /\ chain'[files["trust"]] = Trust
    BY <2>1, <2>2, Extended
  <2> QED
    BY <2>1, <2>2, <2>4, <2>5
<1>5. CASE WriteLeasing
  BY <1>5 DEF WriteLeasing, Write, Writing, TypeOK, Contracts, CodeIsTrust, HasCode
<1>6. CASE DeployerDies
  <2>1. stage' = "idle" /\ UNCHANGED chain
    BY <1>6 DEF DeployerDies
  <2>2. files'["trust"] \in {files["trust"], Missing}
    BY <1>6 DEF DeployerDies, TypeOK, Contracts
  <2>3. 0 \notin DOMAIN chain
    BY Positions DEF TypeOK
  <2> QED
    BY <2>1, <2>2, <2>3 DEF CodeIsTrust, HasCode, Missing
<1>7. CASE Onboard \/ (OnboardFails /\ SendRequests) \/ Transact
  <2>1. /\ chain' = Append(chain, Other) /\ UNCHANGED <<files, deployer>>
        /\ stage' \in {stage, "starting", "idle"}
    BY <1>7 DEF Onboard, OnboardFails, Onboarded, SendRequests, Transact
  <2>5. /\ DOMAIN chain' = DOMAIN chain \cup {Len(chain')} /\ chain'[Len(chain')] = Other
        /\ \A i \in DOMAIN chain : chain'[i] = chain[i]
    BY <2>1, Extended, Codes
  <2>2. HasCode(files["trust"])' => HasCode(files["trust"])
    BY <2>1, <2>5, Codes DEF HasCode, Contracts
  <2>3. CodeIsTrust'
    BY <2>1, <2>2, CodeKept, Codes
  <2>4. deployer["trust"] \in DOMAIN chain =>
          /\ deployer["trust"] \in DOMAIN chain'
          /\ chain'[deployer["trust"]] = chain[deployer["trust"]]
    BY <2>5
  <2> QED
    BY <2>1, <2>3, <2>4
<1>8. CASE (OnboardFails /\ UNCHANGED chain) \/ LeaveGateway
  BY <1>8 DEF OnboardFails, Onboarded, LeaveGateway, CodeIsTrust, HasCode
<1>9. CASE \E l \in Listeners : StartListener(l) \/ Bind(l) \/ StopListener(l)
  BY <1>9 DEF StartListener, Bind, StopListener, Listen, CodeIsTrust, HasCode
<1>10. CASE StartGateway \/ LoadLeasing \/ StopGateway
  BY <1>10 DEF StartGateway, LoadTrust, LoadLeasing, StopGateway, Load, CodeIsTrust, HasCode
<1>11. CASE NodeDies
  <2>1. chain' = <<>> /\ stage' \notin Deploying
    BY <1>11 DEF NodeDies, TypeOK, Stages
  <2>2. DOMAIN chain' = {}
    BY <2>1, EmptyChain
  <2> QED
    BY <2>1, <2>2 DEF CodeIsTrust, HasCode
<1>12. CASE UNCHANGED vars
  BY <1>12 DEF vars, CodeIsTrust, HasCode
<1> QED
  BY <1>1, <1>2, <1>3, <1>4, <1>5, <1>6, <1>7, <1>8, <1>9, <1>10, <1>11, <1>12
     DEF Next, Deployer, OnboardFails

\* A transaction that is added and is no registry, or one that follows its trust
\* contract, leaves the registries where they belong.
LEMMA RegistriesKept ==
  ASSUME TypeOK, Pairs, NEW t \in Transactions, chain' = Append(chain, t),
         t.kind = "leasing" => t.over = Len(chain)
  PROVE  \A i \in DOMAIN chain' : chain'[i].kind = "leasing" => chain'[i].over = i - 1
<1> SUFFICES ASSUME NEW i \in DOMAIN chain', chain'[i].kind = "leasing"
             PROVE  chain'[i].over = i - 1
  OBVIOUS
<1>e. /\ Len(chain) \in Nat /\ Len(chain') = Len(chain) + 1
      /\ DOMAIN chain' = DOMAIN chain \cup {Len(chain')} /\ chain'[Len(chain')] = t
      /\ \A j \in DOMAIN chain : chain'[j] = chain[j]
  BY Extended
<1>1. CASE i \in DOMAIN chain
  BY <1>1, <1>e DEF Pairs
<1>2. CASE i = Len(chain')
  BY <1>2, <1>e
<1> QED
  BY <1>1, <1>2, <1>e

\* The pairs, action by action; a registry is created where `adjacent` is decided.
LEMMA PairStep == PairInv /\ [Next]_vars => PairInv'
<1> SUFFICES ASSUME PairInv, [Next]_vars, adjacent' PROVE Pairs'
  BY CodeStep DEF PairInv
<1>a. adjacent
  <2>1. DeployLeasing \/ UNCHANGED adjacent
    BY DEF Next, Deployer, Up, DeployTrust, WriteTrust, WriteLeasing, Write, DeployerDies, Onboard,
           OnboardFails, Onboarded, StartListener, Bind, StopListener, Listen, StartGateway, LoadTrust,
           LeaveGateway, LoadLeasing, StopGateway, Load, Transact, NodeDies, vars
  <2> QED
    BY <2>1 DEF DeployLeasing
<1>p. Pairs /\ TypeOK /\ InHand
  BY <1>a DEF PairInv, CodeInv
<1> USE <1>p DEF Pairs, Deploying
<1>1. CASE Up
  BY <1>1 DEF Up
<1>2. CASE DeployTrust
  <2>1. /\ chain' = Append(chain, Trust) /\ UNCHANGED <<files, gateway>>
        /\ stage = "trust" /\ stage' = "write trust"
    BY <1>2 DEF DeployTrust, Create
  <2> QED
    BY <2>1, RegistriesKept, Codes
<1>3. CASE WriteTrust
  <2>1. /\ UNCHANGED <<chain, deployer>> /\ stage' = "leasing"
        /\ gateway' = [gateway EXCEPT !.orderly = @ /\ gateway.state = "up"]
    BY <1>3 DEF WriteTrust, Write
  <2>2. /\ gateway'.state = gateway.state /\ gateway'.trust = gateway.trust
        /\ gateway'.leasing = gateway.leasing
        /\ gateway'.orderly => gateway.orderly /\ gateway.state = "up"
    BY <2>1 DEF TypeOK
  <2> QED
    BY <2>1, <2>2
<1>4. CASE DeployLeasing
  <2>1. /\ chain' = Append(chain, Leasing(deployer["trust"])) /\ UNCHANGED <<files, gateway>>
        /\ stage = "leasing" /\ stage' = "write leasing"
        /\ deployer'["leasing"] = Len(chain') /\ deployer'["trust"] = deployer["trust"]
        /\ deployer'["leasing"] = deployer["trust"] + 1
    BY <1>4 DEF DeployLeasing, Create, TypeOK, Contracts
  <2>2. /\ Leasing(deployer["trust"]) \in Transactions
        /\ Leasing(deployer["trust"]).over = deployer["trust"]
    BY Codes DEF TypeOK, Contracts
  <2>4. Len(chain') = Len(chain) + 1 /\ Len(chain) \in Nat
    BY <2>1, <2>2, Extended
  <2>5. deployer["trust"] \in Nat
    BY DEF TypeOK, Contracts
  <2>3. deployer["trust"] = Len(chain)
    <3>1. Len(chain) + 1 = deployer["trust"] + 1
      BY <2>1, <2>4
    <3> HIDE <1>p DEF Pairs, Deploying
    <3> QED
      BY <2>4, <2>5, <3>1
  <2> QED
    BY <2>1, <2>2, <2>3, RegistriesKept
<1>5. CASE WriteLeasing
  <2>1. /\ UNCHANGED <<chain, deployer>> /\ stage = "write leasing" /\ stage' = "onboarding"
        /\ gateway' = [gateway EXCEPT !.orderly = @ /\ gateway.state = "up"]
        /\ files'["leasing"] = deployer["leasing"] /\ files'["trust"] = files["trust"]
    BY <1>5 DEF WriteLeasing, Write, Writing, TypeOK, Contracts
  <2>2. /\ gateway'.state = gateway.state /\ gateway'.trust = gateway.trust
        /\ gateway'.leasing = gateway.leasing
        /\ gateway'.orderly => gateway.orderly /\ gateway.state = "up"
    BY <2>1 DEF TypeOK
  <2> QED
    BY <2>1, <2>2 DEF InHand
<1>6. CASE DeployerDies
  <2>1. stage' = "idle" /\ UNCHANGED <<chain, deployer, gateway>>
    BY <1>6 DEF DeployerDies
  <2>2. stage = "write leasing" \/ files'["leasing"] = files["leasing"]
    BY <1>6 DEF DeployerDies, Writing, TypeOK, Contracts
  <2> QED
    BY <2>1, <2>2
<1>7. CASE Onboard \/ (OnboardFails /\ SendRequests)
  <2>1. /\ chain' = Append(chain, Other) /\ UNCHANGED <<files, deployer, gateway>>
        /\ stage = "onboarding" /\ stage' \in {"starting", "idle"}
    BY <1>7 DEF Onboard, OnboardFails, Onboarded, SendRequests
  <2> QED
    BY <2>1, RegistriesKept, Codes
<1>8. CASE Transact
  <2>1. chain' = Append(chain, Other) /\ UNCHANGED <<stage, files, deployer, gateway>>
    BY <1>8 DEF Transact
  <2> QED
    BY <2>1, RegistriesKept, Codes
<1>9. CASE OnboardFails /\ UNCHANGED chain
  BY <1>9 DEF OnboardFails, Onboarded
<1>10. CASE \E l \in Listeners : StartListener(l) \/ Bind(l) \/ StopListener(l)
  BY <1>10 DEF StartListener, Bind, StopListener, Listen
<1>11. CASE StartGateway
  <2>1. UNCHANGED <<chain, deployer, files>>
    BY <1>11 DEF StartGateway, LoadTrust, Load
  <2>2. CASE stage = "starting" /\ stage' = "idle" /\ LoadTrust(TRUE)
    BY <2>1, <2>2 DEF LoadTrust, Load
  <2>3. CASE UNCHANGED stage /\ LoadTrust(FALSE)
    BY <2>1, <2>3 DEF LoadTrust, Load
  <2> QED
    BY <1>11, <2>2, <2>3 DEF StartGateway
<1>12. CASE LeaveGateway
  BY <1>12 DEF LeaveGateway
<1>13. CASE LoadLeasing
  <2>1. /\ gateway.state = "loading" /\ UNCHANGED <<chain, stage, deployer, files>>
        /\ gateway'.state = "up" /\ gateway'.leasing = files["leasing"]
        /\ gateway'.trust = gateway.trust /\ gateway'.orderly = gateway.orderly
    BY <1>13 DEF LoadLeasing, Load, TypeOK
  <2> QED
    BY <2>1
<1>14. CASE StopGateway
  BY <1>14 DEF StopGateway, Load, Down
<1>15. CASE NodeDies
  <2>1. /\ chain' = <<>> /\ UNCHANGED <<deployer, files, gateway>>
        /\ stage' \in {stage, "idle"} /\ stage' # "write leasing"
    BY <1>15 DEF NodeDies
  <2>2. DOMAIN chain' = {}
    BY <2>1, EmptyChain
  <2> QED
    BY <2>1, <2>2
<1>16. CASE UNCHANGED vars
  BY <1>16 DEF vars
<1> QED
  BY <1>1, <1>2, <1>3, <1>4, <1>5, <1>6, <1>7, <1>8, <1>9, <1>10, <1>11, <1>12, <1>13, <1>14,
     <1>15, <1>16 DEF Next, Deployer, OnboardFails

\* Chains, files, addresses in hand and processes have their types in every
\* reachable state.
THEOREM DeploymentTypeCorrect == Spec => []TypeOK
<1>1. Init => CodeInv
  BY InitEstablishes DEF PairInv
<1>2. CodeInv => TypeOK
  BY DEF CodeInv
<1> QED
  BY <1>1, <1>2, CodeStep, PTL DEF Spec

\* Whatever has code at the address in localhost.json is a trust contract,
\* because deploy.ts writes that file before it creates the registry.
THEOREM CodeIsTrustCorrect == Spec => []CodeIsTrust
<1>1. Init => CodeInv
  BY InitEstablishes DEF PairInv
<1>2. CodeInv => CodeIsTrust
  BY DEF CodeInv
<1> QED
  BY <1>1, <1>2, CodeStep, PTL DEF Spec

\* A gateway that compose has started leases where it onboards, on its chain and
\* on every later one, if no transaction has come between two contracts.
THEOREM LeasesWhereItOnboardsCorrect == Spec => []LeasesWhereItOnboards
<1>1. PairInv => LeasesWhereItOnboards
  <2> SUFFICES ASSUME PairInv, adjacent, gateway.state = "up", gateway.orderly,
                      gateway.leasing \in DOMAIN chain, chain[gateway.leasing].kind = "leasing"
               PROVE  chain[gateway.leasing].over = gateway.trust
    BY DEF LeasesWhereItOnboards
  <2>1. gateway.leasing = gateway.trust + 1 /\ chain[gateway.leasing].over = gateway.leasing - 1
    BY DEF PairInv, Pairs
  <2>2. gateway.trust \in Nat
    BY DEF PairInv, CodeInv, TypeOK
  <2> QED
    BY <2>1, <2>2
<1> QED
  BY <1>1, InitEstablishes, PairStep, PTL DEF Spec
=============================================================================
