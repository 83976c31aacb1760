------------------------------ MODULE EventFeed ------------------------------
(***************************************************************************)
(* From the events of the contract to the dashboard: the gateway polls the *)
(* chain and keeps the events in memory (gateway/app/event_poller.py), the *)
(* browser asks for the recent ones every five seconds (ui/static/app.js,  *)
(* through ui/app/main.py) and shows what the last event of each request   *)
(* says its status is.                                                     *)
(*                                                                         *)
(* A poll has no await, so it is one step; the chain may have moved on     *)
(* when it asks for the events, but it names the last block it wants.  The *)
(* events of each type are fetched by a call that may fail by itself.      *)
(* The browser does not wait for an answer before it asks again.  A chain  *)
(* that is lost with its node starts again, with the contract where it was *)
(* (module Deployment), and the gateway goes on from the block it was at.  *)
(***************************************************************************)
EXTENDS OnboardingTrust, FiniteSets

CONSTANTS
  Limit,        \* how many events are recent: 50 in the gateway
  MaxFaults,    \* bound of the model: losses of the chain and failed calls for events
  MaxRestarts,  \* bound of the model: restarts of the gateway
  MaxFlight,    \* bound of the model: answers on their way to the browser, fewer
                \* by one for every such fault
  UiMayFail     \* may a question of the browser go unanswered?

ASSUME FeedAssumption ==
  /\ Limit \in Nat \ {0} /\ {MaxFaults, MaxRestarts, MaxFlight} \subseteq Nat
  /\ UiMayFail \in BOOLEAN

VARIABLES
  cache,     \* events_cache
  last,      \* last_block_processed, as a position in the log
  faults,    \* how many chains have been lost and calls have failed
  restarts,  \* how many times the gateway has been restarted
  whole,     \* since its start, has the gateway had every event of one chain? (history)
  flight,    \* answers on their way to the browser
  page       \* the table the browser shows: request -> status

feedVars == <<requests, nextRequestId, log, cache, last, faults, restarts, whole, flight, page>>

FeedTypeOK ==
  /\ TrustTypeOK
  /\ cache \in Seq(Event)
  /\ last \in Nat
  /\ faults \in 0 .. MaxFaults /\ restarts \in 0 .. MaxRestarts
  /\ whole \in BOOLEAN
  /\ \A table \in flight \cup {page} :
       DOMAIN table \subseteq RequestIds /\ \A id \in DOMAIN table : table[id] \in Status

FeedInit ==
  /\ TrustInit
  /\ cache = <<>> /\ last = 0 /\ whole = TRUE
  /\ faults = 0 /\ restarts = 0
  /\ flight = {} /\ page = [id \in {} |-> "Pending"]

-----------------------------------------------------------------------------
\* A request in whose name nobody can decide is like one nobody decides on: the
\* requests here have an owner.
Transact ==
  /\ TrustNext
  /\ \A id \in 0 .. nextRequestId' - 1 : requests'[id].owner # ZeroAddress
  /\ UNCHANGED <<cache, last, faults, restarts, whole, flight, page>>

Fault(n) ==
  /\ faults' = faults + n /\ faults' <= MaxFaults
  /\ Cardinality(flight) + n <= MaxFlight

ChainReset ==
  /\ Fault(1)
  /\ requests' = [id \in RequestIds |-> EmptyRequest]
  /\ nextRequestId' = 0 /\ log' = <<>>
  /\ whole' = (whole /\ last = 0)
  /\ UNCHANGED <<cache, last, restarts, flight, page>>

\* The k-th of a set of positions.
Before(positions, i) == Cardinality({j \in positions : j < i})
Nth(positions, k) == CHOOSE i \in positions : Before(positions, i) = k - 1

\* get_logs of one type of event, which may fail by itself.
Logs(name, first, failed) ==
  LET found == {i \in first .. Len(log) : log[i].event = name /\ name \notin failed}
  IN  [k \in 1 .. Cardinality(found) |-> log[Nth(found, k)]]

\* Faulty variant: the requests come last.
FetchRequestsLast(first, failed) ==
  Logs("OnboardingApproved", first, failed) \o Logs("OnboardingRejected", first, failed)
    \o Logs("OnboardingRevoked", first, failed) \o Logs("OnboardingRequested", first, failed)

\* The events are appended type by type, not in the order of the chain.
Fetch(first, failed) ==
  Logs("OnboardingRequested", first, failed) \o Logs("OnboardingApproved", first, failed)
    \o Logs("OnboardingRejected", first, failed) \o Logs("OnboardingRevoked", first, failed)

\* What has failed is not fetched again.  A position in the log stands for its block.
Poll ==
  /\ last < Len(log)
  /\ \E failed \in SUBSET EventNames :
       /\ Fault(Cardinality(failed))
       /\ cache' = cache \o Fetch(last + 1, failed)
       /\ whole' = (whole /\ Fetch(last + 1, failed) = Fetch(last + 1, {}))
  /\ last' = Len(log)
  /\ UNCHANGED <<trustVars, restarts, flight, page>>

\* Faulty variant: the new process goes on from the block of the old one.
RestartFromLast ==
  /\ restarts < MaxRestarts
  /\ restarts' = restarts + 1
  /\ cache' = <<>> /\ whole' = TRUE
  /\ UNCHANGED <<trustVars, last, faults, flight, page>>

Restart ==
  /\ restarts < MaxRestarts
  /\ restarts' = restarts + 1
  /\ cache' = <<>> /\ last' = 0 /\ whole' = TRUE
  /\ UNCHANGED <<trustVars, faults, flight, page>>

RecentEvents ==
  SubSeq(cache, IF Len(cache) > Limit THEN Len(cache) - Limit + 1 ELSE 1, Len(cache))

\* updateTable: the last event of a request tells its status.
Shown(events) == {events[i].requestId : i \in DOMAIN events}

StatusOf == [OnboardingRequested |-> "Pending",  OnboardingApproved |-> "Approved",
             OnboardingRejected  |-> "Rejected", OnboardingRevoked  |-> "Revoked"]

View(events) ==
  [id \in Shown(events) |->
     LET lastOf == CHOOSE i \in DOMAIN events :
                     /\ events[i].requestId = id
                     /\ \A j \in i + 1 .. Len(events) : events[j].requestId # id
     IN  StatusOf[events[lastOf].event]]

-----------------------------------------------------------------------------
(***************************************************************************)
(* The browser.  Of an answer the model keeps the table that it makes.     *)
(***************************************************************************)
Ask ==
  /\ Cardinality(flight) + faults < MaxFlight
  /\ flight' = flight \cup {View(RecentEvents)}
  /\ UNCHANGED <<trustVars, cache, last, faults, restarts, whole, page>>

Receive(table) ==
  /\ table \in flight
  /\ flight' = flight \ {table}
  /\ page' = table
  /\ UNCHANGED <<trustVars, cache, last, faults, restarts, whole>>

\* An error replaces the message, not the table.
ReceiveError(table) ==
  /\ UiMayFail /\ table \in flight
  /\ flight' = flight \ {table}
  /\ UNCHANGED <<trustVars, cache, last, faults, restarts, whole, page>>

-----------------------------------------------------------------------------
FeedNext ==
  \/ Transact \/ ChainReset \/ Poll \/ Restart \/ Ask
  \/ \E table \in flight : Receive(table) \/ ReceiveError(table)

FeedSpec == FeedInit /\ [][FeedNext]_feedVars

\* Gateway and browser go on polling, and not every answer is lost.
FeedFairSpec ==
  /\ FeedSpec
  /\ WF_feedVars(Poll) /\ WF_feedVars(Ask)
  /\ SF_feedVars(\E table \in flight : Receive(table))

-----------------------------------------------------------------------------
(***************************************************************************)
(* Properties.                                                             *)
(***************************************************************************)
\* Whatever the gateway answers is right as of its last poll, for every request
\* it says anything of: neither the order by type nor the events that have left
\* the window make it show a status that was already out of date then.  It takes
\* that no call for events has failed and the chain has not been lost meanwhile.
AnswersAsOfLastPoll ==
  whole =>
    \A id \in Shown(RecentEvents) : View(RecentEvents)[id] = View(SubSeq(log, 1, last))[id]

\* Answers that overtake each other may take the page back in time, but once the
\* chain rests it comes to show requests, if there are any, and each of them with
\* the status it has.  A restart of the gateway mends what failed calls and lost
\* chains have done to it and to the page.
PageConverges ==
  <>[]whole =>
    <>[](/\ DOMAIN page = {} <=> log = <<>>
         /\ \A id \in DOMAIN page : page[id] = requests[id].status)

\* Two things the documents suggest and the code does not do.  The newest event
\* need not be among the recent ones ("gli ultimi eventi emessi sulla chain",
\* gateway/README.md:12); and when the events of one type could not be fetched,
\* or the chain was lost, what the gateway answers stays wrong until somebody
\* restarts it ("in tempo reale", ui/README.md:12).
NewestIsRecent ==
  log # <<>> /\ last = Len(log) =>
    \E i \in DOMAIN RecentEvents : RecentEvents[i] = log[Len(log)]

CaughtUpIsTrue ==
  last = Len(log) =>
    \A id \in Shown(RecentEvents) : View(RecentEvents)[id] = requests[id].status
=============================================================================
