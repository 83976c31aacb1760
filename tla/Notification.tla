---------------------------- MODULE Notification ----------------------------
(***************************************************************************)
(* The notification service, notification/app/chain_listener.py: a loop    *)
(* that polls the chain for OnboardingRequested events, mails the owner of *)
(* each and keeps the last block processed in a checkpoint file.           *)
(*                                                                         *)
(* The body of the loop has no await, so nothing in the process interleaves*)
(* with it; but the chain moves, calls fail and the process can be killed  *)
(* between any two steps.  The node mines one transaction per block, so a  *)
(* block is what its transaction did: a request for an owner, or something *)
(* else.  Destroying the node starts the chain again from nothing.         *)
(***************************************************************************)
EXTENDS Integers, Sequences

CONSTANTS
  Known,         \* owners with an address in owners.json
  Unknown,       \* owners without
  NoRequest,     \* content of a block with no OnboardingRequested
  Garbage,       \* content of a checkpoint file that is missing or half written
  MaxBlocks,     \* bound of the model: length of a chain
  MaxResets,     \* bound of the model: times the node is destroyed
  MaxRestarts,   \* bound of the model: times the service is restarted
  RpcMayFail, SmtpMayFail, SaveMayFail

ASSUME NotificationAssumption ==
  /\ {MaxBlocks, MaxResets, MaxRestarts} \subseteq Nat
  /\ Garbage \notin Nat /\ NoRequest \notin Known \cup Unknown
  /\ {RpcMayFail, SmtpMayFail, SaveMayFail} \subseteq BOOLEAN

VARIABLES
  chain,     \* the blocks mined, genesis excluded
  resets,    \* how many chains there have been before this one
  phase,     \* where the loop is
  last,      \* last_processed_block
  to,        \* the head read by this poll
  batch,     \* blocks of the events fetched and not yet processed
  origin,    \* the chain they were fetched from, as a value of `resets`
  file,      \* the checkpoint file
  mails,     \* block of this chain -> mails sent about it (2 stands for more)
  lost,      \* blocks of this chain whose mail the SMTP server did not take
  restarts,  \* how many times the service has been restarted
  clean      \* has every round come to its end with the checkpoint saved? (history)

vars == <<chain, resets, phase, last, to, batch, origin, file, mails, lost, restarts,
          clean>>

Blocks == 1 .. MaxBlocks

TypeOK ==
  /\ chain \in Seq(Known \cup Unknown \cup {NoRequest}) /\ Len(chain) <= MaxBlocks
  /\ resets \in 0 .. MaxResets
  /\ phase \in {"unloaded", "idle", "fetch", "process", "write"}
  /\ last \in 0 .. MaxBlocks
  /\ to \in 0 .. MaxBlocks
  /\ batch \in SUBSET Blocks
  /\ origin \in 0 .. MaxResets
  /\ file \in (0 .. MaxBlocks) \cup {Garbage}
  /\ mails \in [Blocks -> 0 .. 2]
  /\ lost \in SUBSET Blocks
  /\ restarts \in 0 .. MaxRestarts
  /\ clean \in BOOLEAN

Init ==
  /\ chain = <<>> /\ resets = 0
  /\ phase = "unloaded" /\ last = 0 /\ to = 0 /\ batch = {} /\ origin = 0
  /\ file = Garbage
  /\ mails = [b \in Blocks |-> 0] /\ lost = {}
  /\ restarts = 0 /\ clean = TRUE

ListenerOnly == UNCHANGED <<chain, resets, restarts>>

BetweenRounds == phase \in {"unloaded", "idle"}

-----------------------------------------------------------------------------
(***************************************************************************)
(* One round of poll_events.  An exception anywhere ends the round.        *)
(***************************************************************************)
LoadContract ==
  /\ phase = "unloaded"
  /\ phase' = "idle"
  /\ ListenerOnly /\ UNCHANGED <<last, to, batch, origin, file, mails, lost, clean>>

\* Faulty variant: no check for a reset.
ReadHeadNoReset ==
  /\ phase = "idle" /\ last < Len(chain)
  /\ to' = Len(chain) /\ phase' = "fetch"
  /\ ListenerOnly /\ UNCHANGED <<last, batch, origin, file, mails, lost, clean>>

\* A head below the checkpoint means that the chain was reset.
ReadHead ==
  /\ phase = "idle" /\ last # Len(chain)
  /\ last' = IF last > Len(chain) THEN 0 ELSE last
  /\ to' = Len(chain)
  /\ phase' = IF last' < to' THEN "fetch" ELSE "idle"
  /\ ListenerOnly /\ UNCHANGED <<batch, origin, file, mails, lost, clean>>

RequestBlocks(first, final) ==
  {b \in first .. final : b \in DOMAIN chain /\ chain[b] # NoRequest}

\* Faulty variants: the range begins or ends one block off.
FetchFromLast ==
  /\ phase = "fetch"
  /\ batch' = RequestBlocks(last, to) /\ origin' = resets
  /\ phase' = "process"
  /\ ListenerOnly /\ UNCHANGED <<last, to, file, mails, lost, clean>>

FetchBeforeTo ==
  /\ phase = "fetch"
  /\ batch' = RequestBlocks(last + 1, to - 1) /\ origin' = resets
  /\ phase' = "process"
  /\ ListenerOnly /\ UNCHANGED <<last, to, file, mails, lost, clean>>

Fetch ==
  /\ phase = "fetch"
  /\ batch' = RequestBlocks(last + 1, to) /\ origin' = resets
  /\ phase' = "process"
  /\ ListenerOnly /\ UNCHANGED <<last, to, file, mails, lost, clean>>

FetchFails ==
  /\ RpcMayFail /\ phase = "fetch"
  /\ phase' = "idle"
  /\ ListenerOnly /\ UNCHANGED <<last, to, batch, origin, file, mails, lost, clean>>

Mail(b) ==
  \/ /\ mails' = [mails EXCEPT ![b] = IF @ < 2 THEN @ + 1 ELSE 2]
     /\ UNCHANGED lost
  \/ /\ SmtpMayFail
     /\ lost' = lost \cup {b}
     /\ UNCHANGED mails

\* _process_event and send_onboarding_email swallow every exception.  A mail
\* about a block of a chain that is gone is not counted.
ProcessEvent ==
  /\ phase = "process"
  /\ \E b \in batch :
       /\ \A c \in batch : b <= c
       /\ batch' = batch \ {b}
       /\ IF origin = resets /\ chain[b] \in Known
          THEN Mail(b) ELSE UNCHANGED <<mails, lost>>
  /\ ListenerOnly /\ UNCHANGED <<phase, last, to, origin, file, clean>>

\* _save_checkpoint: opening the file empties it; writing fills it.  A failure
\* of either leaves last_processed_block as it was.
OpenCheckpoint ==
  /\ phase = "process" /\ batch = {}
  /\ \/ phase' = "write" /\ file' = Garbage /\ UNCHANGED clean
     \/ SaveMayFail /\ phase' = "idle" /\ clean' = FALSE /\ UNCHANGED file
  /\ ListenerOnly /\ UNCHANGED <<last, to, batch, origin, mails, lost>>

WriteCheckpoint ==
  /\ phase = "write"
  /\ phase' = "idle"
  /\ \/ file' = to /\ last' = to /\ UNCHANGED clean
     \/ SaveMayFail /\ clean' = FALSE /\ UNCHANGED <<file, last>>
  /\ ListenerOnly /\ UNCHANGED <<to, batch, origin, mails, lost>>

-----------------------------------------------------------------------------
(***************************************************************************)
(* Restarts, and the chain.                                                *)
(***************************************************************************)
LoadCheckpoint == IF file = Garbage THEN 0 ELSE file

\* Faulty variant: without a checkpoint, start at the head.
RestartAtHead ==
  /\ restarts < MaxRestarts
  /\ clean' = (clean /\ BetweenRounds)
  /\ restarts' = restarts + 1
  /\ phase' = "unloaded" /\ batch' = {}
  /\ last' = IF file = Garbage THEN Len(chain) ELSE file
  /\ UNCHANGED <<chain, resets, to, origin, file, mails, lost>>

\* A crash, at any point; stop() lets the round finish, so that it comes between
\* two rounds.
Restart ==
  /\ restarts < MaxRestarts
  /\ clean' = (clean /\ BetweenRounds)
  /\ restarts' = restarts + 1
  /\ phase' = "unloaded" /\ batch' = {}
  /\ last' = LoadCheckpoint
  /\ UNCHANGED <<chain, resets, to, origin, file, mails, lost>>

Mine(content) ==
  /\ Len(chain) < MaxBlocks
  /\ chain' = Append(chain, content)
  /\ UNCHANGED <<resets, phase, last, to, batch, origin, file, mails, lost, restarts, clean>>

ChainReset ==
  /\ resets < MaxResets
  /\ resets' = resets + 1
  /\ chain' = <<>>
  /\ clean' = (clean /\ BetweenRounds)
  /\ mails' = [b \in Blocks |-> 0] /\ lost' = {}
  /\ UNCHANGED <<phase, last, to, batch, origin, file, restarts>>

-----------------------------------------------------------------------------
Round == \/ LoadContract \/ ReadHead \/ Fetch \/ ProcessEvent
         \/ OpenCheckpoint \/ WriteCheckpoint

Next ==
  \/ Round \/ FetchFails \/ Restart \/ ChainReset
  \/ \E content \in Known \cup Unknown \cup {NoRequest} : Mine(content)

Spec == Init /\ [][Next]_vars

\* The loop goes round every poll_interval seconds, and neither the RPC nor the
\* disk fails every single time.
Opened == OpenCheckpoint /\ phase' = "write"
Written == WriteCheckpoint /\ file' = to

FairSpec ==
  /\ Spec
  /\ WF_vars(Round)
  /\ SF_vars(Fetch) /\ SF_vars(Opened) /\ SF_vars(Written)

-----------------------------------------------------------------------------
(***************************************************************************)
(* Properties.                                                             *)
(***************************************************************************)
\* b holds a request whose owner has nevertheless not been dealt with.
Unanswered(b) ==
  b \in DOMAIN chain /\ chain[b] \in Known /\ mails[b] = 0 /\ b \notin lost

\* The checkpoint never runs ahead of the work, in memory or in the file: as long
\* as the chain has not been reset, a request below it has been mailed (or its
\* mail was refused), whatever crashed or failed in between.
NothingSkipped ==
  resets = 0 =>
    \A b \in Blocks : Unanswered(b) => b > last /\ (file # Garbage => b > file)

\* Every request of a known owner is eventually answered with a mail, unless a
\* reset takes its block away.
EveryRequestNotified ==
  \A b \in Blocks :
    (b \in DOMAIN chain /\ chain[b] \in Known) ~> (mails[b] > 0 \/ b \in lost \/ resets > 0)

\* "Idempotenza" (notification/README.md:7): no owner is mailed twice about a
\* request, however often the service is stopped and started, as long as no
\* round is cut short and every checkpoint is saved.  A crash between a mail and
\* the checkpoint does send the mail again.
NoDuplicates == clean => \A b \in Blocks : mails[b] <= 1

\* Resets do not leave the listener "bloccarsi aspettando blocchi futuri
\* inesistenti" (PROGRESS.md:39): once the chain rests, it reaches the head.
\* (It may have taken a chain that has grown quickly for the old one, and then
\* the requests of its first blocks are passed over.)
CatchesUp == <>[](last = Len(chain))
=============================================================================
