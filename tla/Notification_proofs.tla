------------------------- MODULE Notification_proofs -------------------------
(***************************************************************************)
(* Proofs that the checkpoint never runs ahead of the work on a chain that *)
(* is not reset, and never falls behind it when rounds are not cut short:  *)
(* for any number of blocks, owners, restarts and failures.                *)
(***************************************************************************)
EXTENDS Notification, TLAPS

USE NotificationAssumption

LEMMA TypeInit == Init => TypeOK
  BY DEF Init, TypeOK, Blocks

LEMMA TypeNext == TypeOK /\ [Next]_vars => TypeOK'
  <1> SUFFICES ASSUME TypeOK, [Next]_vars PROVE TypeOK'
    OBVIOUS
  <1> USE DEF TypeOK, ListenerOnly
  <1>1. CASE LoadContract
    BY <1>1 DEF LoadContract
  <1>2. CASE ReadHead
    BY <1>2 DEF ReadHead
  <1>3. CASE Fetch
    BY <1>3 DEF Fetch, RequestBlocks, Blocks
  <1>4. CASE FetchFails
    BY <1>4 DEF FetchFails
  <1>5. CASE ProcessEvent
    BY <1>5 DEF ProcessEvent, Mail
  <1>6. CASE OpenCheckpoint
    BY <1>6 DEF OpenCheckpoint
  <1>7. CASE WriteCheckpoint
    BY <1>7 DEF WriteCheckpoint
  <1>8. CASE Restart
    BY <1>8 DEF Restart, LoadCheckpoint, BetweenRounds
  <1>9. CASE ChainReset
    BY <1>9 DEF ChainReset, BetweenRounds
  <1>10. ASSUME NEW content \in Known \cup Unknown \cup {NoRequest}, Mine(content)
         PROVE  TypeOK'
    BY <1>10 DEF Mine
  <1>11. CASE UNCHANGED vars
    BY <1>11 DEF vars
  <1> QED  BY <1>1, <1>2, <1>3, <1>4, <1>5, <1>6, <1>7, <1>8, <1>9, <1>10, <1>11
           DEF Next, Round

\* The service's variables have their types in every reachable state.
THEOREM NotificationTypeCorrect == Spec => []TypeOK
  BY TypeInit, TypeNext, PTL DEF Spec

-----------------------------------------------------------------------------
(***************************************************************************)
(* The checkpoint.  While a round is under way, what it has not dealt with *)
(* yet is in its batch; when it comes to writing, nothing is left up to    *)
(* the block it writes.                                                    *)
(***************************************************************************)
Behind ==
  /\ last <= Len(chain)
  /\ file # Garbage => file <= Len(chain)
  /\ phase \in {"fetch", "process", "write"} => to <= Len(chain)

InBatch ==
  phase = "process" => \A b \in Blocks : Unanswered(b) /\ b <= to => b \in batch

AllDone ==
  phase = "write" => \A b \in Blocks : Unanswered(b) => b > to

\* Without a reset; the events of a batch come from this chain or an earlier one.
CheckpointInv ==
  /\ TypeOK
  /\ NothingSkipped
  /\ origin <= resets
  /\ resets = 0 => Behind /\ InBatch /\ AllDone

LEMMA CheckpointInit == Init => CheckpointInv
  <1> SUFFICES ASSUME Init PROVE CheckpointInv
    OBVIOUS
  <1>1. \A b \in Blocks : ~Unanswered(b)
    BY DEF Init, Unanswered
  <1> QED  BY <1>1, TypeInit
           DEF Init, CheckpointInv, NothingSkipped, Behind, InBatch, AllDone

\* A step that mines nothing and takes no mail back leaves no new work.
LEMMA NoNewWork ==
  ASSUME UNCHANGED chain, TypeOK, TypeOK',
         \A b \in Blocks : mails[b] > 0 => mails'[b] > 0,
         lost \subseteq lost'
  PROVE  \A b \in Blocks : Unanswered(b)' => Unanswered(b)
  <1> TAKE b \in Blocks
  <1>1. mails[b] \in 0 .. 2 /\ mails'[b] \in 0 .. 2
    BY DEF TypeOK
  <1> QED  BY <1>1 DEF Unanswered

LEMMA OriginNext ==
  TypeOK /\ origin <= resets /\ [Next]_vars => origin' <= resets' /\ resets <= resets'
  BY DEF TypeOK, Next, Round, LoadContract, ReadHead, Fetch, FetchFails, ProcessEvent,
         OpenCheckpoint, WriteCheckpoint, Restart, ChainReset, Mine, ListenerOnly, vars

LEMMA CheckpointNext == CheckpointInv /\ [Next]_vars => CheckpointInv'
  <1> SUFFICES ASSUME CheckpointInv, [Next]_vars, resets' = 0
               PROVE  (NothingSkipped /\ Behind /\ InBatch /\ AllDone)'
    BY TypeNext, OriginNext DEF CheckpointInv, NothingSkipped
  <1>1. TypeOK /\ TypeOK'
    BY TypeNext DEF CheckpointInv
  <1>2. resets = 0 /\ origin = 0
    BY <1>1, OriginNext DEF CheckpointInv, TypeOK
  <1> USE DEF CheckpointInv, NothingSkipped, Behind, InBatch, AllDone, ListenerOnly
  <1>3. ASSUME UNCHANGED <<chain, mails, lost>>
        PROVE  \A b \in Blocks : Unanswered(b)' <=> Unanswered(b)
    BY <1>3 DEF Unanswered
  <1>4. CASE LoadContract
    BY <1>1, <1>2, <1>3, <1>4 DEF LoadContract
  <1>5. CASE ReadHead
    BY <1>1, <1>2, <1>3, <1>5 DEF ReadHead, TypeOK
  <1>6. CASE Fetch
    <2>1. \A b \in Blocks : Unanswered(b) /\ b <= to => b \in batch'
      <3> SUFFICES ASSUME NEW b \in Blocks, Unanswered(b), b <= to PROVE b \in batch'
        OBVIOUS
      <3>1. b > last /\ b \in DOMAIN chain /\ chain[b] # NoRequest
        BY <1>2 DEF Unanswered
      <3> QED  BY <1>1, <1>2, <1>6, <3>1 DEF Fetch, RequestBlocks, Blocks, TypeOK
    <2> QED  BY <1>1, <1>2, <1>3, <1>6, <2>1 DEF Fetch
  <1>7. CASE FetchFails
    BY <1>1, <1>2, <1>3, <1>7 DEF FetchFails
  <1>8. CASE ProcessEvent
    <2>1. PICK b \in batch :
            /\ batch' = batch \ {b}
            /\ IF origin = resets /\ chain[b] \in Known
               THEN Mail(b) ELSE UNCHANGED <<mails, lost>>
      BY <1>8 DEF ProcessEvent
    <2>2. b \in Blocks /\ mails \in [Blocks -> 0 .. 2]
      BY <1>1 DEF TypeOK
    <2>3. UNCHANGED <<chain, resets, phase, last, to, origin, file>> /\ phase = "process"
      BY <1>8 DEF ProcessEvent
    <2>4. /\ \A c \in Blocks : mails[c] > 0 => mails'[c] > 0
          /\ lost \subseteq lost'
      BY <2>1, <2>2 DEF Mail
    <2>5. \A c \in Blocks : Unanswered(c)' => Unanswered(c)
      BY <1>1, <2>3, <2>4, NoNewWork
    <2>6. ~Unanswered(b)'
      <3>1. CASE chain[b] \in Known
        <4>1. Mail(b)
          BY <1>2, <2>1, <3>1
        <4> QED  BY <2>2, <4>1 DEF Mail, Unanswered
      <3>2. CASE chain[b] \notin Known
        BY <2>3, <3>2 DEF Unanswered
      <3> QED  BY <3>1, <3>2
    <2> QED  BY <1>1, <1>2, <2>1, <2>3, <2>5, <2>6
  <1>9. CASE OpenCheckpoint
    BY <1>1, <1>2, <1>3, <1>9 DEF OpenCheckpoint, TypeOK, Blocks
  <1>10. CASE WriteCheckpoint
    BY <1>1, <1>2, <1>3, <1>10 DEF WriteCheckpoint, TypeOK, Blocks
  <1>11. CASE Restart
    BY <1>1, <1>2, <1>3, <1>11 DEF Restart, LoadCheckpoint, TypeOK, Blocks
  <1>12. CASE ChainReset
    BY <1>1, <1>2, <1>12 DEF ChainReset, TypeOK
  <1>13. ASSUME NEW content \in Known \cup Unknown \cup {NoRequest}, Mine(content)
         PROVE  (NothingSkipped /\ Behind /\ InBatch /\ AllDone)'
    <2>1. /\ chain' = Append(chain, content) /\ Len(chain') = Len(chain) + 1
          /\ \A b \in DOMAIN chain : chain'[b] = chain[b]
      BY <1>1, <1>13 DEF Mine, TypeOK
    <2>2. UNCHANGED <<phase, last, to, batch, file, mails, lost>>
      BY <1>13 DEF Mine
    <2>3. \A b \in Blocks : Unanswered(b)' => Unanswered(b) \/ b = Len(chain) + 1
      BY <1>1, <2>1, <2>2 DEF Unanswered, TypeOK
    <2> QED  BY <1>1, <1>2, <2>1, <2>2, <2>3 DEF TypeOK, Blocks
  <1>14. CASE UNCHANGED vars
    BY <1>1, <1>2, <1>3, <1>14 DEF vars
  <1> QED  BY <1>4, <1>5, <1>6, <1>7, <1>8, <1>9, <1>10, <1>11, <1>12, <1>13, <1>14
           DEF Next, Round

\* As long as the chain is not reset, a request up to the checkpoint, in memory or
\* in the file, has been dealt with: no crash, failed call or half-written file
\* makes poll_events pass over one.
THEOREM NothingSkippedCorrect == Spec => []NothingSkipped
  <1>1. CheckpointInv => NothingSkipped
    BY DEF CheckpointInv
  <1>2. CheckpointInv /\ [Next]_vars => CheckpointInv'
    BY CheckpointNext
  <1> QED  BY CheckpointInit, <1>1, <1>2, PTL DEF Spec

-----------------------------------------------------------------------------
(***************************************************************************)
(* No duplicates.  While every round has been ended, a block that has been *)
(* mailed about lies below the checkpoint, in memory and in the file, and  *)
(* both lie on the present chain; during a round, what is still in the     *)
(* batch has not been mailed about.                                        *)
(***************************************************************************)
Mailed(b) == mails[b] > 0

BelowCheckpoint(b) ==
  b <= last /\ b <= LoadCheckpoint /\ last <= Len(chain) /\ LoadCheckpoint <= Len(chain)

Restful ==
  phase \in {"unloaded", "idle", "fetch"} =>
    \A b \in Blocks : Mailed(b) => BelowCheckpoint(b)

RoundIsOfThisChain ==
  /\ phase \in {"fetch", "process", "write"} => to <= Len(chain)
  /\ phase = "fetch" => last < to
  /\ phase = "process" => origin = resets

BatchIsNew ==
  phase = "process" =>
    /\ \A b \in batch : b <= to
    /\ \A b \in Blocks : Mailed(b) => b <= to /\ b \notin batch

UpToHead ==
  phase = "write" => \A b \in Blocks : Mailed(b) => b <= to

CleanInv == Restful /\ RoundIsOfThisChain /\ BatchIsNew /\ UpToHead /\ NoDuplicates

DuplicatesInv == TypeOK /\ (clean => CleanInv)

LEMMA DuplicatesInit == Init => DuplicatesInv
  <1> SUFFICES ASSUME Init PROVE DuplicatesInv
    OBVIOUS
  <1>1. \A b \in Blocks : mails[b] = 0
    BY DEF Init
  <1> QED  BY <1>1, TypeInit
           DEF Init, DuplicatesInv, CleanInv, Restful, RoundIsOfThisChain, BatchIsNew,
               UpToHead, NoDuplicates, Mailed

LEMMA DuplicatesNext == DuplicatesInv /\ [Next]_vars => DuplicatesInv'
  <1> SUFFICES ASSUME DuplicatesInv, [Next]_vars, clean' = TRUE PROVE CleanInv'
    BY TypeNext DEF DuplicatesInv, TypeOK
  <1>1. TypeOK /\ TypeOK'
    BY TypeNext DEF DuplicatesInv
  <1>2. clean = TRUE
    BY <1>1 DEF TypeOK, Next, Round, LoadContract, ReadHead, Fetch, FetchFails, ProcessEvent,
               OpenCheckpoint, WriteCheckpoint, Restart, ChainReset, Mine, vars
  <1>3. CleanInv
    BY <1>2 DEF DuplicatesInv
  <1> USE DEF CleanInv, Restful, RoundIsOfThisChain, BatchIsNew, UpToHead, NoDuplicates,
              BelowCheckpoint, LoadCheckpoint, ListenerOnly
  <1>4. CASE LoadContract
    BY <1>1, <1>3, <1>4 DEF LoadContract, Mailed
  <1>5. CASE ReadHead
    BY <1>1, <1>3, <1>5 DEF ReadHead, Mailed, TypeOK, Blocks
  <1>6. CASE Fetch
    <2>1. \A b \in batch' : b \in Blocks /\ b > last /\ b <= to
      BY <1>1, <1>6 DEF Fetch, RequestBlocks, TypeOK, Blocks
    <2>2. \A b \in Blocks : Mailed(b) => b <= last
      BY <1>3, <1>6 DEF Fetch
    <2>3. UNCHANGED <<last, to, file, mails, clean, chain, resets>> /\ origin' = resets
      BY <1>6 DEF Fetch
    <2>4. phase = "fetch" /\ phase' = "process"
      BY <1>6 DEF Fetch
    <2> QED  BY <1>1, <1>2, <1>3, <2>1, <2>2, <2>3, <2>4 DEF Mailed, TypeOK, Blocks
  <1>7. CASE FetchFails
    BY <1>1, <1>3, <1>7 DEF FetchFails, Mailed
  <1>8. CASE ProcessEvent
    <2>1. PICK b \in batch :
            /\ batch' = batch \ {b}
            /\ IF origin = resets /\ chain[b] \in Known
               THEN Mail(b) ELSE UNCHANGED <<mails, lost>>
      BY <1>8 DEF ProcessEvent
    <2>2. b \in Blocks /\ mails \in [Blocks -> 0 .. 2]
      BY <1>1 DEF TypeOK
    <2>3. UNCHANGED <<chain, resets, phase, last, to, origin, file, clean>> /\ phase = "process"
      BY <1>8 DEF ProcessEvent
    <2>4. b <= to /\ mails[b] = 0
      BY <1>3, <2>2, <2>3 DEF Mailed
    <2>5. \A c \in Blocks : c # b => mails'[c] = mails[c]
      BY <2>1, <2>2 DEF Mail
    <2>6. mails'[b] \in {0, 1}
      BY <2>1, <2>2, <2>4 DEF Mail
    <2>7. \A c \in Blocks : Mailed(c)' => c = b \/ Mailed(c)
      BY <2>5 DEF Mailed
    <2>8. \A c \in Blocks : mails'[c] <= 1
      BY <1>2, <1>3, <2>5, <2>6
    <2> QED  BY <1>3, <2>1, <2>3, <2>4, <2>7, <2>8
  <1>9. CASE OpenCheckpoint
    BY <1>1, <1>2, <1>3, <1>9 DEF OpenCheckpoint, Mailed, TypeOK
  <1>10. CASE WriteCheckpoint
    BY <1>1, <1>2, <1>3, <1>10 DEF WriteCheckpoint, Mailed, TypeOK, Blocks
  <1>11. CASE Restart
    BY <1>1, <1>2, <1>3, <1>11 DEF Restart, BetweenRounds, Mailed, TypeOK, Blocks
  <1>12. CASE ChainReset
    <2>1. \A b \in Blocks : mails'[b] = 0
      BY <1>12 DEF ChainReset
    <2>2. phase' \in {"unloaded", "idle"}
      BY <1>1, <1>2, <1>12 DEF ChainReset, BetweenRounds, TypeOK
    <2> QED  BY <2>1, <2>2 DEF Mailed
  <1>13. ASSUME NEW content \in Known \cup Unknown \cup {NoRequest}, Mine(content)
         PROVE  CleanInv'
    <2>1. Len(chain') = Len(chain) + 1 /\ Len(chain) \in Nat
      BY <1>1, <1>13 DEF Mine, TypeOK
    <2>2. UNCHANGED <<phase, last, to, batch, file, mails, resets, origin, clean>>
      BY <1>13 DEF Mine
    <2> QED  BY <1>1, <1>3, <2>1, <2>2 DEF Mailed, TypeOK, Blocks
  <1>14. CASE UNCHANGED vars
    BY <1>1, <1>3, <1>14 DEF vars, Mailed
  <1> QED  BY <1>4, <1>5, <1>6, <1>7, <1>8, <1>9, <1>10, <1>11, <1>12, <1>13, <1>14
           DEF Next, Round

\* As long as no round is cut short and every checkpoint is saved, nobody is
\* mailed twice about one request, whatever calls fail, however often the
\* service is restarted between rounds and the chain reset.
THEOREM NoDuplicatesCorrect == Spec => []NoDuplicates
  <1>1. DuplicatesInv => NoDuplicates
    BY DEF DuplicatesInv, CleanInv, NoDuplicates
  <1> QED  BY DuplicatesInit, DuplicatesNext, <1>1, PTL DEF Spec
=============================================================================
