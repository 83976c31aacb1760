----------------------------- MODULE TrustConfig -----------------------------
(***************************************************************************)
(* The allowlist of trusted stacks, from the form that edits it to the     *)
(* service that obeys it: the pages /trust of ui/app/main.py, the routes   *)
(* /trust/stacks of the gateway, the file trusted-devices.json as          *)
(* gateway/app/trust_config_client.py rewrites it, and loadConfig of       *)
(* chain/scripts/auto-approve-trusted.ts, which reads it at each request.  *)
(*                                                                         *)
(* The gateway's handlers hold no await, so it serves one call at a time;  *)
(* but it may be killed, and the service may read, between any two of its  *)
(* file operations.  A form gives up after 5 s, and its call may run all   *)
(* the same.  A device stands for those that the same prefixes match; a    *)
(* missing file is an empty list, for both readers.                        *)
(***************************************************************************)
EXTENDS FiniteSets

CONSTANTS
  Forms,        \* submissions of the forms of /trust; a retry is another one
  StackIds, Devices,
  Stacks,       \* the stacks that may be asked to be added
  Start,        \* the stacks on file at the start
  Garbage,      \* content of a file that has been opened and not yet written
  Unlisted,     \* in place of the devices of a stack that is not on file
  DiskMayFail,  \* may reads, writes and the replacement raise?
  MayCrash      \* may the gateway be killed?

StackType == [stackId : StackIds, devices : SUBSET Devices]

ASSUME TrustConfigAssumption ==
  /\ Stacks \subseteq StackType /\ Start \subseteq StackType
  /\ \A content \in SUBSET StackType : content # Garbage
  /\ \A devices \in SUBSET Devices : devices # Unlisted
  /\ {DiskMayFail, MayCrash} \subseteq BOOLEAN

VARIABLES
  form,     \* form -> "new", "sent", then what the page shows
  asked,    \* form -> what it asks of the gateway
  queued,   \* forms whose call the gateway has not begun to serve
  handler,  \* the call being served: whose it is and the list to be saved
  temp,     \* the temporary file
  file,     \* trusted-devices.json
  request,  \* device -> where its onboarding request is
  matched   \* devices the file has matched since they were requested (history)

gatewayVars == <<queued, handler, temp, file>>
requestVars == <<request, matched>>
vars == <<form, asked, queued, handler, temp, file, request, matched>>

Nothing == [op |-> "none"]
Additions == [op : {"add"}, stack : Stacks]
Removals == [op : {"remove"}, stackId : StackIds]
Idle == [by |-> {}]
Contents == {Garbage} \cup SUBSET StackType

TypeOK ==
  /\ form \in [Forms -> {"new", "sent", "done", "refused", "unavailable"}]
  /\ asked \in [Forms -> {Nothing} \cup Additions \cup Removals]
  /\ queued \in SUBSET Forms
  /\ handler \in {Idle} \cup [by : {{f} : f \in Forms}, stacks : SUBSET StackType]
  /\ temp \in Contents
  /\ file \in Contents
  /\ request \in [Devices -> {"new", "filed", "approving", "approved", "passed over"}]
  /\ matched \in SUBSET Devices

Init ==
  /\ form = [f \in Forms |-> "new"] /\ asked = [f \in Forms |-> Nothing]
  /\ queued = {} /\ handler = Idle
  /\ temp = Garbage /\ file = Start
  /\ request = [d \in Devices |-> "new"] /\ matched = {}

-----------------------------------------------------------------------------
(***************************************************************************)
(* The pages of the user interface.                                        *)
(***************************************************************************)
Submit(f) ==
  /\ form[f] = "new"
  /\ form' = [form EXCEPT ![f] = "sent"]
  /\ \E op \in Additions \cup Removals : asked' = [asked EXCEPT ![f] = op]
  /\ queued' = queued \cup {f}
  /\ UNCHANGED <<handler, temp, file, request, matched>>

\* The answer comes too late for a form that has given up.
Answer(f, shown) == form' = [form EXCEPT ![f] = IF @ = "sent" THEN shown ELSE @]

\* Timed out, or the call never got to the gateway.
GiveUp(f) ==
  /\ form[f] = "sent"
  /\ Answer(f, "unavailable")
  /\ queued' \in {queued, queued \ {f}}
  /\ UNCHANGED <<asked, handler, temp, file, request, matched>>

-----------------------------------------------------------------------------
(***************************************************************************)
(* The gateway: get_config, the check, and _save_config step by step.      *)
(***************************************************************************)
Has(stacks, id) == \E s \in stacks : s.stackId = id

\* A duplicate is answered with 400, an unknown id with 404.
Refused(op) ==
  \/ op.op = "add" /\ Has(file, op.stack.stackId)
  \/ op.op = "remove" /\ ~Has(file, op.stackId)

Edited(op) == IF op.op = "add" THEN file \cup {op.stack}
                               ELSE {s \in file : s.stackId # op.stackId}

Begin(f) == handler = Idle /\ f \in queued /\ queued' = queued \ {f}

Refuse(f) ==
  /\ Begin(f)
  /\ file # Garbage /\ Refused(asked[f])
  /\ Answer(f, "refused")
  /\ UNCHANGED <<asked, handler, temp, file, request, matched>>

\* Faulty variants: no check for a duplicate, the file itself is opened.
OpenAlways(f) ==
  /\ Begin(f)
  /\ file # Garbage
  /\ handler' = [by |-> {f}, stacks |-> Edited(asked[f])]
  /\ temp' = Garbage
  /\ UNCHANGED <<form, asked, file, request, matched>>

OpenInPlace(f) ==
  /\ Begin(f)
  /\ file # Garbage /\ ~Refused(asked[f])
  /\ handler' = [by |-> {f}, stacks |-> Edited(asked[f])]
  /\ temp' = Garbage /\ file' = Garbage
  /\ UNCHANGED <<form, asked, request, matched>>

\* Read, checked and opened in one step: nobody else writes the file.  The
\* temporary file is the process's own; what another has left nobody reads.
Open(f) ==
  /\ Begin(f)
  /\ file # Garbage /\ ~Refused(asked[f])
  /\ handler' = [by |-> {f}, stacks |-> Edited(asked[f])]
  /\ temp' = Garbage
  /\ UNCHANGED <<form, asked, file, request, matched>>

\* Faulty variant: answered before the replacement.
WriteAndAnswer ==
  /\ handler # Idle /\ temp = Garbage
  /\ temp' = handler.stacks
  /\ \E f \in handler.by : Answer(f, "done")
  /\ UNCHANGED <<asked, queued, handler, file, request, matched>>

Write ==
  /\ handler # Idle /\ temp = Garbage
  /\ temp' = handler.stacks
  /\ UNCHANGED <<form, asked, queued, handler, file, request, matched>>

Trusts(content, d) == content # Garbage /\ \E s \in content : d \in s.devices

\* os.replace: whoever opens the file from now on reads the new list.
Replace ==
  /\ handler # Idle /\ temp # Garbage
  /\ file' = temp /\ temp' = Garbage
  /\ handler' = Idle
  /\ \E f \in handler.by : Answer(f, "done")
  /\ matched' = matched \cup {d \in Devices : request[d] = "filed" /\ Trusts(file', d)}
  /\ UNCHANGED <<asked, queued, request>>

\* An exception while reading or saving is answered with 500.
ReadFails(f) ==
  /\ DiskMayFail \/ file = Garbage
  /\ Begin(f)
  /\ Answer(f, "unavailable")
  /\ UNCHANGED <<asked, handler, temp, file, request, matched>>

SaveFails ==
  /\ DiskMayFail /\ handler # Idle
  /\ handler' = Idle
  /\ \E f \in handler.by : Answer(f, "unavailable")
  /\ UNCHANGED <<asked, queued, temp, file, request, matched>>

Crash ==
  /\ MayCrash
  /\ handler' = Idle /\ queued' = {}
  /\ form' = [f \in Forms |-> IF form[f] = "sent" THEN "unavailable" ELSE form[f]]
  /\ UNCHANGED <<asked, temp, file, request, matched>>

-----------------------------------------------------------------------------
(***************************************************************************)
(* Onboarding requests and the service that approves them.                 *)
(***************************************************************************)
FileRequest(d) ==
  /\ request[d] = "new"
  /\ request' = [request EXCEPT ![d] = "filed"]
  /\ matched' = IF Trusts(file, d) THEN matched \cup {d} ELSE matched
  /\ UNCHANGED <<form, asked, queued, handler, temp, file>>

\* Faulty variant: the list as it was when the service started.
HearInitial(d) ==
  /\ request[d] = "filed"
  /\ request' = [request EXCEPT ![d] = IF Trusts(Start, d) THEN "approving" ELSE "passed over"]
  /\ UNCHANGED <<form, asked, queued, handler, temp, file, matched>>

\* The event arrives and the allowlist is read; when that fails, the request is
\* passed over as well.
Hear(d) ==
  /\ request[d] = "filed"
  /\ \E trusted \in {FALSE, Trusts(file, d)} :
       /\ trusted = Trusts(file, d) \/ DiskMayFail
       /\ request' = [request EXCEPT ![d] = IF trusted THEN "approving" ELSE "passed over"]
  /\ UNCHANGED <<form, asked, queued, handler, temp, file, matched>>

\* The transaction is sent, whatever has become of the list meanwhile.
Approve(d) ==
  /\ request[d] = "approving"
  /\ request' = [request EXCEPT ![d] = "approved"]
  /\ UNCHANGED <<form, asked, queued, handler, temp, file, matched>>

-----------------------------------------------------------------------------
Serve(f) == Refuse(f) \/ Open(f) \/ ReadFails(f)

Next ==
  \/ \E f \in Forms : Submit(f) \/ GiveUp(f) \/ Serve(f)
  \/ Write \/ Replace \/ SaveFails \/ Crash
  \/ \E d \in Devices : FileRequest(d) \/ Hear(d) \/ Approve(d)

Spec == Init /\ [][Next]_vars

-----------------------------------------------------------------------------
(***************************************************************************)
(* Properties.                                                             *)
(***************************************************************************)
\* The stacks on file are a list to which stacks are added, under ids it does
\* not have, and from which they are removed, one at a time: no crash, failed
\* write or late call ever shows a reader anything in between.
listed ==
  [id \in StackIds |->
     IF file # Garbage /\ Has(file, id)
     THEN UNION {s.devices : s \in {t \in file : t.stackId = id}}
     ELSE Unlisted]

List == INSTANCE Allowlist

ImplementsAllowlist == List!Spec

\* Somebody has asked for a stack of this id to be added, or removed.
Adders(id) == {f \in Forms : asked[f].op = "add" /\ asked[f].stack.stackId = id}
Removers(id) == {f \in Forms : asked[f].op = "remove" /\ asked[f].stackId = id}

\* A stack that was on file at the start, or whose addition the page has shown as
\* done, is on file for as long as nobody has asked for its removal, whatever
\* crashes, fails or is repeated.
AcknowledgedIsKept ==
  \A s \in Start \cup {asked[f].stack : f \in {g \in Forms : form[g] = "done" /\ asked[g].op = "add"}} :
    Removers(s.stackId) = {} => file # Garbage /\ s \in file

\* The other answers are true as well: a stack whose removal is shown as done is
\* gone unless somebody adds it again; an addition is refused only where the id
\* is or was taken, a removal only where there may have been nothing to remove.
AnswersAreTrue ==
  \A f \in Forms :
    /\ form[f] = "done" /\ asked[f].op = "remove" /\ Adders(asked[f].stackId) = {} =>
         file # Garbage /\ ~Has(file, asked[f].stackId)
    /\ form[f] = "refused" /\ asked[f].op = "add" =>
         Has(Start, asked[f].stack.stackId) \/ Adders(asked[f].stack.stackId) # {f}
    /\ form[f] = "refused" /\ asked[f].op = "remove" =>
         ~Has(Start, asked[f].stackId) \/ Removers(asked[f].stackId) # {f}

\* Default deny: the service approves a device only if the list on file has
\* matched it at some time since it was requested; a removal that was saved
\* before the request was filed is obeyed.
RemovalTakesEffect ==
  \A d \in Devices : request[d] \in {"approving", "approved"} => d \in matched
=============================================================================
