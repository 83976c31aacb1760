-------------------------- MODULE TrustConfig_proofs --------------------------
(***************************************************************************)
(* Proofs about the allowlist: for any forms, stacks and devices, whatever *)
(* is cut short, fails or is repeated, its readers see a list that changes *)
(* by one stack at a time, and an acknowledged stack stays on it.          *)
(***************************************************************************)
EXTENDS TrustConfig, TLAPS

Operations == Additions \cup Removals

\* The operation of a form that has been sent.
AskedTypeOK ==
  /\ asked \in [Forms -> {Nothing} \cup Operations]
  /\ form \in [Forms -> {"new", "sent", "done", "refused", "unavailable"}]
  /\ \A f \in Forms : IF form[f] = "new" THEN asked[f] = Nothing ELSE asked[f] \in Operations

\* The call being served: nobody else touches the file until it has been
\* replaced, so that the list to be saved is still the edited one, and the
\* temporary file, once written, holds it.
Serving ==
  handler # Idle =>
    \E f \in Forms :
      /\ handler.by = {f}
      /\ form[f] # "new" /\ f \notin queued
      /\ ~Refused(asked[f])
      /\ handler.stacks = Edited(asked[f])
      /\ temp # Garbage => temp = handler.stacks

FileInv ==
  /\ AskedTypeOK
  /\ queued \subseteq {f \in Forms : form[f] # "new"}
  /\ file \in SUBSET StackType
  /\ Serving

LEMMA StacksAreNotGarbage ==
  ASSUME NEW content \in SUBSET StackType
  PROVE  content # Garbage
  BY TrustConfigAssumption

LEMMA EditedType ==
  ASSUME NEW op \in Operations, file \in SUBSET StackType
  PROVE  Edited(op) \in SUBSET StackType
  <1>1. CASE op \in Additions
    BY <1>1, TrustConfigAssumption DEF Additions, Edited
  <1>2. CASE op \in Removals
    BY <1>2 DEF Removals, Edited
  <1> QED  BY <1>1, <1>2 DEF Operations

LEMMA FileInit == Init => FileInv
  BY TrustConfigAssumption DEF Init, FileInv, AskedTypeOK, Serving, Idle

-----------------------------------------------------------------------------
\* What an answer leaves alone: forms and operations.
LEMMA AnswerKeeps ==
  ASSUME AskedTypeOK, UNCHANGED asked,
         NEW f \in Forms, NEW shown \in {"done", "refused", "unavailable"},
         Answer(f, shown)
  PROVE  /\ AskedTypeOK'
         /\ \A g \in Forms : form'[g] # "new" <=> form[g] # "new"
  BY DEF AskedTypeOK, Answer

\* A step that neither begins nor continues to serve a call.
LEMMA ServingKept ==
  ASSUME FileInv, UNCHANGED <<handler, temp, file>>,
         \A f \in Forms : form[f] # "new" =>
           form'[f] # "new" /\ asked'[f] = asked[f] /\ (f \in queued' => f \in queued)
  PROVE  Serving' /\ file' \in SUBSET StackType
  <1> SUFFICES ASSUME handler # Idle PROVE Serving'
    BY DEF FileInv, Serving
  <1>1. PICK f \in Forms :
          /\ handler.by = {f}
          /\ form[f] # "new" /\ f \notin queued
          /\ ~Refused(asked[f])
          /\ handler.stacks = Edited(asked[f])
          /\ temp # Garbage => temp = handler.stacks
    BY DEF FileInv, Serving
  <1>2. asked'[f] = asked[f] /\ form'[f] # "new" /\ f \notin queued'
    BY <1>1
  <1>3. ~Refused(asked[f])' /\ Edited(asked[f])' = Edited(asked[f])
    BY <1>1, <1>2 DEF Refused, Edited, Has
  <1> QED  BY <1>1, <1>2, <1>3 DEF Serving

LEMMA FileNext == FileInv /\ [Next]_vars => FileInv'
  <1> SUFFICES ASSUME FileInv, [Next]_vars PROVE FileInv'
    OBVIOUS
  <1>1. AskedTypeOK
    BY DEF FileInv
  <1>2. ASSUME NEW f \in Forms, Submit(f) PROVE FileInv'
    <2>1. PICK op \in Operations : asked' = [asked EXCEPT ![f] = op]
      BY <1>2 DEF Submit, Operations
    <2>2. AskedTypeOK'
      BY <1>1, <1>2, <2>1 DEF Submit, AskedTypeOK
    <2>3. \A g \in Forms : form[g] # "new" =>
            form'[g] # "new" /\ asked'[g] = asked[g] /\ (g \in queued' => g \in queued)
      BY <1>1, <1>2, <2>1 DEF Submit, AskedTypeOK
    <2>4. queued' \subseteq {g \in Forms : form'[g] # "new"}
      BY <1>1, <1>2, <2>3 DEF Submit, FileInv, AskedTypeOK
    <2> QED  BY <1>2, <2>2, <2>3, <2>4, ServingKept DEF Submit, FileInv
  <1>3. ASSUME NEW f \in Forms, GiveUp(f) PROVE FileInv'
    <2>1. AskedTypeOK' /\ \A g \in Forms : form'[g] # "new" <=> form[g] # "new"
      BY <1>1, <1>3, AnswerKeeps DEF GiveUp
    <2> QED  BY <1>3, <2>1, ServingKept DEF GiveUp, FileInv
  <1>4. ASSUME NEW f \in Forms, Refuse(f) \/ ReadFails(f) PROVE FileInv'
    <2>1. AskedTypeOK' /\ \A g \in Forms : form'[g] # "new" <=> form[g] # "new"
      BY <1>1, <1>4, AnswerKeeps DEF Refuse, ReadFails
    <2> QED  BY <1>4, <2>1, ServingKept DEF Refuse, ReadFails, Begin, FileInv
  <1>5. ASSUME NEW f \in Forms, Open(f) PROVE FileInv'
    <2>1. Serving'
      BY <1>5 DEF Open, Begin, Serving, FileInv, Refused, Edited, Has
    <2> QED  BY <1>1, <1>5, <2>1 DEF Open, Begin, FileInv, AskedTypeOK
  <1>6. CASE Write
    <2>1. Serving'
      BY <1>6 DEF Write, Serving, FileInv, Refused, Edited, Has
    <2> QED  BY <1>1, <1>6, <2>1 DEF Write, FileInv, AskedTypeOK
  <1>7. CASE Replace
    <2>1. PICK f \in Forms : /\ handler.by = {f} /\ form[f] # "new"
                             /\ temp = Edited(asked[f])
      BY <1>7 DEF Replace, FileInv, Serving
    <2>2. AskedTypeOK' /\ \A g \in Forms : form'[g] # "new" <=> form[g] # "new"
      BY <1>1, <1>7, <2>1, AnswerKeeps DEF Replace
    <2>3. file' \in SUBSET StackType
      BY <1>7, <2>1, EditedType DEF Replace, FileInv, AskedTypeOK
    <2> QED  BY <1>7, <2>2, <2>3 DEF Replace, FileInv, Serving
  <1>8. CASE SaveFails
    <2>1. PICK f \in Forms : handler.by = {f}
      BY <1>8 DEF SaveFails, FileInv, Serving
    <2>2. AskedTypeOK' /\ \A g \in Forms : form'[g] # "new" <=> form[g] # "new"
      BY <1>1, <1>8, <2>1, AnswerKeeps DEF SaveFails
    <2> QED  BY <1>8, <2>2 DEF SaveFails, FileInv, Serving
  <1>9. CASE Crash
    <2>1. AskedTypeOK' /\ \A g \in Forms : form'[g] # "new" <=> form[g] # "new"
      BY <1>1, <1>9 DEF Crash, AskedTypeOK
    <2> QED  BY <1>9, <2>1 DEF Crash, FileInv, Serving
  <1>10. ASSUME NEW d \in Devices, FileRequest(d) \/ Hear(d) \/ Approve(d) PROVE FileInv'
    <2>1. UNCHANGED <<form, asked, queued, handler, temp, file>>
      BY <1>10 DEF FileRequest, Hear, Approve
    <2> QED  BY <2>1, ServingKept DEF FileInv, AskedTypeOK
  <1>11. CASE UNCHANGED vars
    BY <1>11, ServingKept DEF vars, FileInv, AskedTypeOK
  <1> QED  BY <1>2, <1>3, <1>4, <1>5, <1>6, <1>7, <1>8, <1>9, <1>10, <1>11
           DEF Next, Serve
LEMMA FileCorrect == Spec => []FileInv
  BY FileInit, FileNext, PTL DEF Spec

LEMMA TypeNext == TypeOK /\ FileInv /\ [Next]_vars => TypeOK'
  <1> SUFFICES ASSUME TypeOK, FileInv, [Next]_vars PROVE TypeOK'
    OBVIOUS
  <1> USE DEF TypeOK, Contents
  <1>1. ASSUME NEW f \in Forms, Submit(f) PROVE TypeOK'
    BY <1>1 DEF Submit
  <1>2. ASSUME NEW f \in Forms, GiveUp(f) PROVE TypeOK'
    BY <1>2 DEF GiveUp, Answer
  <1>3. ASSUME NEW f \in Forms, Refuse(f) \/ ReadFails(f) PROVE TypeOK'
    BY <1>3 DEF Refuse, ReadFails, Begin, Answer
  <1>4. ASSUME NEW f \in Forms, Open(f) PROVE TypeOK'
    <2>1. Edited(asked[f]) \in SUBSET StackType
      BY <1>4, EditedType DEF Open, Begin, FileInv, AskedTypeOK
    <2> QED  BY <1>4, <2>1 DEF Open, Begin
  <1>5. CASE Write
    <2>1. handler.stacks \in SUBSET StackType
      BY <1>5 DEF Write, Idle
    <2> QED  BY <1>5, <2>1 DEF Write
  <1>6. CASE Replace
    BY <1>6 DEF Replace, Answer
  <1>7. CASE SaveFails
    BY <1>7 DEF SaveFails, Answer
  <1>8. CASE Crash
    BY <1>8 DEF Crash
  <1>9. ASSUME NEW d \in Devices, FileRequest(d) \/ Hear(d) \/ Approve(d) PROVE TypeOK'
    BY <1>9 DEF FileRequest, Hear, Approve
  <1>10. CASE UNCHANGED vars
    BY <1>10 DEF vars
  <1> QED  BY <1>1, <1>2, <1>3, <1>4, <1>5, <1>6, <1>7, <1>8, <1>9, <1>10 DEF Next, Serve

\* Forms, calls, files and requests have their types in every reachable state.
THEOREM TrustConfigTypeCorrect == Spec => []TypeOK
  <1>1. Init => TypeOK
    BY TrustConfigAssumption DEF Init, TypeOK, Contents
  <1> QED  BY <1>1, TypeNext, FileCorrect, PTL DEF Spec

-----------------------------------------------------------------------------
(***************************************************************************)
(* Only a replacement changes the file, and it does what was asked for.    *)
(***************************************************************************)
LEMMA OnlyReplaceWrites ==
  ASSUME [Next]_vars, ~Replace
  PROVE  UNCHANGED file
  BY DEF Next, Serve, Submit, GiveUp, Refuse, Open, ReadFails, Begin, Write, SaveFails,
         Crash, FileRequest, Hear, Approve, vars

LEMMA ReplaceEffect ==
  ASSUME FileInv, Replace
  PROVE  \E f \in Forms :
           /\ asked[f] \in Operations /\ ~Refused(asked[f])
           /\ form[f] # "new" /\ f \notin queued
           /\ file' = Edited(asked[f])
           /\ Answer(f, "done")
  BY DEF Replace, FileInv, Serving, AskedTypeOK

\* Operations, once sent, stay; nothing but the end of a save is answered "done".
LEMMA FormsNext ==
  ASSUME FileInv, [Next]_vars, NEW f \in Forms, form[f] # "new"
  PROVE  /\ asked'[f] = asked[f] /\ form'[f] # "new"
         /\ f \in queued' => f \in queued
         /\ form'[f] = "done" /\ form[f] # "done" => Replace
         /\ form'[f] = "refused" /\ form[f] # "refused" => Refuse(f)
  BY DEF Next, Serve, Submit, GiveUp, Refuse, Open, ReadFails, Begin, Write, Replace,
         SaveFails, Crash, FileRequest, Hear, Approve, vars, Answer, FileInv, Serving,
         AskedTypeOK

LEMMA NewFormsStay ==
  ASSUME FileInv, [Next]_vars, NEW f \in Forms, form[f] = "new"
  PROVE  form'[f] \in {"new", "sent"}
  BY DEF Next, Serve, Submit, GiveUp, Refuse, Open, ReadFails, Begin, Write, Replace,
         SaveFails, Crash, FileRequest, Hear, Approve, vars, Answer, FileInv, Serving,
         AskedTypeOK

\* Who asked for what grows.
LEMMA AskersNext ==
  ASSUME FileInv, [Next]_vars, NEW id
  PROVE  Adders(id) \subseteq Adders(id)' /\ Removers(id) \subseteq Removers(id)'
  <1>1. ASSUME NEW f \in Forms, asked[f].op \in {"add", "remove"}
        PROVE  asked'[f] = asked[f]
    <2>1. form[f] # "new"
      BY <1>1 DEF FileInv, AskedTypeOK, Nothing
    <2> QED  BY <2>1, FormsNext
  <1> QED  BY <1>1 DEF Adders, Removers

-----------------------------------------------------------------------------
Acknowledged ==
  Start \cup {asked[f].stack : f \in {g \in Forms : form[g] = "done" /\ asked[g].op = "add"}}

LEMMA KeptNext == FileInv /\ AcknowledgedIsKept /\ [Next]_vars => AcknowledgedIsKept'
  <1> SUFFICES ASSUME FileInv, AcknowledgedIsKept, [Next]_vars,
                      NEW s \in Acknowledged', Removers(s.stackId)' = {}
               PROVE  s \in file' /\ file' # Garbage
    BY DEF AcknowledgedIsKept, Acknowledged
  <1>1. file' # Garbage
    BY FileNext, StacksAreNotGarbage DEF FileInv
  <1>2. Removers(s.stackId) = {}
    BY AskersNext
  <1>3. CASE s \in Acknowledged
    <2>1. s \in file
      BY <1>2, <1>3 DEF AcknowledgedIsKept, Acknowledged
    <2>2. CASE Replace
      <3>1. PICK f \in Forms : asked[f] \in Operations /\ file' = Edited(asked[f])
        BY <2>2, ReplaceEffect
      <3>2. asked[f].op = "remove" => asked[f].stackId # s.stackId
        BY <1>2 DEF Removers
      <3> QED  BY <1>1, <2>1, <3>1, <3>2 DEF Operations, Additions, Removals, Edited
    <2> QED  BY <1>1, <2>1, <2>2, OnlyReplaceWrites
  <1>4. CASE s \notin Acknowledged
    <2>1. PICK f \in Forms : form'[f] = "done" /\ asked'[f].op = "add" /\ s = asked'[f].stack
      BY <1>4 DEF Acknowledged
    <2>2. form[f] # "new"
      BY <2>1, NewFormsStay
    <2>3. asked'[f] = asked[f] /\ form[f] # "done"
      BY <1>4, <2>1, <2>2, FormsNext DEF Acknowledged
    <2>4. Replace
      BY <2>1, <2>2, <2>3, FormsNext
    <2>5. PICK g \in Forms : file' = Edited(asked[g]) /\ Answer(g, "done")
      BY <2>4, ReplaceEffect
    <2>6. g = f
      BY <2>1, <2>3, <2>5 DEF Answer, FileInv, AskedTypeOK
    <2> QED  BY <1>1, <2>1, <2>3, <2>5, <2>6 DEF Edited
  <1> QED  BY <1>3, <1>4

LEMMA KeptInit == Init => AcknowledgedIsKept
  <1> SUFFICES ASSUME Init PROVE AcknowledgedIsKept
    OBVIOUS
  <1>1. file = Start /\ file # Garbage
    BY TrustConfigAssumption DEF Init
  <1>2. Acknowledged = Start
    BY DEF Init, Acknowledged
  <1> QED  BY <1>1, <1>2 DEF AcknowledgedIsKept, Acknowledged

\* No crash, failed write, late call or repeated form loses a stack that was on
\* file at the start or whose addition was shown as done, unless somebody has
\* asked for its removal (add_stack, delete_stack, _save_config).
THEOREM AcknowledgedIsKeptCorrect == Spec => []AcknowledgedIsKept
  BY FileCorrect, KeptInit, KeptNext, PTL DEF Spec

-----------------------------------------------------------------------------
\* What the file matches when a request is filed, or comes to match while it
\* waits, has been noted.
MatchedInv ==
  /\ RemovalTakesEffect
  /\ request \in [Devices -> {"new", "filed", "approving", "approved", "passed over"}]
  /\ \A d \in Devices : request[d] = "filed" /\ Trusts(file, d) => d \in matched

LEMMA MatchedNext == MatchedInv /\ [Next]_vars => MatchedInv'
  <1> SUFFICES ASSUME MatchedInv, [Next]_vars PROVE MatchedInv'
    OBVIOUS
  <1> USE DEF MatchedInv, RemovalTakesEffect
  <1>1. CASE Replace
    BY <1>1 DEF Replace
  <1>2. ASSUME NEW d \in Devices, FileRequest(d) PROVE MatchedInv'
    BY <1>2 DEF FileRequest, Trusts
  <1>3. ASSUME NEW d \in Devices, Hear(d) PROVE MatchedInv'
    BY <1>3 DEF Hear, Trusts
  <1>4. ASSUME NEW d \in Devices, Approve(d) PROVE MatchedInv'
    BY <1>4 DEF Approve, Trusts
  <1>5. CASE UNCHANGED <<file, request, matched>>
    BY <1>5 DEF Trusts
  <1> QED  BY <1>1, <1>2, <1>3, <1>4, <1>5
           DEF Next, Serve, Submit, GiveUp, Refuse, Open, ReadFails, Begin, Write,
               SaveFails, Crash, vars

\* The auto-approve service approves a device only if the list on file matched it
\* at some time since its request: an allowlist that cannot be read, or from which
\* the stack was removed before, approves nobody.
THEOREM RemovalTakesEffectCorrect == Spec => []RemovalTakesEffect
  <1>1. Init => MatchedInv
    BY DEF Init, MatchedInv, RemovalTakesEffect
  <1>2. MatchedInv => RemovalTakesEffect
    BY DEF MatchedInv
  <1> QED  BY <1>1, <1>2, MatchedNext, PTL DEF Spec

-----------------------------------------------------------------------------
(***************************************************************************)
(* The answers.  An id comes on file, or goes from it, only by a call that *)
(* has been served, so that a refused call was not the only one.           *)
(***************************************************************************)
Traced ==
  \A id \in StackIds :
    /\ Has(file, id) => Has(Start, id) \/ \E f \in Adders(id) : f \notin queued
    /\ ~Has(file, id) => ~Has(Start, id) \/ \E f \in Removers(id) : f \notin queued

LEMMA OperationIds ==
  ASSUME NEW op \in Operations
  PROVE  /\ op.op = "add" => op.stack \in StackType /\ op.stack.stackId \in StackIds
         /\ op.op = "remove" => op.stackId \in StackIds
         /\ op.op \in {"add", "remove"}
  BY TrustConfigAssumption DEF Operations, Additions, Removals, StackType

\* A caller that has been served stays one.
LEMMA ServedNext ==
  ASSUME FileInv, [Next]_vars, NEW id, NEW f \in Forms, f \notin queued
  PROVE  /\ f \in Adders(id) => f \in Adders(id)' /\ f \notin queued'
         /\ f \in Removers(id) => f \in Removers(id)' /\ f \notin queued'
  <1>1. f \in Adders(id) \cup Removers(id) => form[f] # "new"
    BY DEF Adders, Removers, FileInv, AskedTypeOK, Nothing
  <1> QED  BY <1>1, AskersNext, FormsNext

LEMMA TracedNext == FileInv /\ Traced /\ [Next]_vars => Traced'
  <1> SUFFICES ASSUME FileInv, Traced, [Next]_vars, NEW id \in StackIds
               PROVE  /\ Has(file', id) => \/ Has(Start, id)
                                           \/ \E f \in Adders(id)' : f \notin queued'
                      /\ ~Has(file', id) => \/ ~Has(Start, id)
                                            \/ \E f \in Removers(id)' : f \notin queued'
    BY DEF Traced, Has
  <1>1. CASE Has(file', id) = Has(file, id)
    BY <1>1, ServedNext DEF Traced, Adders, Removers
  <1>2. CASE Has(file', id) # Has(file, id)
    <2>1. Replace
      BY <1>2, OnlyReplaceWrites
    <2>2. PICK f \in Forms : /\ asked[f] \in Operations /\ f \notin queued
                             /\ file' = Edited(asked[f])
      BY <2>1, ReplaceEffect
    <2>3. CASE asked[f].op = "add"
      <3>1. asked[f].stack.stackId = id /\ Has(file', id)
        BY <1>2, <2>2, <2>3 DEF Edited, Has
      <3>2. f \in Adders(id)
        BY <2>3, <3>1 DEF Adders
      <3> QED  BY <2>2, <3>1, <3>2, ServedNext
    <2>4. CASE asked[f].op = "remove"
      <3>1. asked[f].stackId = id /\ ~Has(file', id)
        BY <1>2, <2>2, <2>4 DEF Edited, Has
      <3>2. f \in Removers(id)
        BY <2>4, <3>1 DEF Removers
      <3> QED  BY <2>2, <3>1, <3>2, ServedNext
    <2> QED  BY <2>2, <2>3, <2>4, OperationIds
  <1> QED  BY <1>1, <1>2

RemovalIsTrue(f) ==
  form[f] = "done" /\ asked[f].op = "remove" /\ Adders(asked[f].stackId) = {} =>
    file # Garbage /\ ~Has(file, asked[f].stackId)

RefusalIsTrue(f) ==
  /\ form[f] = "refused" /\ asked[f].op = "add" =>
       Has(Start, asked[f].stack.stackId) \/ Adders(asked[f].stack.stackId) # {f}
  /\ form[f] = "refused" /\ asked[f].op = "remove" =>
       ~Has(Start, asked[f].stackId) \/ Removers(asked[f].stackId) # {f}

LEMMA RemovalNext ==
  ASSUME FileInv, [Next]_vars, NEW f \in Forms, RemovalIsTrue(f)
  PROVE  RemovalIsTrue(f)'
  <1> SUFFICES ASSUME form'[f] = "done", asked'[f].op = "remove",
                      Adders(asked[f].stackId)' = {}
               PROVE  file' # Garbage /\ ~Has(file', asked'[f].stackId)
    BY DEF RemovalIsTrue, Has
  <1>1. form[f] # "new" /\ asked'[f] = asked[f]
    BY NewFormsStay, FormsNext
  <1>2. file' # Garbage
    BY FileNext, StacksAreNotGarbage DEF FileInv
  <1> PICK id : id = asked[f].stackId
    OBVIOUS
  <1>3. Adders(id) = {}
    <2>1. Adders(id)' = {}
      BY <1>1 DEF Adders
    <2> QED  BY <2>1, AskersNext
  <1>4. CASE form[f] = "done"
    <2>1. ~Has(file, id)
      BY <1>1, <1>3, <1>4 DEF RemovalIsTrue
    <2>2. CASE Replace
      <3>1. PICK g \in Forms : asked[g] \in Operations /\ file' = Edited(asked[g])
        BY <2>2, ReplaceEffect
      <3>2. asked[g].op = "add" => asked[g].stack.stackId # id
        BY <1>3 DEF Adders
      <3> QED  BY <1>1, <1>2, <2>1, <3>1, <3>2 DEF Edited, Has
    <2> QED  BY <1>1, <1>2, <2>1, <2>2, OnlyReplaceWrites
  <1>5. CASE form[f] # "done"
    <2>1. Replace
      BY <1>1, <1>5, FormsNext
    <2>2. PICK g \in Forms : file' = Edited(asked[g]) /\ Answer(g, "done")
      BY <2>1, ReplaceEffect
    <2>3. g = f
      BY <1>5, <2>2 DEF Answer, FileInv, AskedTypeOK
    <2> QED  BY <1>1, <1>2, <2>2, <2>3 DEF Edited, Has
  <1> QED  BY <1>4, <1>5

LEMMA RefusalNext ==
  ASSUME FileInv, Traced, [Next]_vars, NEW f \in Forms, RefusalIsTrue(f)
  PROVE  RefusalIsTrue(f)'
  <1> SUFFICES ASSUME form'[f] = "refused" PROVE RefusalIsTrue(f)'
    BY DEF RefusalIsTrue
  <1>1. form[f] # "new" /\ asked'[f] = asked[f] /\ asked[f] \in Operations
    BY NewFormsStay, FormsNext DEF FileInv, AskedTypeOK
  <1>2. RefusalIsTrue(f)
    OBVIOUS
  <1>3. form[f] = "refused" \/ Refuse(f)
    BY <1>1, FormsNext
  <1>4. asked[f].op = "add" =>
          Has(Start, asked[f].stack.stackId) \/ \E g \in Adders(asked[f].stack.stackId) : g # f
    <2> SUFFICES ASSUME asked[f].op = "add", ~Has(Start, asked[f].stack.stackId)
                 PROVE  \E g \in Adders(asked[f].stack.stackId) : g # f
      OBVIOUS
    <2>1. f \in Adders(asked[f].stack.stackId)
      BY DEF Adders
    <2>2. CASE form[f] = "refused"
      BY <1>2, <2>1, <2>2 DEF RefusalIsTrue
    <2>3. CASE Refuse(f)
      BY <1>1, <2>3, OperationIds DEF Refuse, Refused, Begin, Traced
    <2> QED  BY <1>3, <2>2, <2>3
  <1>5. asked[f].op = "remove" =>
          ~Has(Start, asked[f].stackId) \/ \E g \in Removers(asked[f].stackId) : g # f
    <2> SUFFICES ASSUME asked[f].op = "remove", Has(Start, asked[f].stackId)
                 PROVE  \E g \in Removers(asked[f].stackId) : g # f
      OBVIOUS
    <2>1. f \in Removers(asked[f].stackId)
      BY DEF Removers
    <2>2. CASE form[f] = "refused"
      BY <1>2, <2>1, <2>2 DEF RefusalIsTrue
    <2>3. CASE Refuse(f)
      BY <1>1, <2>3, OperationIds DEF Refuse, Refused, Begin, Traced
    <2> QED  BY <1>3, <2>2, <2>3
  <1>6. /\ Adders(asked[f].stack.stackId) \subseteq Adders(asked[f].stack.stackId)'
        /\ Removers(asked[f].stackId) \subseteq Removers(asked[f].stackId)'
    BY <1>1, AskersNext DEF Adders, Removers
  <1> QED  BY <1>1, <1>4, <1>5, <1>6 DEF RefusalIsTrue, Has

\* What the page shows is true: a removal shown as done is gone, and a call that
\* was refused was not the only one of its kind (the 400 of add_trusted_stack and
\* the 404 of delete_trusted_stack).
THEOREM AnswersAreTrueCorrect == Spec => []AnswersAreTrue
  <1> DEFINE AnswersInv == Traced /\ \A f \in Forms : RemovalIsTrue(f) /\ RefusalIsTrue(f)
  <1>1. Init => AnswersInv
    BY DEF Init, Traced, RemovalIsTrue, RefusalIsTrue
  <1>2. FileInv /\ AnswersInv /\ [Next]_vars => AnswersInv'
    BY TracedNext, RemovalNext, RefusalNext
  <1>3. AnswersInv => AnswersAreTrue
    BY DEF AnswersAreTrue, RemovalIsTrue, RefusalIsTrue
  <1> QED  BY <1>1, <1>2, <1>3, FileCorrect, PTL DEF Spec

-----------------------------------------------------------------------------
(***************************************************************************)
(* Refinement: the file, seen by its readers, is the abstract list.        *)
(***************************************************************************)
DevicesOn(id) == UNION {s.devices : s \in {t \in file : t.stackId = id}}

LEMMA ListedIs ==
  ASSUME file \in SUBSET StackType
  PROVE  /\ listed = [id \in StackIds |-> IF Has(file, id) THEN DevicesOn(id) ELSE Unlisted]
         /\ \A id \in StackIds : DevicesOn(id) \in SUBSET Devices /\ DevicesOn(id) # Unlisted
  <1>1. file # Garbage
    BY StacksAreNotGarbage
  <1>2. ASSUME NEW id \in StackIds PROVE DevicesOn(id) \in SUBSET Devices
    BY DEF DevicesOn, StackType
  <1> QED  BY <1>1, <1>2, TrustConfigAssumption DEF listed, DevicesOn

LEMMA AddMapped ==
  ASSUME file \in SUBSET StackType, file' \in SUBSET StackType,
         NEW op \in Additions, ~Refused(op), file' = Edited(op)
  PROVE  List!Next
  <1>1. PICK s \in StackType : op = [op |-> "add", stack |-> s]
    BY TrustConfigAssumption DEF Additions
  <1>2. ~Has(file, s.stackId) /\ file' = file \cup {s}
    BY <1>1 DEF Refused, Edited
  <1>3. s.stackId \in StackIds /\ s.devices \in SUBSET Devices
    BY DEF StackType
  <1>4. listed[s.stackId] = Unlisted
    BY <1>2, <1>3, ListedIs
  <1>5. /\ Has(file', s.stackId)
        /\ \A id \in StackIds : id # s.stackId => Has(file', id) = Has(file, id)
    BY <1>2 DEF Has
  <1>6. \A id \in StackIds : id # s.stackId => DevicesOn(id)' = DevicesOn(id)
    <2> SUFFICES ASSUME NEW id \in StackIds, id # s.stackId
                 PROVE  {t \in file' : t.stackId = id} = {t \in file : t.stackId = id}
      BY DEF DevicesOn
    <2> QED  BY <1>2
  <1>7. DevicesOn(s.stackId)' = s.devices
    <2>1. {t \in file' : t.stackId = s.stackId} = {s}
      BY <1>2 DEF Has
    <2> QED  BY <2>1 DEF DevicesOn
  <1>8. listed' = [id \in StackIds |->
                     IF Has(file, id)' THEN DevicesOn(id)' ELSE Unlisted]
    <2>1. file' # Garbage
      BY StacksAreNotGarbage
    <2> QED  BY <2>1 DEF listed, DevicesOn, Has
  <1>9. listed' = [listed EXCEPT ![s.stackId] = s.devices]
    BY <1>3, <1>5, <1>6, <1>7, <1>8, ListedIs DEF Has
  <1> QED  BY <1>3, <1>4, <1>9 DEF List!Next, List!Add

LEMMA RemoveMapped ==
  ASSUME file \in SUBSET StackType, file' \in SUBSET StackType,
         NEW op \in Removals, ~Refused(op), file' = Edited(op)
  PROVE  List!Next
  <1>1. PICK gone \in StackIds : op = [op |-> "remove", stackId |-> gone]
    BY DEF Removals
  <1>2. Has(file, gone) /\ file' = {s \in file : s.stackId # gone}
    BY <1>1 DEF Refused, Edited
  <1>3. listed[gone] # Unlisted
    BY <1>2, ListedIs
  <1>4. /\ ~Has(file', gone)
        /\ \A id \in StackIds : id # gone => Has(file', id) = Has(file, id)
    BY <1>2 DEF Has
  <1>5. \A id \in StackIds : id # gone => DevicesOn(id)' = DevicesOn(id)
    <2> SUFFICES ASSUME NEW id \in StackIds, id # gone
                 PROVE  {t \in file' : t.stackId = id} = {t \in file : t.stackId = id}
      BY DEF DevicesOn
    <2> QED  BY <1>2
  <1>6. listed' = [id \in StackIds |->
                     IF Has(file, id)' THEN DevicesOn(id)' ELSE Unlisted]
    <2>1. file' # Garbage
      BY StacksAreNotGarbage
    <2> QED  BY <2>1 DEF listed, DevicesOn, Has
  <1>7. listed' = [listed EXCEPT ![gone] = Unlisted]
    BY <1>4, <1>5, <1>6, ListedIs DEF Has
  <1> QED  BY <1>3, <1>7 DEF List!Next, List!Remove

\* Whoever reads the file finds the abstract list: stacks come to it one at a time
\* under a new id and go from it one at a time; every other step, a crash or a
\* failing write among them, changes nothing for a reader.
THEOREM FileImplementsAllowlist == Spec => ImplementsAllowlist
  <1>1. Init => List!Init
    BY TrustConfigAssumption, ListedIs DEF Init, List!Init
  <1>2. FileInv /\ [Next]_vars => [List!Next]_listed
    <2> SUFFICES ASSUME FileInv, [Next]_vars PROVE [List!Next]_listed
      OBVIOUS
    <2>1. CASE Replace
      <3>1. PICK f \in Forms : /\ asked[f] \in Operations /\ ~Refused(asked[f])
                               /\ file' = Edited(asked[f])
        BY <2>1, ReplaceEffect
      <3>2. file \in SUBSET StackType /\ file' \in SUBSET StackType
        BY FileNext DEF FileInv
      <3> QED  BY <3>1, <3>2, AddMapped, RemoveMapped DEF Operations
    <2>2. CASE ~Replace
      BY <2>2, OnlyReplaceWrites DEF listed
    <2> QED  BY <2>1, <2>2
  <1> QED  BY <1>1, <1>2, FileCorrect, PTL DEF Spec, ImplementsAllowlist, List!Spec
=============================================================================
