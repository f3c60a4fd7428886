------------------------- MODULE RowIdentityProofs -------------------------
(***************************************************************************)
(* What RowIdentity guarantees for any set of resources, any identities,   *)
(* any menu to start from and any number of losses and retries: its types; *)
(* that no two rows ever share an identity while nobody edits the menu by  *)
(* hand; of certificates, that none is removed unrevoked and none is left  *)
(* revoked by a deletion that has ended; and that no callback touches the  *)
(* rows of others, or leaves one of its own behind.                        *)
(***************************************************************************)
EXTENDS RowIdentity, FiniteSetTheorems, TLAPS

-----------------------------------------------------------------------------
\* What one request does to the rows and the id counter.

\* PUT: a new row under the next id, the others are as they were.
LEMMA CreateEffect ==
  ASSUME NEW m, NEW row
  PROVE  /\ Create(m, row).next = m.next + 1
         /\ DOMAIN Create(m, row).rows = DOMAIN m.rows \cup {m.next}
         /\ Create(m, row).rows[m.next] = Stored(row)
         /\ \A id \in DOMAIN m.rows \ {m.next} : Create(m, row).rows[id] = m.rows[id]
BY DEF Create

\* PATCH: the row named has the fields sent, the others are as they were.
LEMMA UpdateEffect ==
  ASSUME NEW m, NEW id, NEW fields
  PROVE  /\ Update(m, id, fields).next = m.next
         /\ DOMAIN Update(m, id, fields).rows = DOMAIN m.rows
         /\ \A x \in DOMAIN m.rows \ {id} : Update(m, id, fields).rows[x] = m.rows[x]
         /\ \A k \in DOMAIN fields :
              id \in DOMAIN m.rows => Update(m, id, fields).rows[id][k] = Stored(fields)[k]
         /\ id \in DOMAIN m.rows =>
              /\ DOMAIN Update(m, id, fields).rows[id] = DOMAIN m.rows[id] \cup DOMAIN fields
              /\ \A k \in DOMAIN m.rows[id] \ DOMAIN fields :
                   Update(m, id, fields).rows[id][k] = m.rows[id][k]
BY DEF Update

\* DELETE: the row named is gone, the others are as they were.
LEMMA DeleteEffect ==
  ASSUME NEW m, NEW id
  PROVE  /\ Delete(m, id).next = m.next
         /\ DOMAIN Delete(m, id).rows = DOMAIN m.rows \ {id}
         /\ \A x \in DOMAIN m.rows \ {id} : Delete(m, id).rows[x] = m.rows[x]
BY DEF Delete

\* The identity a callback sends is the one the router stores, and neither flag is
\* an update's to change.
LEMMA StoredIdent ==
  ASSUME NEW c, c.want \in Wanted
  PROVE  /\ Stored(Fields(c)).ident = c.want /\ "ident" \in DOMAIN Fields(c)
         /\ {"revoked", "issued"} \cap DOMAIN Fields(c) = {}
<1>1. DOMAIN Fields(c) = {"ident", "body"} /\ Fields(c)["ident"] = c.want
  BY DEF Fields
<1>2. c.want \notin DOMAIN Canonical
  BY IdentsAssumption DEF Wanted, NoIdent
<1> QED BY <1>1, <1>2 DEF Stored

\* So is the one of a new row, which has every flag and is not revoked.
LEMMA StoredRow ==
  ASSUME NEW c, c.want \in Wanted
  PROVE  /\ Stored(NewRow(c)).ident = c.want /\ Stored(NewRow(c)).revoked = "false"
         /\ {"ident", "revoked", "issued"} \subseteq DOMAIN Stored(NewRow(c))
<1>1. DOMAIN NewRow(c) = {"ident", "body", "issued"} /\ NewRow(c)["ident"] = c.want
  BY DEF NewRow
<1>2. c.want \notin DOMAIN Canonical
  BY IdentsAssumption DEF Wanted, NoIdent
<1> QED BY <1>1, <1>2, DefaultsAssumption DEF Stored

\* Ids are handed out once, whatever is done to a menu.
MenuOK(m) == m.next \in Nat \ {0} /\ DOMAIN m.rows \subseteq 1..(m.next - 1)

\* None of the three requests breaks that.
LEMMA MenuKept ==
  ASSUME NEW m, MenuOK(m), NEW row, NEW id
  PROVE  MenuOK(Create(m, row)) /\ MenuOK(Update(m, id, row)) /\ MenuOK(Delete(m, id))
<1>1. ASSUME NEW n, n.next \in {m.next, m.next + 1}, m.next \in Nat,
             DOMAIN n.rows \subseteq DOMAIN m.rows \cup (IF n.next = m.next THEN {} ELSE {m.next})
      PROVE  MenuOK(n)
  BY <1>1 DEF MenuOK
<1>2. m.next \in Nat /\ m.next # m.next + 1
  BY DEF MenuOK
<1>3. MenuOK(Create(m, row))
  <2>1. Create(m, row).next = m.next + 1 /\ DOMAIN Create(m, row).rows = DOMAIN m.rows \cup {m.next}
    BY CreateEffect
  <2> QED BY <1>1, <1>2, <2>1
<1>4. MenuOK(Update(m, id, row))
  <2>1. Update(m, id, row).next = m.next /\ DOMAIN Update(m, id, row).rows = DOMAIN m.rows
    BY UpdateEffect
  <2> QED BY <1>1, <1>2, <2>1
<1>5. MenuOK(Delete(m, id))
  <2>1. Delete(m, id).next = m.next /\ DOMAIN Delete(m, id).rows = DOMAIN m.rows \ {id}
    BY DeleteEffect
  <2> QED BY <1>1, <1>2, <2>1
<1> QED BY <1>3, <1>4, <1>5

\* Nor does the request of a callback.
LEMMA CarriedKept ==
  ASSUME NEW m, MenuOK(m), NEW c, Accepted(m, c)
  PROVE  MenuOK(Carried(m, c))
<1>1. c.stage \in {"put", "patch", "remove", "dispose"}
  BY DEF Accepted
<1>2. /\ MenuOK(Create(m, NewRow(c)))
      /\ MenuOK(Update(m, c.item, Fields(c)))
      /\ MenuOK(Delete(m, c.item))
  BY MenuKept
<1>3. MenuOK(Disposed(m, c))
  BY MenuKept DEF Disposed
<1> QED BY <1>1, <1>2, <1>3 DEF Carried

-----------------------------------------------------------------------------
\* Types.  A callback goes on, returns or fails.

\* What every step of a callback leaves in range.
EnvOK == /\ MenuOK(menu') /\ UNCHANGED resVars
         /\ last' \in [Resources -> [ca : BOOLEAN, row : Nat]]
         /\ edits' \in 0..MaxEdits /\ faults' \in 0..MaxFaults

\* Nobody is inside operationMu when no callback is at any stage.
LEMMA NoCallStage == NoCall.stage = "none"
BY DEF NoCall

\* What the end of a callback leaves.
LEMMA NoCallEnds ==
  NoCall.op = "none" /\ NoCall.stage = "none"
BY DEF NoCall

\* An error return keeps the types.
LEMMA FailTypes ==
  ASSUME TypeOK, call # NoCall, Fail, EnvOK
  PROVE  TypeOK'
<1> call.r \in Resources
  BY DEF TypeOK
<1>1. due' \in [Resources -> [op : Ops, want : Wanted, deleted : BOOLEAN]]
  BY DEF TypeOK, Fail, Idle, Ops, Wanted
<1>2. \A r \in Resources : due'[r] = IF r = call.r THEN Idle ELSE due[r]
  BY DEF TypeOK, Fail
<1>3. \A r \in Resources : /\ due'[r].op # "none" => life'[r] \in {"live", "deleting"}
                           /\ due'[r].deleted => life'[r] = "deleting"
  BY <1>2 DEF TypeOK, EnvOK, resVars, Idle
<1> QED BY <1>1, <1>3 DEF TypeOK, Fail, EnvOK, resVars, MenuOK

\* So does a return that leaves an id and the next callback to call.
LEMMA ReturnTypes ==
  ASSUME TypeOK, call # NoCall, NEW id, NEW op \in Ops, Return(id, op), EnvOK
  PROVE  TypeOK'
<1> call.r \in Resources
  BY DEF TypeOK
<1> DEFINE d == IF op = "none" THEN Idle ELSE [due[call.r] EXCEPT !.op = op]
<1>1. d \in [op : Ops, want : Wanted, deleted : BOOLEAN]
  <2>1. due[call.r] \in [op : Ops, want : Wanted, deleted : BOOLEAN]
    BY DEF TypeOK
  <2>2. Idle \in [op : Ops, want : Wanted, deleted : BOOLEAN]
    BY DEF Idle, Ops, Wanted
  <2> QED BY <2>1, <2>2
<1>2. due' = [due EXCEPT ![call.r] = d]
  BY DEF TypeOK, Return
<1>3. /\ d.op # "none" => life[call.r] \in {"live", "deleting"}
      /\ d.deleted => life[call.r] = "deleting"
  BY DEF TypeOK, Idle, Taken
<1> HIDE DEF d
<1>4. due' \in [Resources -> [op : Ops, want : Wanted, deleted : BOOLEAN]]
  BY <1>1, <1>2 DEF TypeOK
<1>5. \A r \in Resources : /\ due'[r].op # "none" => life'[r] \in {"live", "deleting"}
                           /\ due'[r].deleted => life'[r] = "deleting"
  BY <1>2, <1>3 DEF TypeOK, EnvOK, resVars
<1> QED BY <1>4, <1>5 DEF TypeOK, Return, EnvOK, resVars, MenuOK

\* So does going on to a next request, about a row if the stage is about one.
LEMMA GotoTypes ==
  ASSUME TypeOK, call # NoCall, NEW stage \in Stages, NEW item \in Nat, Goto(stage, item), EnvOK,
         stage \in {"vacant", "fetch", "patch", "remove"} => item # NoID
  PROVE  TypeOK'
<1>1. /\ call' \in [r : Resources, op : Ops \ {"none"}, want : Wanted,
                     deleted : BOOLEAN, stage : Stages, item : Nat]
      /\ Taken(call') = Taken(call) /\ call'.r = call.r
      /\ call'.stage = stage /\ call'.item = item
  BY DEF TypeOK, Goto, Taken
<1> QED BY <1>1 DEF TypeOK, Goto, EnvOK, resVars, MenuOK

\* The row a lookup ends on is one of the menu.
LEMMA LookupItem ==
  ASSUME TypeOK, Lookup
  PROVE  /\ call # NoCall /\ EnvOK
         /\ \/ Fail
            \/ \E item \in Nat :
                 /\ item = NoID => ItemsByField(menu, LookupKey(call)) = {}
                 /\ item # NoID => item \in ItemsByField(menu, LookupKey(call))
                 /\ CommentIdentity(item) \/ InterfaceIdentity(item)
                      \/ (flavour = "certificate" /\ Certificate(item))
<1> DEFINE items == ItemsByField(menu, LookupKey(call))
           item  == IF items = {} THEN NoID ELSE CHOOSE id \in items : TRUE
<1>2. item # NoID => item \in items
  OBVIOUS
<1>3. items \subseteq Nat \ {NoID}
  BY DEF ItemsByField, TypeOK, NoID
<1>4. item \in Nat /\ (item = NoID => items = {})
  BY <1>2, <1>3 DEF NoID
<1>1. call # NoCall /\ EnvOK
  <2>1. call.stage = "lookup" /\ UNCHANGED <<menu, resVars, edits, faults>>
        /\ last' \in {last, Noted(item)}
    BY DEF Lookup
  <2>2. call # NoCall /\ call.r \in Resources
    BY <2>1, NoCallStage DEF TypeOK
  <2>3. last' \in [Resources -> [ca : BOOLEAN, row : Nat]]
    <3> HIDE DEF item
    <3>1. last \in [Resources -> [ca : BOOLEAN, row : Nat]]
      BY DEF TypeOK
    <3>2. [ca |-> menu.rows[item].issued = "true", row |-> item] \in [ca : BOOLEAN, row : Nat]
      BY <1>4
    <3> QED BY <2>1, <2>2, <3>1, <3>2 DEF Noted
  <2> QED BY <2>1, <2>2, <2>3 DEF TypeOK, EnvOK, MenuOK, resVars
<1>5. \/ Fail \/ CommentIdentity(item) \/ InterfaceIdentity(item)
      \/ (flavour = "certificate" /\ Certificate(item))
  BY DEF Lookup
<1> QED BY <1>1, <1>2, <1>4, <1>5

\* The lookup keeps the types, whatever it finds.
LEMMA LookupTypes ==
  ASSUME TypeOK, Lookup
  PROVE  TypeOK'
<1>1. call # NoCall /\ EnvOK
  BY LookupItem
<1>2. CASE Fail
  BY <1>1, <1>2, FailTypes
<1>3. CASE \E item \in Nat : CommentIdentity(item) \/ InterfaceIdentity(item) \/ Certificate(item)
  <2> PICK item \in Nat : CommentIdentity(item) \/ InterfaceIdentity(item) \/ Certificate(item)
    BY <1>3
  <2>1. \/ Fail
        \/ \E id, op : op \in Ops /\ Return(id, op)
        \/ \E stage \in Stages :
             /\ stage \in {"vacant", "fetch", "patch", "remove"} => item # NoID
             /\ Goto(stage, item)
    BY DEF CommentIdentity, CommentIdentityCreate, CommentIdentityRead, CommentIdentityUpdate,
           CommentIdentityDelete, InterfaceIdentity, InterfaceIdentityCreate,
           InterfaceIdentityRead, InterfaceIdentityUpdate, InterfaceIdentityDelete,
           Certificate, Observed, AfterGone, Ops, Stages
  <2> QED BY <1>1, <2>1, FailTypes, ReturnTypes, GotoTypes
<1> QED BY <1>2, <1>3, LookupItem

\* So do the other requests of a callback, carried out, refused or lost.
LEMMA CallTypes ==
  ASSUME TypeOK, RejectExisting \/ Fetch \/ Write \/ Dispose \/ FollowUp \/ RequestLost
  PROVE  TypeOK'
<1>1. CASE RejectExisting
  <2>1. call # NoCall /\ EnvOK
    BY <1>1, NoCallStage DEF RejectExisting, TypeOK, EnvOK, MenuOK, resVars
  <2>2. Fail \/ Goto("patch", call.item)
    BY <1>1 DEF RejectExisting
  <2>3. call.item \in Nat /\ call.item # NoID /\ "patch" \in Stages
    BY <1>1, <2>1 DEF RejectExisting, TypeOK, Stages
  <2> QED BY <2>1, <2>2, <2>3, FailTypes, GotoTypes
<1>2. CASE Fetch
  <2>1. call # NoCall /\ EnvOK
    BY <1>2, NoCallStage DEF Fetch, TypeOK, EnvOK, MenuOK, resVars
  <2>2. \E id, op : op \in Ops /\ Return(id, op)
    BY <1>2 DEF Fetch, Observed, AfterGone, Ops
  <2> QED BY <2>1, <2>2, ReturnTypes
<1>3. CASE Write
  <2>1. call # NoCall /\ edits' = edits /\ faults' = faults /\ UNCHANGED <<resVars, last>>
    BY <1>3, NoCallStage DEF Write
  <2>2. MenuOK(menu)
    BY DEF TypeOK, MenuOK
  <2>3. \/ Accepted(menu, call) /\ menu' = Carried(menu, call) /\ (\E id : Return(id, "none"))
        \/ Fail /\ menu' = menu
    BY <1>3 DEF Write
  <2>4. EnvOK
    BY <2>1, <2>2, <2>3, CarriedKept DEF EnvOK, TypeOK
  <2> QED BY <2>1, <2>3, <2>4, FailTypes, ReturnTypes DEF Ops
<1>4. CASE RequestLost
  <2>1. call # NoCall /\ edits' = edits /\ faults' = faults + 1 /\ faults < MaxFaults
        /\ UNCHANGED <<resVars, last>> /\ Fail
    BY <1>4 DEF RequestLost
  <2>2. MenuOK(menu)
    BY DEF TypeOK, MenuOK
  <2>3. menu' = menu \/ (Accepted(menu, call) /\ menu' = Carried(menu, call))
    BY <1>4 DEF RequestLost
  <2>4. faults' \in 0..MaxFaults
    BY <2>1, BoundsAssumption DEF TypeOK
  <2>5. EnvOK
    BY <2>1, <2>2, <2>3, <2>4, CarriedKept DEF EnvOK, TypeOK
  <2> QED BY <2>1, <2>5, FailTypes
<1>5. CASE Dispose
  <2>1. call # NoCall /\ edits' = edits /\ faults' = faults /\ UNCHANGED <<resVars, last>>
    BY <1>5, NoCallStage DEF Dispose
  <2>2. MenuOK(menu)
    BY DEF TypeOK, MenuOK
  <2>3. \/ Accepted(menu, call) /\ menu' = Carried(menu, call) /\ Goto("follow", NoID)
        \/ Fail /\ menu' = menu
    BY <1>5 DEF Dispose
  <2>4. EnvOK
    BY <2>1, <2>2, <2>3, CarriedKept DEF EnvOK, TypeOK
  <2>5. "follow" \in Stages /\ NoID \in Nat
    BY DEF Stages, NoID
  <2> QED BY <2>1, <2>3, <2>4, <2>5, FailTypes, GotoTypes
<1>6. CASE FollowUp
  <2>1. call # NoCall /\ EnvOK
    BY <1>6, NoCallStage DEF FollowUp, TypeOK, EnvOK, MenuOK, resVars
  <2> DEFINE items == ItemsByField(menu, tfid[call.r])
  <2>2. \/ Return(NoIdent, "none") \/ Fail
        \/ items # {} /\ Goto("remove", CHOOSE id \in items : TRUE)
    BY <1>6 DEF FollowUp
  <2>3. items \subseteq Nat \ {NoID}
    BY DEF ItemsByField, TypeOK, NoID
  <2>4. items # {} => (CHOOSE id \in items : TRUE) \in Nat \ {NoID}
    BY <2>3
  <2>5. "remove" \in Stages /\ "none" \in Ops
    BY DEF Stages, Ops
  <2> QED BY <2>1, <2>2, <2>4, <2>5, FailTypes, ReturnTypes, GotoTypes
<1> QED BY <1>1, <1>2, <1>3, <1>4, <1>5, <1>6

\* People, at the router or at the resources, and workers between callbacks.
LEMMA OutsideTypes ==
  ASSUME TypeOK, UserStep \/ HandStep \/ \E r \in Resources : Worker(r)
  PROVE  TypeOK'
<1> USE BoundsAssumption
<1>1. CASE UserStep
  <2>1. PICK r \in Resources : UserDelete(r) \/ \E i \in Idents : UserCreate(r, i) \/ UserRename(r, i)
    BY <1>1 DEF UserStep
  <2>2. acts' \in 0..MaxActs /\ UNCHANGED <<flavour, menu, tfid, last, due, call, edits, faults>>
    BY <2>1 DEF UserDelete, UserCreate, UserRename, Act, TypeOK
  <2>3. want' \in [Resources -> Wanted]
    BY <2>1 DEF UserDelete, UserCreate, UserRename, TypeOK, Wanted
  <2>4. /\ life' \in [Resources -> {"none", "live", "deleting", "gone"}]
        /\ \A q \in Resources :
             /\ life[q] \in {"live", "deleting"} => life'[q] \in {"live", "deleting"}
             /\ life[q] = "deleting" => life'[q] = "deleting"
    BY <2>1 DEF UserDelete, UserCreate, UserRename, TypeOK
  <2> QED BY <2>2, <2>3, <2>4 DEF TypeOK
<1>2. CASE HandStep
  <2>1. MenuOK(menu)
    BY DEF TypeOK, MenuOK
  <2>2. Edit /\ MenuOK(menu')
    <3>1. CASE \E i \in HandIdents : HandAdd(i)
      BY <3>1, <2>1, MenuKept DEF HandAdd
    <3>2. CASE \E id \in DOMAIN menu.rows : HandRemove(id)
      BY <3>2, <2>1, MenuKept DEF HandRemove
    <3>3. CASE \E id \in DOMAIN menu.rows, i \in HandIdents : HandRename(id, i)
      BY <3>3, <2>1, MenuKept DEF HandRename
    <3> QED BY <1>2, <3>1, <3>2, <3>3 DEF HandStep
  <2>3. edits' \in 0..MaxEdits /\ UNCHANGED <<resVars, tfid, last, due, call, faults>>
    BY <2>2 DEF Edit, TypeOK
  <2> QED BY <2>2, <2>3 DEF TypeOK, MenuOK, resVars
<1>3. ASSUME NEW r \in Resources, Reconcile(r) PROVE TypeOK'
  <2>1. UNCHANGED <<flavour, menu, want, tfid, last, call, acts, edits, faults>> /\ due[r] = Idle
    BY <1>3 DEF Reconcile
  <2>2. call # NoCall => call.r # r
    BY <2>1 DEF TypeOK, Idle, Taken, Ops
  <2>3. CASE life' = [life EXCEPT ![r] = "gone"] /\ UNCHANGED due
    BY <2>1, <2>3 DEF TypeOK, Idle
  <2>4. CASE UNCHANGED life /\ life[r] \in {"live", "deleting"}
             /\ \E op \in {"create", "read"} :
                  due' = [due EXCEPT ![r] = [op |-> op, want |-> want[r], deleted |-> life[r] = "deleting"]]
    <3>1. due' \in [Resources -> [op : Ops, want : Wanted, deleted : BOOLEAN]]
      BY <2>4 DEF TypeOK, Ops
    <3>2. \A q \in Resources : /\ due'[q].op # "none" => life'[q] \in {"live", "deleting"}
                               /\ due'[q].deleted => life'[q] = "deleting"
      BY <2>4 DEF TypeOK
    <3>3. call # NoCall => due'[call.r] = due[call.r]
      BY <2>2, <2>4 DEF TypeOK
    <3> QED BY <2>1, <2>4, <3>1, <3>2, <3>3 DEF TypeOK
  <2> QED BY <1>3, <2>3, <2>4 DEF Reconcile
<1>4. ASSUME NEW r \in Resources, Enter(r) PROVE TypeOK'
  <2>1. UNCHANGED <<flavour, menu, life, want, tfid, last, acts, edits, faults>> /\ call = NoCall
    BY <1>4 DEF Enter
  <2>2. CASE due' = [due EXCEPT ![r] = Idle] /\ UNCHANGED call
    BY <2>1, <2>2 DEF TypeOK, Idle, Ops, Wanted
  <2>3. CASE /\ call' = [r |-> r, op |-> due[r].op, want |-> due[r].want,
                         deleted |-> due[r].deleted, stage |-> FirstStage(due[r]), item |-> NoID]
             /\ UNCHANGED due /\ due[r].op # "none"
    <3>1. due[r].op \in Ops \ {"none"} /\ FirstStage(due[r]) \in {"lookup", "put", "dispose"}
      BY <2>3 DEF TypeOK, FirstStage
    <3>2. call' \in [r : Resources, op : Ops \ {"none"}, want : Wanted,
                     deleted : BOOLEAN, stage : Stages, item : Nat]
      BY <2>3, <3>1 DEF TypeOK, Stages, NoID
    <3>3. due[r] = Taken(call') /\ call'.r = r /\ call'.stage = FirstStage(due[r])
      BY <2>3 DEF TypeOK, Taken
    <3> QED BY <2>1, <2>3, <3>1, <3>2, <3>3 DEF TypeOK
  <2> QED BY <1>4, <2>2, <2>3 DEF Enter
<1> QED BY <1>1, <1>2, <1>3, <1>4 DEF Worker

\* The menus to start from have ids 1, 2, ...
LEMMA TypeInit == Init => TypeOK
<1> SUFFICES ASSUME Init PROVE TypeOK
  OBVIOUS
<1>1. PICK rows \in StartRows[flavour] : menu = MenuOf(rows)
  BY DEF Init
<1>2. Len(rows) \in Nat /\ DOMAIN rows = 1..Len(rows)
  <2>1. rows \in Seq([ident : STRING, default : STRING, revoked : STRING, issued : STRING, body : STRING])
    BY StartAssumption DEF Init
  <2> QED BY <2>1
<1>3. menu.next \in Nat \ {0} /\ DOMAIN menu.rows \subseteq 1..(menu.next - 1)
  BY <1>1, <1>2 DEF MenuOf
<1> QED BY <1>3, BoundsAssumption DEF Init, TypeOK, Idle, Ops, Wanted, NoID

\* Every step keeps the types.
LEMMA TypeStep == TypeOK /\ [Next]_vars => TypeOK'
<1> SUFFICES ASSUME TypeOK, [Next]_vars PROVE TypeOK'
  OBVIOUS
<1>1. CASE UNCHANGED vars
  BY <1>1 DEF vars, TypeOK
<1>2. CASE Next
  BY <1>2, OutsideTypes, LookupTypes, CallTypes DEF Next, CallStep
<1> QED BY <1>1, <1>2

\* A callback is in progress only where its worker called it, with the spec that
\* worker read; no worker is left with a resource that is gone; a row is named by
\* an id that was handed out, and ids are handed out once.
THEOREM TypeCorrect == Spec => []TypeOK
BY TypeInit, TypeStep, PTL DEF Spec

-----------------------------------------------------------------------------
\* One row per identity.

Identified(m) == /\ \A x \in DOMAIN m.rows : {"ident", "revoked", "issued"} \subseteq DOMAIN m.rows[x]
                 /\ \A x, y \in DOMAIN m.rows :
                      m.rows[x].ident = m.rows[y].ident => x = y \/ m.rows[x].ident = NoIdent

\* What the lookups of a callback have found out still holds when it writes, since
\* nobody else is inside operationMu: a row about to be created has an identity of
\* its own, and so has one about to be changed.  (The router sees to names itself.)
CallCoherent ==
  /\ call.op \in {"create", "update"} => call.want # NoIdent
  /\ (edits = 0 /\ flavour # "certificate") =>
       /\ call.stage = "put"   => ItemsByField(menu, call.want) = {}
       /\ call.stage = "patch" => ItemsByField(menu, call.want) \subseteq {call.item}

IInv == TypeOK /\ (edits = 0 => Identified(menu)) /\ CallCoherent

\* A callback's request keeps identities distinct, whether or not its reply arrives.
LEMMA CarriedDistinct ==
  ASSUME IInv, edits = 0, call # NoCall, Accepted(menu, call)
  PROVE  Identified(Carried(menu, call))
<1>1. call.stage \in {"put", "patch", "remove", "dispose"}
  BY DEF Accepted
<1>2. call.want \in Wanted /\ Identified(menu)
  BY DEF IInv, TypeOK
<1>3. /\ Stored(Fields(call)).ident = call.want /\ "ident" \in DOMAIN Fields(call)
      /\ Stored(NewRow(call)).ident = call.want
      /\ {"ident", "revoked", "issued"} \subseteq DOMAIN Stored(NewRow(call))
  BY <1>2, StoredIdent, StoredRow
<1>4. CASE call.stage = "put"
  <2> DEFINE m == Create(menu, NewRow(call))
  <2>1. menu.next \notin DOMAIN menu.rows
    BY DEF IInv, TypeOK
  <2>2. /\ DOMAIN m.rows = DOMAIN menu.rows \cup {menu.next}
        /\ m.rows[menu.next].ident = call.want
        /\ {"ident", "revoked", "issued"} \subseteq DOMAIN m.rows[menu.next]
        /\ \A id \in DOMAIN menu.rows : m.rows[id] = menu.rows[id]
    BY <1>3, <2>1, CreateEffect
  <2>3. \A id \in DOMAIN menu.rows : menu.rows[id].ident # call.want
    <3>1. CASE flavour # "certificate"
      BY <1>4, <3>1 DEF IInv, CallCoherent, ItemsByField
    <3>2. CASE flavour = "certificate"
      BY <1>4, <3>2 DEF IInv, TypeOK, Accepted, Vacant, ItemsByField, NoID
    <3> QED BY <3>1, <3>2
  <2>4. Carried(menu, call) = m
    BY <1>4 DEF Carried
  <2> HIDE DEF m
  <2> QED BY <1>2, <2>2, <2>3, <2>4 DEF Identified
<1>5. CASE call.stage = "patch"
  <2> DEFINE m == Update(menu, call.item, Fields(call))
  <2>1. call.item \in DOMAIN menu.rows
    BY <1>5 DEF Accepted
  <2>2. /\ DOMAIN m.rows = DOMAIN menu.rows
        /\ m.rows[call.item].ident = call.want
        /\ DOMAIN menu.rows[call.item] \subseteq DOMAIN m.rows[call.item]
        /\ \A id \in DOMAIN menu.rows \ {call.item} : m.rows[id] = menu.rows[id]
    BY <1>3, <2>1, UpdateEffect
  <2>3. \A id \in DOMAIN menu.rows : menu.rows[id].ident = call.want => id = call.item
    <3>1. CASE flavour # "certificate"
      BY <1>5, <3>1 DEF IInv, CallCoherent, ItemsByField
    <3>2. CASE flavour = "certificate"
      BY <1>5, <3>2 DEF Accepted, Vacant, ItemsByField
    <3> QED BY <3>1, <3>2
  <2>4. Carried(menu, call) = m
    BY <1>5 DEF Carried
  <2> HIDE DEF m
  <2> QED BY <1>2, <2>1, <2>2, <2>3, <2>4 DEF Identified
<1>6. CASE call.stage = "remove"
  <2>1. Carried(menu, call) = Delete(menu, call.item)
    BY <1>6 DEF Carried
  <2> QED BY <1>2, <2>1, DeleteEffect DEF Identified
<1>7. CASE call.stage = "dispose"
  <2> DEFINE id == CHOOSE x \in ItemsByField(menu, tfid[call.r]) : TRUE
             m  == Update(menu, id, [revoked |-> "true"])
  <2>1. id \in DOMAIN menu.rows
    BY <1>7 DEF Accepted, ItemsByField
  <2>2. Carried(menu, call) \in {m, Delete(menu, id)}
    BY <1>7 DEF Carried, Disposed
  <2> HIDE DEF id
  <2>3. DOMAIN [revoked |-> "true"] = {"revoked"} /\ "ident" \in DOMAIN menu.rows[id]
    BY <1>2, <2>1 DEF Identified
  <2>4. /\ DOMAIN m.rows = DOMAIN menu.rows
        /\ m.rows[id].ident = menu.rows[id].ident
        /\ DOMAIN menu.rows[id] \subseteq DOMAIN m.rows[id]
        /\ \A x \in DOMAIN menu.rows \ {id} : m.rows[x] = menu.rows[x]
    BY <2>1, <2>3, UpdateEffect
  <2> HIDE DEF m
  <2>5. Identified(m)
    BY <1>2, <2>1, <2>4 DEF Identified
  <2>6. Identified(Delete(menu, id))
    BY <1>2, DeleteEffect DEF Identified
  <2> QED BY <2>2, <2>5, <2>6
<1> QED BY <1>1, <1>4, <1>5, <1>6, <1>7

\* A lookup goes on to a write only with what the write needs.
LEMMA LookupCoherent ==
  ASSUME IInv, Lookup
  PROVE  (edits = 0 => Identified(menu))' /\ CallCoherent'
<1>1. menu' = menu /\ edits' = edits /\ flavour' = flavour /\ TypeOK /\ call # NoCall
  BY LookupItem DEF Lookup, IInv, resVars
<1>2. CASE Fail \/ \E id, op : Return(id, op)
  <2>1. call' = NoCall
    BY <1>2 DEF Fail, Return
  <2> QED BY <1>1, <2>1, NoCallEnds DEF IInv, CallCoherent
<1>3. ASSUME NEW stage, NEW item, Goto(stage, item)
      PROVE  /\ call'.stage = stage /\ call'.item = item /\ call'.want = call.want
             /\ call'.op = call.op
  BY <1>1, <1>3 DEF Goto, TypeOK
<1>4. CASE \E item \in Nat :
            /\ item = NoID => ItemsByField(menu, LookupKey(call)) = {}
            /\ item # NoID => item \in ItemsByField(menu, LookupKey(call))
            /\ CommentIdentity(item) \/ InterfaceIdentity(item)
  <2> PICK item \in Nat :
            /\ item = NoID => ItemsByField(menu, LookupKey(call)) = {}
            /\ item # NoID => item \in ItemsByField(menu, LookupKey(call))
            /\ CommentIdentity(item) \/ InterfaceIdentity(item)
    BY <1>4
  <2>1. \/ Fail
        \/ \E id, op : Return(id, op)
        \/ Goto("put", NoID) /\ item = NoID /\ call.op = "create"
        \/ Goto("patch", item) /\ item # NoID /\ call.op \in {"create", "update"}
             /\ (call.op = "update" => call.want = tfid[call.r])
        \/ \E stage \in {"fetch", "vacant", "remove"} : Goto(stage, item)
    BY DEF CommentIdentity, CommentIdentityCreate, CommentIdentityRead, CommentIdentityUpdate,
           CommentIdentityDelete, InterfaceIdentity, InterfaceIdentityCreate,
           InterfaceIdentityRead, InterfaceIdentityUpdate, InterfaceIdentityDelete
  <2>2. CASE Goto("put", NoID) /\ item = NoID /\ call.op = "create"
    <3>1. ItemsByField(menu, call.want) = {}
      BY <2>2 DEF LookupKey
    <3> QED BY <1>1, <1>3, <2>2, <3>1 DEF IInv, CallCoherent
  <2>3. CASE /\ Goto("patch", item) /\ item # NoID /\ call.op \in {"create", "update"}
             /\ (call.op = "update" => call.want = tfid[call.r])
    <3>1. item \in ItemsByField(menu, call.want)
      BY <2>3 DEF LookupKey
    <3>2. edits = 0 => ItemsByField(menu, call.want) \subseteq {item}
      <4>1. call.want # NoIdent
        BY <2>3 DEF IInv, CallCoherent
      <4> QED BY <3>1, <4>1 DEF IInv, Identified, ItemsByField
    <3> QED BY <1>1, <1>3, <2>3, <3>2 DEF IInv, CallCoherent
  <2>4. CASE \E stage \in {"fetch", "vacant", "remove"} : Goto(stage, item)
    BY <1>1, <1>3, <2>4 DEF IInv, CallCoherent
  <2> QED BY <1>2, <2>1, <2>2, <2>3, <2>4
<1>5. CASE flavour = "certificate" /\ \E item \in Nat : Certificate(item)
  <2>1. Fail \/ (\E id, op : Return(id, op)) \/ \E stage, item : Goto(stage, item)
    BY <1>5 DEF Certificate, Observed
  <2>2. CASE \E stage, item : Goto(stage, item)
    BY <1>1, <1>3, <1>5, <2>2 DEF IInv, CallCoherent
  <2> QED BY <1>2, <2>1, <2>2
<1> QED BY <1>1, <1>2, <1>4, <1>5, LookupItem

\* What a menu is given to start with is made of rows.
LEMMA SeqElements ==
  ASSUME NEW S, NEW s \in Seq(S)
  PROVE  \A i \in DOMAIN s : s[i] \in S
OBVIOUS

\* It starts so.
LEMMA UniqueInit == Init => IInv
<1> SUFFICES ASSUME Init PROVE IInv
  OBVIOUS
<1>1. TypeOK
  BY TypeInit
<1>2. PICK rows \in StartRows[flavour] : menu = MenuOf(rows)
  BY DEF Init
<1>3. Identified(menu)
  <2>1. menu.rows = [i \in DOMAIN rows |-> rows[i]] /\ flavour \in DOMAIN StartRows
    BY <1>1, <1>2 DEF MenuOf, TypeOK
  <2>2. /\ rows \in Seq([ident : STRING, default : STRING, revoked : STRING, issued : STRING, body : STRING])
        /\ \A i, j \in DOMAIN rows : (rows[i].ident = rows[j].ident /\ rows[i].ident # "") => i = j
    BY <2>1, StartAssumption
  <2>3. \A i \in DOMAIN rows : rows[i] \in [ident : STRING, default : STRING, revoked : STRING, issued : STRING, body : STRING]
    BY <2>2, SeqElements
  <2>4. ASSUME NEW i \in DOMAIN rows
        PROVE  {"ident", "revoked", "issued"} \subseteq DOMAIN rows[i]
    <3>1. rows[i] \in [ident : STRING, default : STRING, revoked : STRING, issued : STRING, body : STRING]
      BY <2>3
    <3> QED BY ONLY <3>1
  <2>5. \A x \in DOMAIN menu.rows : {"ident", "revoked", "issued"} \subseteq DOMAIN menu.rows[x]
    BY ONLY <2>1, <2>4
  <2>6. \A x, y \in DOMAIN menu.rows :
          menu.rows[x].ident = menu.rows[y].ident => x = y \/ menu.rows[x].ident = NoIdent
    BY ONLY <2>1, <2>2 DEF NoIdent
  <2> QED BY ONLY <2>5, <2>6 DEF Identified
<1> QED BY <1>1, <1>3, NoCallEnds DEF Init, IInv, CallCoherent

\* And every step keeps it so.
LEMMA UniqueStep == IInv /\ [Next]_vars => IInv'
<1> SUFFICES ASSUME IInv, [Next]_vars PROVE IInv'
  OBVIOUS
<1>0. TypeOK'
  BY TypeStep DEF IInv
<1> SUFFICES (edits = 0 => Identified(menu))' /\ CallCoherent'
  BY <1>0 DEF IInv
<1>1. CASE UNCHANGED vars
  BY <1>1 DEF vars, IInv, CallCoherent
<1>2. CASE UserStep
  BY <1>2 DEF UserStep, UserCreate, UserRename, UserDelete, Act, IInv, CallCoherent
<1>3. CASE HandStep
  <2>1. Edit
    BY <1>3, Zenon DEF HandStep, HandAdd, HandRename, HandRemove
  <2>2. edits' = edits + 1 /\ edits \in Nat
    BY <2>1 DEF Edit, IInv, TypeOK
  <2>3. call' = call
    BY <2>1 DEF Edit
  <2> QED BY <2>2, <2>3 DEF IInv, CallCoherent
<1>4. CASE Lookup
  BY <1>4, LookupCoherent
<1>5. CASE RejectExisting
  <2>1. menu' = menu /\ edits' = edits /\ flavour' = flavour /\ call # NoCall
    BY <1>5, NoCallStage DEF RejectExisting, resVars
  <2>2. CASE Fail
    BY <2>1, <2>2, NoCallEnds DEF Fail, IInv, CallCoherent
  <2>3. CASE ItemsByField(menu, call.want) = {} /\ Goto("patch", call.item)
    <3>1. call'.want = call.want /\ call'.op = call.op
      BY <2>1, <2>3 DEF Goto, IInv, TypeOK
    <3>2. call'.stage = "patch"
      BY <2>1, <2>3 DEF Goto, IInv, TypeOK
    <3> QED BY <2>1, <2>3, <3>1, <3>2 DEF IInv, CallCoherent
  <2> QED BY <1>5, <2>2, <2>3 DEF RejectExisting
<1>6. CASE Fetch
  <2>1. menu' = menu /\ edits' = edits /\ call' = NoCall
    BY <1>6 DEF Fetch, Observed, Return
  <2> QED BY <2>1, NoCallEnds DEF IInv, CallCoherent
<1>7. CASE Write \/ RequestLost
  <2>1. /\ edits' = edits /\ call # NoCall /\ call' = NoCall
        /\ menu' = menu \/ (Accepted(menu, call) /\ menu' = Carried(menu, call))
    BY <1>7, NoCallStage DEF Write, RequestLost, Fail, Return
  <2> QED BY <2>1, CarriedDistinct, NoCallEnds DEF IInv, CallCoherent
<1>8. ASSUME NEW r \in Resources, Worker(r)
      PROVE  (edits = 0 => Identified(menu))' /\ CallCoherent'
  <2>1. CASE Reconcile(r)
    BY <2>1 DEF Reconcile, IInv, CallCoherent
  <2>2. CASE Enter(r)
    <3>1. /\ menu' = menu /\ edits' = edits /\ flavour' = flavour
          /\ \/ call' = call
             \/ /\ call'.stage = FirstStage(due[r]) /\ ~Refuses(due[r])
                /\ call'.op = due[r].op /\ call'.want = due[r].want
      BY <2>2 DEF Enter
    <3>2. flavour # "certificate" => FirstStage(due[r]) = "lookup"
      BY DEF FirstStage
    <3> QED BY <3>1, <3>2 DEF IInv, CallCoherent, Refuses
  <2> QED BY <1>8, <2>1, <2>2 DEF Worker
<1>9. CASE Dispose
  <2>1. /\ edits' = edits /\ call # NoCall
        /\ menu' = menu \/ (Accepted(menu, call) /\ menu' = Carried(menu, call))
    BY <1>9, NoCallStage DEF Dispose
  <2>2. call' = NoCall \/ (call'.stage = "follow" /\ call'.op = call.op /\ call'.want = call.want)
    BY <1>9, <2>1 DEF Dispose, Fail, Goto, IInv, TypeOK
  <2> QED BY <2>1, <2>2, CarriedDistinct, NoCallEnds DEF IInv, CallCoherent
<1>10. CASE FollowUp
  <2>1. menu' = menu /\ edits' = edits /\ call # NoCall
    BY <1>10, NoCallStage DEF FollowUp
  <2>2. call' = NoCall \/ (call'.stage = "remove" /\ call'.op = call.op /\ call'.want = call.want)
    BY <1>10, <2>1 DEF FollowUp, Fail, Return, Goto, IInv, TypeOK
  <2> QED BY <2>1, <2>2, NoCallEnds DEF IInv, CallCoherent
<1> QED BY <1>1, <1>2, <1>3, <1>4, <1>5, <1>6, <1>7, <1>8, <1>9, <1>10 DEF Next, CallStep

\* "enforced unique by this provider (RouterOS does not enforce it)": however many
\* resources create, rename and delete rows, and whatever replies are lost, no two
\* rows have one comment or interface until somebody edits the menu by hand,
\* whatever rows without a comment there are.
THEOREM IdentityUnique == Spec => []UniqueIdentity
<1>1. IInv => UniqueIdentity
  BY DEF IInv, Identified, UniqueIdentity
<1> QED BY <1>1, UniqueInit, UniqueStep, PTL DEF Spec

-----------------------------------------------------------------------------
\* Certificates: revoked, then removed, and never left revoked.

\* The state of a worker: the id is the name the spec gives or none, the callback it
\* is about to call fits that, and it deletes only what is being deleted.
Coherent(r) ==
  /\ tfid[r] \in {NoIdent, want[r]}
  /\ life[r] = "none" => tfid[r] = NoIdent
  /\ due[r].op # "none" => due[r].want = want[r]
  /\ due[r].op \in {"read", "update", "delete"} => tfid[r] # NoIdent
  /\ due[r].op = "create" => tfid[r] = NoIdent
  /\ due[r].op = "delete" => due[r].deleted

\* A revoked row is one that a resource being deleted still has in its state.
Backed(m) ==
  \A id \in DOMAIN m.rows :
    m.rows[id].revoked = "true" =>
      \E r \in Resources : life[r] = "deleting" /\ tfid[r] = m.rows[id].ident /\ tfid[r] # NoIdent

\* Which callback is at which stage, and what certificateRemoval knows of the row
\* after upstream's delete.
Disposing ==
  /\ call.stage \in {"none", "lookup", "put", "patch", "dispose", "follow", "remove"}
  /\ call.stage = "lookup" => call.op \in {"read", "update"}
  /\ call.stage = "put" => call.op = "create"
  /\ call.stage = "patch" =>
       call.op = "update" /\ call.item \in ItemsByField(menu, call.want)
  /\ call.stage \in {"dispose", "follow", "remove"} => call.op = "delete"
  /\ call.stage = "follow" =>
       \A id \in ItemsByField(menu, tfid[call.r]) : menu.rows[id].revoked = "true"
  /\ call.stage = "remove" =>
       /\ call.item \in ItemsByField(menu, tfid[call.r])
       /\ menu.rows[call.item].revoked = "true"

\* What the last read of a resource left in its state is true of the row it read, as
\* long as that row is there; another row of the name is a later one.
Seen(m, r) ==
  /\ last[r].row < m.next
  /\ life[r] = "none" => last[r].row = NoID
  /\ \A id \in DOMAIN m.rows :
       /\ id = last[r].row => (last[r].ca <=> m.rows[id].issued = "true")
       /\ m.rows[id].ident = want[r] => last[r].row <= id

Pending == /\ \A r \in Resources : Coherent(r) /\ Seen(menu, r)
           /\ Backed(menu) /\ Disposing
CertInv == IInv /\ ((edits = 0 /\ flavour = "certificate") => Pending)

\* An error return leaves every worker with what it had.
LEMMA FailCoherent ==
  ASSUME TypeOK, call # NoCall, \A r \in Resources : Coherent(r), Fail, UNCHANGED resVars
  PROVE  \A r \in Resources : Coherent(r)'
<1>1. due' = [due EXCEPT ![call.r] = Idle] /\ UNCHANGED <<tfid, life, want>>
  BY DEF Fail, resVars
<1>2. \A r \in Resources : due'[r] = Idle \/ due'[r] = due[r]
  BY <1>1 DEF TypeOK
<1> QED BY <1>1, <1>2 DEF Coherent, Idle

\* So does going on to the next request.
LEMMA GotoCoherent ==
  ASSUME \A r \in Resources : Coherent(r), NEW stage, NEW item, Goto(stage, item), UNCHANGED resVars
  PROVE  \A r \in Resources : Coherent(r)'
BY DEF Goto, resVars, Coherent

\* And a return that leaves the name or nothing, and asks for what goes with it.
LEMMA ReturnCoherent ==
  ASSUME TypeOK, call # NoCall, \A r \in Resources : Coherent(r), UNCHANGED resVars,
         NEW id \in {NoIdent, want[call.r]}, NEW op \in Ops, Return(id, op),
         op \in {"read", "update", "delete"} => id # NoIdent,
         op = "create" => id = NoIdent,
         op = "delete" => call.deleted
  PROVE  \A r \in Resources : Coherent(r)'
<1> USE DEF Coherent
<1>1. call.r \in Resources /\ due[call.r] = Taken(call) /\ call.op # "none"
  BY DEF TypeOK, Ops
<1>2. due[call.r].op # "none" /\ due[call.r].deleted = call.deleted
  BY <1>1 DEF Taken
<1> DEFINE d == IF op = "none" THEN Idle ELSE [due[call.r] EXCEPT !.op = op]
<1>3. d.op = op /\ (op # "none" => d.want = want[call.r] /\ d.deleted = call.deleted)
  <2>1. due[call.r] \in [op : Ops, want : Wanted, deleted : BOOLEAN]
    BY <1>1 DEF TypeOK
  <2>2. due[call.r].want = want[call.r]
    BY <1>1, <1>2
  <2> QED BY <1>2, <2>1, <2>2 DEF Idle
<1>4. due' = [due EXCEPT ![call.r] = d] /\ tfid' = [tfid EXCEPT ![call.r] = id]
      /\ UNCHANGED <<life, want>>
  BY DEF Return, TypeOK, resVars
<1> HIDE DEF d
<1>5. life[call.r] # "none"
  BY <1>1, <1>2 DEF TypeOK
<1>6. due'[call.r] = d /\ tfid'[call.r] = id
  BY <1>1, <1>4 DEF TypeOK
<1>7. \A r \in Resources \ {call.r} : due'[r] = due[r] /\ tfid'[r] = tfid[r]
  BY <1>1, <1>4 DEF TypeOK
<1>8. ASSUME NEW r \in Resources, r = call.r PROVE Coherent(r)'
  BY <1>3, <1>4, <1>5, <1>6, <1>8
<1>9. \A r \in Resources \ {call.r} : Coherent(r)'
  BY <1>4, <1>7
<1> QED BY <1>8, <1>9

\* What upstream's delete does to the row of the name, and to no other.
LEMMA DisposedEffect ==
  ASSUME Identified(menu), call.stage = "dispose", Accepted(menu, call)
  PROVE  \E id \in ItemsByField(menu, tfid[call.r]) :
           /\ Carried(menu, call).next = menu.next
           /\ ~last[call.r].ca => Carried(menu, call) = Delete(menu, id)
           /\ last[call.r].ca =>
                /\ DOMAIN Carried(menu, call).rows = DOMAIN menu.rows
                /\ \A x \in DOMAIN menu.rows \ {id} : Carried(menu, call).rows[x] = menu.rows[x]
                /\ Carried(menu, call).rows[id].ident = menu.rows[id].ident
                /\ Carried(menu, call).rows[id].issued = menu.rows[id].issued
                /\ Carried(menu, call).rows[id].revoked = "true"
<1> DEFINE id == CHOOSE x \in ItemsByField(menu, tfid[call.r]) : TRUE
           m  == Update(menu, id, [revoked |-> "true"])
<1>1. id \in ItemsByField(menu, tfid[call.r]) /\ id \in DOMAIN menu.rows
  BY DEF Accepted, ItemsByField
<1>2. Carried(menu, call) = IF last[call.r].ca THEN m ELSE Delete(menu, id)
  BY DEF Carried, Disposed
<1> HIDE DEF id
<1>3. Stored([revoked |-> "true"]).revoked = "true" /\ DOMAIN [revoked |-> "true"] = {"revoked"}
  BY IdentsAssumption, DefaultsAssumption DEF Stored
<1>4. {"ident", "issued"} \subseteq DOMAIN menu.rows[id]
  BY <1>1 DEF Identified
<1>5. /\ DOMAIN m.rows = DOMAIN menu.rows /\ m.next = menu.next
      /\ \A x \in DOMAIN menu.rows \ {id} : m.rows[x] = menu.rows[x]
      /\ m.rows[id].ident = menu.rows[id].ident /\ m.rows[id].revoked = "true"
      /\ m.rows[id].issued = menu.rows[id].issued
  BY <1>1, <1>3, <1>4, UpdateEffect
<1> HIDE DEF m
<1> QED BY <1>1, <1>2, <1>5, DeleteEffect

\* A request of a callback, its reply lost or not, leaves revoked only what the
\* resource it belongs to will come back for.
LEMMA CarriedBacked ==
  ASSUME IInv, edits = 0, flavour = "certificate", Pending, call # NoCall, Accepted(menu, call)
  PROVE  Backed(Carried(menu, call)) /\ \A r \in Resources : Seen(Carried(menu, call), r)
<1>1. /\ call.r \in Resources /\ due[call.r] = Taken(call) /\ Identified(menu) /\ Coherent(call.r)
      /\ call.want \in Wanted
  BY DEF IInv, TypeOK, Pending
<1>2. due[call.r].op = call.op /\ due[call.r].want = call.want /\ due[call.r].deleted = call.deleted
  BY <1>1 DEF Taken
<1>3. call.stage \in {"put", "patch", "remove", "dispose"}
  BY DEF Accepted
<1>4. /\ Stored(NewRow(call)).ident = call.want /\ Stored(NewRow(call)).revoked = "false"
      /\ Stored(Fields(call)).ident = call.want /\ "ident" \in DOMAIN Fields(call)
      /\ {"revoked", "issued"} \cap DOMAIN Fields(call) = {}
  BY <1>1, StoredIdent, StoredRow
<1>5. \A r \in Resources : last[r].row \in Nat /\ Seen(menu, r)
  BY DEF IInv, TypeOK, Pending
<1>6. menu.next \in Nat /\ menu.next \notin DOMAIN menu.rows
  BY DEF IInv, TypeOK
<1>7. CASE call.stage = "put"
  <2> DEFINE m == Create(menu, NewRow(call))
  <2>1. Carried(menu, call) = m
    BY <1>7 DEF Carried
  <2>2. /\ m.next = menu.next + 1 /\ DOMAIN m.rows = DOMAIN menu.rows \cup {menu.next}
        /\ m.rows[menu.next].revoked = "false"
        /\ \A x \in DOMAIN menu.rows : m.rows[x] = menu.rows[x]
    BY <1>4, <1>6, CreateEffect
  <2> HIDE DEF m
  <2>3. Backed(m)
    BY <2>2 DEF Backed, Pending
  <2>4. \A r \in Resources : Seen(m, r)
    BY <1>5, <1>6, <2>2 DEF Seen
  <2> QED BY <2>1, <2>3, <2>4
<1>8. ASSUME NEW m, m.next = menu.next, DOMAIN m.rows \subseteq DOMAIN menu.rows,
             \A x \in DOMAIN m.rows : /\ m.rows[x].ident = menu.rows[x].ident
                                      /\ m.rows[x].issued = menu.rows[x].issued
      PROVE  \A r \in Resources : Seen(m, r)
  BY <1>5, <1>8 DEF Seen
<1>9. CASE call.stage = "patch"
  <2> DEFINE m == Update(menu, call.item, Fields(call))
  <2>1. call.item \in DOMAIN menu.rows /\ Carried(menu, call) = m
    BY <1>9 DEF Accepted, Carried
  <2>2. {"revoked", "issued"} \subseteq DOMAIN menu.rows[call.item]
    BY <1>1, <2>1 DEF Identified
  <2>3. /\ DOMAIN m.rows = DOMAIN menu.rows /\ m.next = menu.next
        /\ m.rows[call.item].ident = call.want
        /\ m.rows[call.item].revoked = menu.rows[call.item].revoked
        /\ m.rows[call.item].issued = menu.rows[call.item].issued
        /\ \A x \in DOMAIN menu.rows \ {call.item} : m.rows[x] = menu.rows[x]
    BY <1>4, <2>1, <2>2, UpdateEffect
  <2>4. menu.rows[call.item].ident = call.want
    BY <1>9 DEF Pending, Disposing, ItemsByField
  <2> HIDE DEF m
  <2>5. Backed(m)
    BY <2>3, <2>4 DEF Backed, Pending
  <2>6. \A r \in Resources : Seen(m, r)
    BY <1>8, <2>3, <2>4
  <2> QED BY <2>1, <2>5, <2>6
<1>10. ASSUME NEW id PROVE Backed(Delete(menu, id)) /\ \A r \in Resources : Seen(Delete(menu, id), r)
  <2>1. /\ Delete(menu, id).next = menu.next
        /\ DOMAIN Delete(menu, id).rows = DOMAIN menu.rows \ {id}
        /\ \A x \in DOMAIN menu.rows \ {id} : Delete(menu, id).rows[x] = menu.rows[x]
    BY DeleteEffect
  <2> QED BY <1>8, <2>1 DEF Backed, Pending
<1>11. CASE call.stage = "remove"
  BY <1>10, <1>11 DEF Carried
<1>12. CASE call.stage = "dispose"
  <2>1. life[call.r] = "deleting" /\ tfid[call.r] # NoIdent
    BY <1>1, <1>2, <1>12 DEF Pending, Disposing, Coherent, IInv, TypeOK
  <2> DEFINE m == Carried(menu, call)
  <2>2. PICK id \in ItemsByField(menu, tfid[call.r]) :
           /\ m.next = menu.next
           /\ ~last[call.r].ca => m = Delete(menu, id)
           /\ last[call.r].ca =>
                /\ DOMAIN m.rows = DOMAIN menu.rows
                /\ \A x \in DOMAIN menu.rows \ {id} : m.rows[x] = menu.rows[x]
                /\ m.rows[id].ident = menu.rows[id].ident
                /\ m.rows[id].issued = menu.rows[id].issued
                /\ m.rows[id].revoked = "true"
    BY <1>1, <1>12, DisposedEffect
  <2>3. id \in DOMAIN menu.rows /\ menu.rows[id].ident = tfid[call.r]
    BY DEF ItemsByField
  <2> HIDE DEF m
  <2>4. CASE last[call.r].ca
    <3>1. Backed(m)
      BY <1>1, <2>1, <2>2, <2>3, <2>4 DEF Backed, Pending
    <3>2. \A r \in Resources : Seen(m, r)
      BY <1>8, <2>2, <2>3, <2>4
    <3> QED BY <3>1, <3>2 DEF m
  <2>5. CASE ~last[call.r].ca
    BY <1>10, <2>2, <2>5 DEF m
  <2> QED BY <2>4, <2>5
<1> QED BY <1>3, <1>7, <1>9, <1>11, <1>12

\* Nobody is in a callback: nothing is known of one.
LEMMA IdleDisposing == call' = NoCall => Disposing'
<1>1. call' = NoCall => call'.stage = "none"
  BY NoCallStage
<1> QED BY <1>1 DEF Disposing

\* People and workers between callbacks.
LEMMA OutsidePending ==
  ASSUME TypeOK, flavour = "certificate", Pending,
         UserStep \/ \E r \in Resources : Worker(r)
  PROVE  Pending'
<1>1. CASE UserStep
  <2>1. PICK r \in Resources : UserDelete(r) \/ \E i \in Idents : UserCreate(r, i)
    BY <1>1 DEF UserStep, UserRename
  <2>2. UNCHANGED <<flavour, menu, tfid, last, due, call>>
    BY <2>1 DEF UserDelete, UserCreate, Act
  <2>3. \A q \in Resources : life[q] = "deleting" => life'[q] = "deleting"
    BY <2>1 DEF UserDelete, UserCreate, TypeOK
  <2>4. Backed(menu)' /\ Disposing'
    BY <2>2, <2>3 DEF Pending, Backed, Disposing, ItemsByField
  <2>5. ASSUME NEW q \in Resources PROVE Coherent(q)' /\ Seen(menu, q)'
    <3>0. Coherent(q) /\ Seen(menu, q) /\ DOMAIN menu.rows \subseteq Nat
      BY DEF Pending, TypeOK
    <3>1. CASE UserDelete(r)
      <4>1. want' = want /\ (life'[q] = life[q] \/ (life[q] = "live" /\ life'[q] = "deleting"))
        BY <3>1 DEF UserDelete, TypeOK
      <4>2. Coherent(q)'
        BY <2>2, <3>0, <4>1 DEF Coherent
      <4>3. Seen(menu, q)'
        BY <2>2, <3>0, <4>1 DEF Seen
      <4> QED BY <4>2, <4>3
    <3>2. CASE \E i \in Idents : UserCreate(r, i)
      <4>1. life[r] = "none" /\ due[r].op = "none" /\ tfid[r] = NoIdent
            /\ life'[r] = "live" /\ last[r].row = NoID
        BY <3>2 DEF UserCreate, TypeOK, Pending, Coherent, Seen
      <4>2. q # r => want'[q] = want[q] /\ life'[q] = life[q]
        BY <3>2 DEF UserCreate, TypeOK
      <4>3. CASE q = r
        <5>1. Coherent(q)'
          BY <2>2, <4>1, <4>3 DEF Coherent
        <5>2. Seen(menu, q)'
          BY <2>2, <3>0, <4>1, <4>3 DEF Seen, NoID
        <5> QED BY <5>1, <5>2
      <4>4. CASE q # r
        <5>1. Coherent(q)'
          BY <2>2, <3>0, <4>2, <4>4 DEF Coherent
        <5>2. Seen(menu, q)'
          BY <2>2, <3>0, <4>2, <4>4 DEF Seen
        <5> QED BY <5>1, <5>2
      <4> QED BY <4>3, <4>4
    <3> QED BY <2>1, <3>1, <3>2
  <2> QED BY <2>4, <2>5 DEF Pending
<1>2. ASSUME NEW r \in Resources, Reconcile(r) PROVE Pending'
  <2>1. UNCHANGED <<flavour, menu, want, tfid, last, call>>
    BY <1>2 DEF Reconcile
  <2>2. \A q \in Resources : (life[q] = "deleting" /\ tfid[q] # NoIdent) => life'[q] = "deleting"
    BY <1>2 DEF Reconcile, TypeOK
  <2>3. Backed(menu)' /\ Disposing'
    BY <2>1, <2>2 DEF Pending, Backed, Disposing, ItemsByField
  <2>4. \/ life' = [life EXCEPT ![r] = "gone"] /\ UNCHANGED due
        \/ /\ UNCHANGED life /\ life[r] \in {"live", "deleting"}
           /\ due' = [due EXCEPT ![r] = [op |-> IF tfid[r] = NoIdent THEN "create" ELSE "read",
                                         want |-> want[r], deleted |-> life[r] = "deleting"]]
    BY <1>2 DEF Reconcile
  <2>5. ASSUME NEW q \in Resources PROVE Coherent(q)'
    <3>1. Coherent(q)
      BY DEF Pending
    <3>2. CASE q = r
      BY <2>1, <2>4, <3>1, <3>2 DEF Coherent, TypeOK
    <3>3. CASE q # r
      BY <2>1, <2>4, <3>1, <3>3 DEF Coherent, TypeOK
    <3> QED BY <3>2, <3>3
  <2>6. ASSUME NEW q \in Resources PROVE Seen(menu, q)'
    <3>1. life'[q] = "none" => life[q] = "none"
      BY <2>4 DEF TypeOK
    <3> QED BY <2>1, <3>1 DEF Pending, Seen
  <2> QED BY <2>3, <2>5, <2>6 DEF Pending
<1>3. ASSUME NEW r \in Resources, Enter(r) PROVE Pending'
  <2>1. UNCHANGED <<flavour, menu, life, want, tfid, last>> /\ due[r].op # "none"
    BY <1>3 DEF Enter
  <2>2. \A q \in Resources : due'[q] = due[q] \/ due'[q] = Idle
    BY <1>3 DEF Enter, TypeOK
  <2>3. \A q \in Resources : Coherent(q)' /\ Seen(menu, q)'
    <3>1. \A q \in Resources : Coherent(q)'
      BY <2>1, <2>2 DEF Pending, Coherent, Idle
    <3>2. \A q \in Resources : Seen(menu, q)'
      BY <2>1 DEF Pending, Seen
    <3> QED BY <3>1, <3>2
  <2>4. Backed(menu)'
    BY <2>1 DEF Pending, Backed
  <2>5. Disposing'
    <3>1. CASE call' = NoCall
      BY <3>1, IdleDisposing
    <3>2. CASE call' = [r |-> r, op |-> due[r].op, want |-> due[r].want,
                        deleted |-> due[r].deleted, stage |-> FirstStage(due[r]), item |-> NoID]
      <4>1. due[r].op \in {"read", "create", "update", "delete"}
        BY <2>1 DEF TypeOK, Ops
      <4>2. call'.stage = FirstStage(due[r]) /\ call'.op = due[r].op
        BY <3>2
      <4> QED BY <4>1, <4>2 DEF Disposing, FirstStage
    <3> QED BY <1>3, <3>1, <3>2 DEF Enter
  <2> QED BY <2>3, <2>4, <2>5 DEF Pending
<1> QED BY <1>1, <1>2, <1>3 DEF Worker

\* A return that leaves the name, or leaves none where no revoked row has the name.
LEMMA ReturnBacked ==
  ASSUME TypeOK, call # NoCall, Backed(menu'), UNCHANGED resVars, NEW id, NEW op, Return(id, op),
         tfid[call.r] \in {NoIdent, id} \/ \A x \in DOMAIN menu'.rows : menu'.rows[x].ident # tfid[call.r]
  PROVE  Backed(menu)'
<1>1. tfid' = [tfid EXCEPT ![call.r] = id] /\ life' = life
  BY DEF Return, resVars
<1>2. \A q \in Resources : q = call.r \/ tfid'[q] = tfid[q]
  BY <1>1 DEF TypeOK
<1>3. call.r \in Resources /\ (tfid[call.r] = id => tfid'[call.r] = tfid[call.r])
  BY <1>1 DEF TypeOK
<1>4. SUFFICES ASSUME NEW x \in DOMAIN menu'.rows, menu'.rows[x].revoked = "true"
               PROVE  \E r \in Resources : /\ life'[r] = "deleting" /\ tfid'[r] = menu'.rows[x].ident
                                           /\ tfid'[r] # NoIdent
  BY DEF Backed
<1>5. PICK r \in Resources : life[r] = "deleting" /\ tfid[r] = menu'.rows[x].ident /\ tfid[r] # NoIdent
  BY <1>4 DEF Backed
<1>6. tfid'[r] = tfid[r]
  BY <1>2, <1>3, <1>5
<1> QED BY <1>1, <1>5, <1>6

\* The requests of a callback.
LEMMA CallPending ==
  ASSUME IInv, edits = 0, flavour = "certificate", Pending, CallStep \/ RequestLost
  PROVE  Pending'
<1>0. /\ TypeOK /\ Identified(menu) /\ Disposing /\ Backed(menu)
      /\ \A r \in Resources : Coherent(r)
      /\ \A r \in Resources : Seen(menu, r)
  BY DEF IInv, Pending
<1>1. UNCHANGED resVars /\ call # NoCall
  BY NoCallStage DEF CallStep, RequestLost, Lookup, RejectExisting, Fetch, Write, Dispose, FollowUp
<1>2. UNCHANGED <<life, want>> /\ call.r \in Resources /\ due[call.r] = Taken(call)
  BY <1>0, <1>1 DEF resVars, TypeOK
<1>3. /\ due[call.r].op = call.op /\ due[call.r].want = call.want /\ due[call.r].deleted = call.deleted
      /\ call.op # "none" /\ call.want = want[call.r] /\ Coherent(call.r)
  <2>1. due[call.r].op = call.op /\ due[call.r].want = call.want /\ due[call.r].deleted = call.deleted
    BY <1>2 DEF Taken
  <2>2. call.op # "none"
    BY <1>0, <1>1 DEF TypeOK
  <2>3. Coherent(call.r)
    BY <1>0, <1>2
  <2> QED BY <2>1, <2>2, <2>3 DEF Coherent
<1>14. ASSUME last' = last, \A r \in Resources : Seen(menu', r) PROVE \A r \in Resources : Seen(menu, r)'
  BY <1>2, <1>14 DEF Seen
<1>4. ASSUME Fail, last' = last, Backed(menu'), \A r \in Resources : Seen(menu', r) PROVE Pending'
  <2>1. Backed(menu)' /\ call' = NoCall
    BY <1>2, <1>4 DEF Fail, Backed
  <2>2. \A r \in Resources : Coherent(r)'
    BY <1>0, <1>1, <1>4, FailCoherent
  <2> QED BY <1>4, <1>14, <2>1, <2>2, IdleDisposing DEF Pending
<1>5. ASSUME NEW stage, NEW item, Goto(stage, item)
      PROVE  /\ call'.stage = stage /\ call'.item = item /\ call'.r = call.r
             /\ call'.op = call.op /\ call'.want = call.want /\ tfid' = tfid
             /\ \A r \in Resources : Coherent(r)'
             /\ Backed(menu') => Backed(menu)'
  <2>1. /\ call'.stage = stage /\ call'.item = item /\ call'.r = call.r
        /\ call'.op = call.op /\ call'.want = call.want /\ tfid' = tfid
    BY <1>0, <1>1, <1>5 DEF Goto, TypeOK
  <2>2. Backed(menu') => Backed(menu)'
    BY <1>2, <2>1 DEF Backed
  <2> QED BY <1>0, <1>1, <1>5, <2>1, <2>2, GotoCoherent
<1>6. CASE Lookup
  <2>1. menu' = menu /\ call.stage = "lookup"
    BY <1>6 DEF Lookup
  <2>2. call.op \in {"read", "update"} /\ tfid[call.r] # NoIdent /\ LookupKey(call) = tfid[call.r]
        /\ tfid[call.r] = want[call.r]
    BY <1>0, <1>3, <2>1 DEF Disposing, Coherent, LookupKey
  <2> DEFINE items == ItemsByField(menu, LookupKey(call))
             item  == IF items = {} THEN NoID ELSE CHOOSE id \in items : TRUE
  <2>3. (Fail /\ last' = last) \/ (Certificate(item) /\ last' = Noted(item))
    BY <1>6 DEF Lookup
  <2>4. /\ item # NoID => item \in ItemsByField(menu, tfid[call.r])
        /\ item = NoID => ItemsByField(menu, tfid[call.r]) = {}
    <3>1. items \subseteq Nat \ {NoID}
      BY <1>0 DEF ItemsByField, TypeOK, NoID
    <3> QED BY <2>2, <3>1
  <2> HIDE DEF item
  <2>20. ASSUME last' = last PROVE \A r \in Resources : Seen(menu, r)'
    BY <1>0, <1>14, <2>1, <2>20
  <2>5. CASE Fail /\ last' = last
    BY <1>0, <1>4, <2>1, <2>5
  <2>6. CASE item = NoID /\ Return(NoIdent, AfterGone(call)) /\ last' = Noted(item)
    <3>1. \A x \in DOMAIN menu.rows : menu.rows[x].ident # tfid[call.r]
      BY <2>4, <2>6 DEF ItemsByField
    <3>2. AfterGone(call) \in {"none", "create"} /\ AfterGone(call) \in Ops
      BY DEF AfterGone, Ops
    <3>3. Backed(menu)'
      BY <1>0, <1>1, <2>1, <2>6, <3>1, ReturnBacked
    <3>4. \A r \in Resources : Coherent(r)'
      BY <1>0, <1>1, <2>6, <3>2, ReturnCoherent
    <3>5. last' = last
      BY <2>6 DEF Noted
    <3> QED BY <2>6, <2>20, <3>3, <3>4, <3>5, IdleDisposing DEF Return, Pending
  <2>7. CASE call.op = "read" /\ item # NoID /\ Observed(menu.rows[item]) /\ last' = Noted(item)
    <3>1. menu.rows[item].ident = tfid[call.r]
      BY <2>4, <2>7 DEF ItemsByField
    <3>2. PICK op \in {"delete", "none", "update"} :
             Return(tfid[call.r], op) /\ (op = "delete" => call.deleted)
      BY <2>7, <3>1 DEF Observed
    <3>3. Backed(menu)'
      BY <1>0, <1>1, <2>1, <3>2, ReturnBacked
    <3>4. \A r \in Resources : Coherent(r)'
      <4>1. op \in Ops
        BY DEF Ops
      <4> QED BY <1>0, <1>1, <2>2, <3>2, <4>1, ReturnCoherent
    <3>5. ASSUME NEW r \in Resources PROVE Seen(menu, r)'
      <4>1. last' = [last EXCEPT ![call.r] = [ca |-> menu.rows[item].issued = "true", row |-> item]]
        BY <2>7 DEF Noted
      <4>2. CASE r # call.r
        <5>1. last'[r] = last[r]
          BY <1>0, <4>1, <4>2 DEF TypeOK
        <5> QED BY <1>0, <1>2, <2>1, <5>1 DEF Seen
      <4>3. CASE r = call.r
        <5>1. last'[r].row = item /\ (last'[r].ca <=> menu.rows[item].issued = "true")
          BY <1>0, <1>2, <4>1, <4>3 DEF TypeOK
        <5>2. item \in DOMAIN menu.rows /\ item \in Nat /\ item < menu.next
          BY <1>0, <2>4, <2>7 DEF ItemsByField, TypeOK
        <5>3. \A id \in DOMAIN menu.rows : menu.rows[id].ident = want[r] => id = item
          BY <1>0, <2>2, <3>1, <4>3, <5>2 DEF Identified
        <5>4. life'[r] # "none"
          BY <1>0, <1>2, <1>3, <4>3 DEF TypeOK
        <5> QED BY <1>2, <2>1, <5>1, <5>2, <5>3, <5>4 DEF Seen
      <4> QED BY <4>2, <4>3
    <3> QED BY <3>2, <3>3, <3>4, <3>5, IdleDisposing DEF Return, Pending
  <2>8. CASE call.op = "update" /\ item # NoID /\ Goto("patch", item) /\ last' = Noted(item)
    <3>1. Disposing'
      BY <1>3, <1>5, <2>1, <2>2, <2>4, <2>8 DEF Disposing
    <3>2. last' = last
      BY <2>8 DEF Noted
    <3> QED BY <1>0, <1>5, <2>1, <2>8, <2>20, <3>1, <3>2 DEF Pending
  <2>9. CASE Fail /\ last' = Noted(item) /\ call.op = "update"
    BY <2>5, <2>9 DEF Noted
  <2> QED BY <2>3, <2>5, <2>6, <2>7, <2>8, <2>9 DEF Certificate
<1>7. CASE Dispose
  <2>1. call.stage = "dispose" /\ call.op = "delete" /\ last' = last
    BY <1>0, <1>7 DEF Dispose, Disposing
  <2>2. CASE Fail /\ menu' = menu
    BY <1>0, <1>4, <2>1, <2>2
  <2>3. CASE Accepted(menu, call) /\ menu' = Carried(menu, call) /\ Goto("follow", NoID)
    <3>1. Backed(menu') /\ \A r \in Resources : Seen(menu', r)
      BY <1>1, <2>3, CarriedBacked
    <3>2. ASSUME NEW x \in ItemsByField(menu', tfid[call.r])
          PROVE  menu'.rows[x].revoked = "true"
      <4>1. PICK id \in ItemsByField(menu, tfid[call.r]) :
               /\ ~last[call.r].ca => menu' = Delete(menu, id)
               /\ last[call.r].ca =>
                    /\ DOMAIN menu'.rows = DOMAIN menu.rows
                    /\ \A y \in DOMAIN menu.rows \ {id} : menu'.rows[y] = menu.rows[y]
                    /\ menu'.rows[id].revoked = "true"
        BY <1>0, <2>1, <2>3, DisposedEffect
      <4>2. \A y \in DOMAIN menu'.rows : y \in DOMAIN menu.rows /\ (y # id => menu'.rows[y] = menu.rows[y])
        BY <4>1, DeleteEffect
      <4>3. x = id
        <5>1. tfid[call.r] # NoIdent
          BY <1>3, <2>1 DEF Coherent
        <5>2. x \in DOMAIN menu'.rows /\ menu'.rows[x].ident = tfid[call.r]
          BY <3>2 DEF ItemsByField
        <5>3. id \in DOMAIN menu.rows /\ menu.rows[id].ident = tfid[call.r]
          BY <4>1 DEF ItemsByField
        <5> QED BY <1>0, <4>2, <5>1, <5>2, <5>3 DEF Identified
      <4>4. last[call.r].ca
        <5>1. x \in DOMAIN menu'.rows
          BY <3>2 DEF ItemsByField
        <5> QED BY <4>1, <4>3, <5>1, DeleteEffect
      <4> QED BY <4>1, <4>3, <4>4
    <3>3. Disposing'
      BY <1>5, <2>1, <2>3, <3>2 DEF Disposing
    <3> QED BY <1>5, <1>14, <2>1, <2>3, <3>1, <3>3 DEF Pending
  <2> QED BY <1>7, <2>2, <2>3 DEF Dispose
<1>8. CASE FollowUp
  <2>1. menu' = menu /\ call.stage = "follow" /\ call.op = "delete" /\ last' = last
    BY <1>0, <1>8 DEF FollowUp, Disposing
  <2>20. (\A r \in Resources : Seen(menu, r)') /\ tfid[call.r] # NoIdent
    BY <1>0, <1>3, <1>14, <2>1 DEF Coherent
  <2> DEFINE items == ItemsByField(menu, tfid[call.r])
  <2>2. CASE Fail
    BY <1>0, <1>4, <2>1, <2>2
  <2>3. CASE items = {} /\ Return(NoIdent, "none")
    <3>1. \A x \in DOMAIN menu.rows : menu.rows[x].ident # tfid[call.r]
      BY <2>3 DEF ItemsByField
    <3>2. Backed(menu)'
      BY <1>0, <1>1, <2>1, <2>3, <3>1, ReturnBacked
    <3>3. \A r \in Resources : Coherent(r)'
      BY <1>0, <1>1, <2>3, ReturnCoherent DEF Ops
    <3> QED BY <2>3, <2>20, <3>2, <3>3, IdleDisposing DEF Return, Pending
  <2>4. CASE items # {} /\ Goto("remove", CHOOSE id \in items : TRUE)
    <3>1. PICK id \in items : Goto("remove", id)
      BY <2>4
    <3>2. menu.rows[id].revoked = "true"
      BY <1>0, <2>1 DEF Disposing
    <3>3. Disposing'
      BY <1>5, <2>1, <3>1, <3>2 DEF Disposing
    <3> QED BY <1>0, <1>5, <2>1, <2>20, <3>1, <3>3 DEF Pending
  <2> QED BY <1>8, <2>2, <2>3, <2>4, <2>20 DEF FollowUp
<1>9. CASE Write
  <2>0. last' = last
    BY <1>9 DEF Write
  <2>1. CASE Fail /\ menu' = menu
    BY <1>0, <1>4, <2>0, <2>1
  <2>2. CASE /\ Accepted(menu, call) /\ menu' = Carried(menu, call)
             /\ Return(IF call.stage = "remove" THEN NoIdent ELSE call.want, "none")
    <3>1. Backed(menu') /\ \A r \in Resources : Seen(menu', r)
      BY <1>1, <2>2, CarriedBacked
    <3>2. PICK id \in {NoIdent, want[call.r]} :
             Return(id, "none") /\ id = IF call.stage = "remove" THEN NoIdent ELSE call.want
      BY <1>3, <2>2
    <3>3. \/ tfid[call.r] \in {NoIdent, id}
          \/ \A x \in DOMAIN menu'.rows : menu'.rows[x].ident # tfid[call.r]
      <4>1. CASE call.stage = "remove"
        <5>1. /\ menu' = Delete(menu, call.item)
              /\ call.item \in DOMAIN menu.rows /\ menu.rows[call.item].ident = tfid[call.r]
              /\ call.op = "delete"
          BY <1>0, <2>2, <4>1 DEF Carried, Disposing, ItemsByField
        <5>2. tfid[call.r] # NoIdent
          BY <1>3, <5>1 DEF Coherent
        <5> QED BY <1>0, <5>1, <5>2, DeleteEffect DEF Identified
      <4>2. CASE call.stage # "remove"
        BY <1>3, <3>2, <4>2 DEF Coherent
      <4> QED BY <4>1, <4>2
    <3>4. Backed(menu)'
      BY <1>0, <1>1, <3>1, <3>2, <3>3, ReturnBacked
    <3>5. \A r \in Resources : Coherent(r)'
      BY <1>0, <1>1, <3>2, ReturnCoherent DEF Ops
    <3> QED BY <1>14, <2>0, <3>1, <3>2, <3>4, <3>5, IdleDisposing DEF Return, Pending
  <2> QED BY <1>9, <2>1, <2>2 DEF Write
<1>10. CASE RequestLost
  <2>1. Fail /\ last' = last /\ (menu' = menu \/ (Accepted(menu, call) /\ menu' = Carried(menu, call)))
    BY <1>10 DEF RequestLost
  <2>2. Backed(menu') /\ \A r \in Resources : Seen(menu', r)
    BY <1>0, <1>1, <2>1, CarriedBacked
  <2> QED BY <1>4, <2>1, <2>2
<1>11. CASE RejectExisting \/ Fetch
  BY <1>0, <1>11 DEF RejectExisting, Fetch, Disposing
<1> QED BY <1>6, <1>7, <1>8, <1>9, <1>10, <1>11 DEF CallStep

\* It starts so, and every step keeps it so.
LEMMA CertificateInit == Init => CertInv
<1> SUFFICES ASSUME Init PROVE CertInv
  OBVIOUS
<1>1. IInv
  BY UniqueInit
<1>2. PICK rows \in StartRows[flavour] : menu = MenuOf(rows)
  BY DEF Init
<1>3. flavour \in DOMAIN StartRows
  BY DEF Init
<1>4. \A x \in DOMAIN menu.rows : menu.rows[x].revoked = "false"
  <2>1. menu.rows = [i \in DOMAIN rows |-> rows[i]]
    BY <1>2 DEF MenuOf
  <2>2. \A i \in DOMAIN rows : rows[i].revoked = "false"
    BY <1>3, StartAssumption
  <2> QED BY ONLY <2>1, <2>2
<1>5. Backed(menu) /\ \A r \in Resources : Coherent(r)
  BY <1>4 DEF Init, Backed, Coherent, Idle
<1>6. Disposing
  BY NoCallStage DEF Init, Disposing
<1>7. \A r \in Resources : Seen(menu, r)
  <2>1. menu.next \in Nat \ {0} /\ DOMAIN menu.rows \subseteq 1..(menu.next - 1)
    BY <1>1 DEF IInv, TypeOK
  <2>2. \A r \in Resources : last[r].row = 0
    BY DEF Init, NoID
  <2> QED BY <2>1, <2>2 DEF Seen, NoID
<1> QED BY <1>1, <1>5, <1>6, <1>7 DEF CertInv, Pending

\* While nobody edits the menu by hand, what certificateRemoval relies on holds.
LEMMA CertificateStep == CertInv /\ [Next]_vars => CertInv'
<1> SUFFICES ASSUME CertInv, [Next]_vars PROVE CertInv'
  OBVIOUS
<1>1. IInv' /\ IInv
  BY UniqueStep DEF CertInv
<1>2. SUFFICES ASSUME edits' = 0, flavour' = "certificate" PROVE Pending'
  BY <1>1 DEF CertInv
<1>3. CASE UNCHANGED vars
  <2>1. edits = 0 /\ flavour = "certificate"
    BY <1>2, <1>3 DEF vars
  <2>2. Pending
    BY <2>1 DEF CertInv
  <2> QED BY <1>3, <2>2 DEF vars, Pending, Backed, Coherent, Seen, Disposing, ItemsByField
<1>4. CASE HandStep
  <2>1. Edit
    BY <1>4, Zenon DEF HandStep, HandAdd, HandRename, HandRemove
  <2> QED BY <1>1, <1>2, <2>1 DEF Edit, IInv, TypeOK
<1>5. CASE UserStep \/ \E r \in Resources : Worker(r)
  <2>1. edits' = edits /\ flavour' = flavour
    BY <1>5 DEF UserStep, UserCreate, UserRename, UserDelete, Act, Worker, Reconcile, Enter
  <2> QED BY <1>1, <1>2, <1>5, <2>1, OutsidePending DEF CertInv, IInv
<1>6. CASE CallStep \/ RequestLost
  <2>1. edits' = edits /\ flavour' = flavour
    BY <1>6 DEF CallStep, RequestLost, Lookup, RejectExisting, Fetch, Write, Dispose, FollowUp, resVars
  <2> QED BY <1>1, <1>2, <1>6, <2>1, CallPending DEF CertInv
<1> QED BY <1>3, <1>4, <1>5, <1>6 DEF Next

\* A certificate that was revoked is still somebody's to remove: the resource that
\* revoked it keeps the name in its state through any lost request or reply.
THEOREM RevokedIsPending == Spec => []NoneStranded
<1>1. CertInv => NoneStranded
  BY DEF CertInv, Pending, Backed, NoneStranded
<1> QED BY <1>1, CertificateInit, CertificateStep, PTL DEF Spec

\* "revocation still happens first, then the row is removed": whatever else is being
\* created or deleted under its name and whatever is lost, a certificate that a CA
\* issued is not removed unrevoked by a deletion that read the router since it was
\* there, whichever resource had it issued and whichever deletes it.
THEOREM RevocationComesFirst == Spec => RevokedFirst
<1> DEFINE Removal == \A id \in DOMAIN menu.rows \ DOMAIN menu'.rows :
                        (/\ flavour = "certificate" /\ edits' = 0
                         /\ menu.rows[id].issued = "true" /\ id <= last[call.r].row)
                          => menu.rows[id].revoked = "true"
<1>1. CertInv /\ [Next]_vars => [Removal]_vars
  <2> SUFFICES ASSUME CertInv, [Next]_vars, edits' = 0, flavour = "certificate",
                      NEW id \in DOMAIN menu.rows, id \notin DOMAIN menu'.rows,
                      menu.rows[id].issued = "true", id <= last[call.r].row
               PROVE  menu.rows[id].revoked = "true"
    BY Zenon
  <2>1. ~HandStep
    <3>1. HandStep => Edit
      BY Zenon DEF HandStep, HandAdd, HandRename, HandRemove
    <3> QED BY <3>1 DEF Edit, CertInv, IInv, TypeOK
  <2>2. CASE menu' = menu
    BY <2>2
  <2>3. CASE Write \/ RequestLost \/ Dispose
    <3>1. edits = 0 /\ call # NoCall /\ Accepted(menu, call) /\ menu' = Carried(menu, call)
      BY <2>3, NoCallStage DEF Write, RequestLost, Dispose
    <3>2. Pending /\ Identified(menu) /\ TypeOK
      BY <3>1 DEF CertInv, IInv
    <3>3. call.stage \in {"put", "patch", "remove", "dispose"}
      BY <3>1 DEF Accepted
    <3>4. CASE call.stage = "put"
      BY <3>1, <3>4, CreateEffect DEF Carried
    <3>5. CASE call.stage = "patch"
      BY <3>1, <3>5, UpdateEffect DEF Carried
    <3>6. CASE call.stage = "dispose"
      <4>1. /\ call.r \in Resources /\ Seen(menu, call.r) /\ Coherent(call.r)
            /\ due[call.r] = Taken(call) /\ call.op = "delete"
        BY <3>1, <3>2, <3>6 DEF Pending, Disposing, TypeOK
      <4>2. tfid[call.r] = want[call.r]
        BY <4>1 DEF Coherent, Taken
      <4>3. menu.rows[id].ident = want[call.r] /\ ~last[call.r].ca
        BY <3>1, <3>2, <3>6, <4>2, DisposedEffect, DeleteEffect DEF ItemsByField
      <4>4. id = last[call.r].row
        <5>1. id \in Nat /\ last[call.r].row \in Nat
          BY <3>2, <4>1 DEF TypeOK
        <5> QED BY <4>1, <4>3, <5>1 DEF Seen
      <4> QED BY <4>1, <4>3, <4>4 DEF Seen
    <3>7. CASE call.stage = "remove"
      <4>1. menu' = Delete(menu, call.item) /\ menu.rows[call.item].revoked = "true"
        BY <3>1, <3>2, <3>7 DEF Carried, Pending, Disposing
      <4> QED BY <4>1, DeleteEffect
    <3> QED BY <3>3, <3>4, <3>5, <3>6, <3>7
  <2>4. Next \/ UNCHANGED vars
    OBVIOUS
  <2>5. CASE UserStep \/ \E r \in Resources : Worker(r)
    BY <2>2, <2>5 DEF UserStep, UserCreate, UserRename, UserDelete, Act, Worker, Reconcile, Enter
  <2>6. CASE Lookup \/ RejectExisting \/ Fetch \/ FollowUp
    BY <2>2, <2>6 DEF Lookup, RejectExisting, Fetch, FollowUp
  <2> QED BY <2>1, <2>2, <2>3, <2>4, <2>5, <2>6 DEF Next, CallStep, vars
<1> QED BY <1>1, CertificateInit, CertificateStep, PTL DEF Spec, RevokedFirst

-----------------------------------------------------------------------------
\* Rows of one's own.

\* Every row has the fields the callbacks look at.
Shaped(m) == \A id \in DOMAIN m.rows : {"ident", "default", "revoked", "body"} \subseteq DOMAIN m.rows[id]

\* The one row a create changes is the router's default row, which people can
\* rename but not remove.
Adopting ==
  call.op = "create" =>
    /\ call.stage \in {"lookup", "put", "patch"}
    /\ call.stage = "patch" =>
         flavour = "interface" /\ call.item \in DOMAIN menu.rows /\ IsDefault(menu, call.item)

\* The state of a worker: it holds an id exactly where its next callback needs one,
\* and holds none before its resource was there and after it went.
Keeper(r) ==
  /\ life[r] \in {"none", "gone"} => tfid[r] = NoIdent
  /\ due[r].op \in {"read", "update", "delete"} => tfid[r] # NoIdent
  /\ due[r].op = "create" => tfid[r] = NoIdent

\* A row that a resource wrote is the one its id names, unless it is the default
\* row, which another resource may have adopted too.
Written ==
  \A id \in DOMAIN menu.rows, r \in Resources :
    (menu.rows[id].body = r /\ ~IsDefault(menu, id)) =>
      tfid[r] = menu.rows[id].ident /\ tfid[r] # NoIdent

\* What the lookup of a callback has found is still there when it is used.
Located ==
  /\ call.op \in {"create", "update"} => call.want # NoIdent
  /\ call.stage \in {"vacant", "fetch", "patch", "remove"} =>
       call.item \in ItemsByField(menu, LookupKey(call))
  /\ call.stage = "put" => call.op = "create"
  /\ call.stage = "patch" => call.op \in {"create", "update"}
  /\ call.stage \in {"remove", "dispose", "follow"} => call.op = "delete"
  /\ call.stage = "fetch" => call.op = "read"
  /\ call.stage = "vacant" => call.op = "update"

\* And the other way round: the id names a row, which that resource wrote.  Only a
\* certificate's deletion has an id left after its row went.
Holding ==
  \A r \in Resources :
    tfid[r] # NoIdent =>
      /\ \A id \in ItemsByField(menu, tfid[r]) : menu.rows[id].body = r
      /\ (call.stage = "follow" /\ call.r = r) \/ ItemsByField(menu, tfid[r]) # {}

Own == /\ \A r \in Resources : Keeper(r)
       /\ Written /\ Located
       /\ flavour # "interface" => Holding

OwnInv == IInv /\ Shaped(menu) /\ Adopting /\ (edits = 0 /\ faults = 0 => Own)

\* The settings a callback sends are stored as its resource's.
LEMMA StoredBody ==
  ASSUME NEW c, c.r \in Resources
  PROVE  /\ Stored(Fields(c)).body = c.r /\ "body" \in DOMAIN Fields(c) /\ "default" \notin DOMAIN Fields(c)
         /\ Stored(NewRow(c)).body = c.r
<1>1. DOMAIN Fields(c) = {"ident", "body"} /\ Fields(c)["body"] = c.r
  BY DEF Fields
<1>2. DOMAIN NewRow(c) = {"ident", "body", "issued"} /\ NewRow(c)["body"] = c.r
  BY DEF NewRow
<1>3. c.r \notin DOMAIN Canonical
  BY IdentsAssumption
<1> QED BY <1>1, <1>2, <1>3 DEF Stored

\* No request takes a field away from a row.
LEMMA ShapedKept ==
  ASSUME NEW m, Shaped(m), NEW fields, NEW id
  PROVE  /\ {"ident", "body"} \subseteq DOMAIN fields => Shaped(Create(m, fields))
         /\ Shaped(Update(m, id, fields)) /\ Shaped(Delete(m, id))
<1>1. ASSUME {"ident", "body"} \subseteq DOMAIN fields PROVE Shaped(Create(m, fields))
  <2>1. {"ident", "default", "revoked", "body"} \subseteq DOMAIN Stored(fields)
    BY <1>1, DefaultsAssumption DEF Stored
  <2>2. \A x \in DOMAIN Create(m, fields).rows :
          Create(m, fields).rows[x] \in {Stored(fields), m.rows[x]} /\ (x \in DOMAIN m.rows \/ x = m.next)
    BY DEF Create
  <2>3. \A x \in DOMAIN Create(m, fields).rows :
          x \notin DOMAIN m.rows => Create(m, fields).rows[x] = Stored(fields)
    BY DEF Create
  <2> QED BY <2>1, <2>2, <2>3 DEF Shaped
<1>2. Shaped(Update(m, id, fields))
  <2>1. \A x \in DOMAIN Update(m, id, fields).rows :
          x \in DOMAIN m.rows /\ DOMAIN m.rows[x] \subseteq DOMAIN Update(m, id, fields).rows[x]
    BY UpdateEffect
  <2> QED BY <2>1 DEF Shaped
<1>3. Shaped(Delete(m, id))
  BY DeleteEffect DEF Shaped
<1> QED BY <1>1, <1>2, <1>3

\* Nor does a callback's.
LEMMA CarriedShaped ==
  ASSUME NEW m, Shaped(m), NEW c, Accepted(m, c)
  PROVE  Shaped(Carried(m, c))
<1>1. c.stage \in {"put", "patch", "remove", "dispose"}
  BY DEF Accepted
<1>2. {"ident", "body"} \subseteq DOMAIN NewRow(c)
  BY DEF NewRow
<1>3. Shaped(Create(m, NewRow(c))) /\ Shaped(Update(m, c.item, Fields(c))) /\ Shaped(Delete(m, c.item))
  BY <1>2, ShapedKept
<1>4. Shaped(Disposed(m, c))
  BY ShapedKept DEF Disposed
<1> QED BY <1>1, <1>3, <1>4 DEF Carried

\* How a lookup goes on, with the row it has found or without one.
LookupEnds(item) ==
  \/ Fail
  \/ /\ item = NoID
     /\ \/ call.op = "create" /\ Goto("put", NoID)
        \/ call.op = "read" /\ Return(NoIdent, AfterGone(call))
        \/ call.op = "delete" /\ Return(NoIdent, "none")
  \/ /\ item # NoID
     /\ \/ call.op = "create" /\ flavour = "interface" /\ IsDefault(menu, item) /\ Goto("patch", item)
        \/ call.op = "read" /\ Goto("fetch", item)
        \/ call.op = "read" /\ Observed(menu.rows[item])
        \/ call.op = "update" /\ (Goto("vacant", item) \/ Goto("patch", item))
        \/ call.op = "delete" /\ flavour = "interface" /\ IsDefault(menu, item) /\ Return(NoIdent, "none")
        \/ call.op = "delete" /\ Goto("remove", item)

\* Every lookup goes on in one of these ways, and the row it has found carries the
\* identity it looked for.
LEMMA LookupOutcome ==
  ASSUME TypeOK, Lookup
  PROVE  \E item \in Nat :
           /\ item = NoID => ItemsByField(menu, LookupKey(call)) = {}
           /\ item # NoID => item \in ItemsByField(menu, LookupKey(call))
           /\ LookupEnds(item)
<1> DEFINE items == ItemsByField(menu, LookupKey(call))
           item  == IF items = {} THEN NoID ELSE CHOOSE id \in items : TRUE
<1>1. item # NoID => item \in items
  OBVIOUS
<1>2. items \subseteq Nat \ {NoID}
  BY DEF ItemsByField, TypeOK, NoID
<1>3. item \in Nat /\ (item = NoID => items = {})
  BY <1>1, <1>2 DEF NoID
<1>4. \/ Fail \/ (flavour = "comment" /\ CommentIdentity(item))
      \/ (flavour = "interface" /\ InterfaceIdentity(item))
      \/ (flavour = "certificate" /\ Certificate(item))
  BY DEF Lookup
<1> HIDE DEF item
<1> SUFFICES LookupEnds(item)
  BY <1>1, <1>3
<1>5. CASE CommentIdentity(item)
  BY <1>5 DEF LookupEnds, CommentIdentity, CommentIdentityCreate, CommentIdentityRead,
              CommentIdentityUpdate, CommentIdentityDelete
<1>6. CASE flavour = "interface" /\ InterfaceIdentity(item)
  BY <1>6 DEF LookupEnds, InterfaceIdentity, InterfaceIdentityCreate, InterfaceIdentityRead,
              InterfaceIdentityUpdate, InterfaceIdentityDelete, CommentIdentityRead,
              CommentIdentityUpdate, CommentIdentityDelete
<1>7. CASE Certificate(item)
  BY <1>7 DEF LookupEnds, Certificate
<1>8. CASE Fail
  BY <1>8 DEF LookupEnds
<1> QED BY <1>4, <1>5, <1>6, <1>7, <1>8

\* What Goto leaves of the call.
LEMMA GotoCall ==
  ASSUME TypeOK, call # NoCall, NEW stage, NEW item, Goto(stage, item)
  PROVE  /\ call'.stage = stage /\ call'.item = item /\ call'.r = call.r
         /\ call'.op = call.op /\ call'.want = call.want /\ call'.deleted = call.deleted
BY DEF Goto, TypeOK

\* What holds of every row, and of every create, also while people edit the menu and
\* replies are lost.
LEMMA AdoptingStep ==
  ASSUME TypeOK, Shaped(menu), Adopting, [Next]_vars
  PROVE  Shaped(menu)' /\ Adopting'
<1>1. CASE UNCHANGED vars
  BY <1>1 DEF vars, Adopting, Shaped, IsDefault
<1>2. CASE UserStep \/ \E r \in Resources : Reconcile(r)
  <2>1. UNCHANGED <<flavour, menu, call>>
    BY <1>2 DEF UserStep, UserCreate, UserRename, UserDelete, Act, Reconcile
  <2> QED BY <2>1 DEF Adopting, Shaped, IsDefault
<1>3. ASSUME NEW r \in Resources, Enter(r) PROVE Shaped(menu)' /\ Adopting'
  <2>1. /\ UNCHANGED <<flavour, menu>>
        /\ \/ call' = NoCall
           \/ call'.op = due[r].op /\ call'.stage = FirstStage(due[r])
    BY <1>3 DEF Enter
  <2>2. FirstStage(due[r]) \in {"lookup", "put"} \/ due[r].op # "create"
    BY DEF FirstStage
  <2> QED BY <2>1, <2>2, NoCallEnds DEF Adopting, Shaped
<1>4. CASE HandStep
  <2>1. UNCHANGED <<flavour, call>>
    BY <1>4, Zenon DEF HandStep, HandAdd, HandRename, HandRemove, Edit, resVars
  <2>2. /\ Shaped(menu')
        /\ flavour = "interface" => \A id \in DOMAIN menu.rows : IsDefault(menu, id) =>
             id \in DOMAIN menu'.rows /\ IsDefault(menu', id)
    <3>1. CASE \E i \in HandIdents : HandAdd(i)
      <4>1. PICK i \in HandIdents : menu' = Create(menu, [ident |-> i, body |-> Hand])
        BY <3>1 DEF HandAdd
      <4>2. menu.next \notin DOMAIN menu.rows
        BY DEF TypeOK
      <4>3. \A id \in DOMAIN menu.rows : id \in DOMAIN menu'.rows /\ menu'.rows[id] = menu.rows[id]
        BY <4>1, <4>2, CreateEffect
      <4>4. {"ident", "body"} \subseteq DOMAIN [ident |-> i, body |-> Hand]
        OBVIOUS
      <4> QED BY <4>1, <4>3, <4>4, ShapedKept DEF IsDefault
    <3>2. CASE \E id \in DOMAIN menu.rows : HandRemove(id)
      <4>1. PICK id \in DOMAIN menu.rows :
              menu' = Delete(menu, id) /\ ~(flavour = "interface" /\ IsDefault(menu, id))
        BY <3>2 DEF HandRemove
      <4>2. /\ DOMAIN menu'.rows = DOMAIN menu.rows \ {id}
            /\ \A x \in DOMAIN menu.rows \ {id} : menu'.rows[x] = menu.rows[x]
        BY <4>1, DeleteEffect
      <4> QED BY <4>1, <4>2, ShapedKept DEF IsDefault
    <3>3. CASE \E id \in DOMAIN menu.rows, i \in HandIdents : HandRename(id, i)
      <4>1. PICK id \in DOMAIN menu.rows, i \in HandIdents : menu' = Update(menu, id, [ident |-> i])
        BY <3>3 DEF HandRename
      <4>2. DOMAIN [ident |-> i] = {"ident"} /\ "default" \in DOMAIN menu.rows[id]
        BY DEF Shaped
      <4>3. /\ DOMAIN menu'.rows = DOMAIN menu.rows
            /\ \A x \in DOMAIN menu.rows \ {id} : menu'.rows[x] = menu.rows[x]
            /\ menu'.rows[id].default = menu.rows[id].default
        BY <4>1, <4>2, UpdateEffect
      <4> QED BY <4>1, <4>3, ShapedKept DEF IsDefault
    <3> QED BY <1>4, <3>1, <3>2, <3>3 DEF HandStep
  <2> QED BY <2>1, <2>2 DEF Adopting
<1>5. CASE CallStep \/ RequestLost
  <2>1. call # NoCall /\ flavour' = flavour
    BY <1>5, NoCallStage DEF CallStep, RequestLost, Lookup, RejectExisting, Fetch, Write, Dispose, FollowUp, resVars
  <2>2. menu' = menu \/ (Accepted(menu, call) /\ menu' = Carried(menu, call))
    BY <1>5 DEF CallStep, RequestLost, Lookup, RejectExisting, Fetch, Write, Dispose, FollowUp
  <2>3. Shaped(menu')
    BY <2>2, CarriedShaped
  <2>4. CASE call' = NoCall
    BY <2>3, <2>4, NoCallEnds DEF Adopting
  <2>5. CASE Lookup
    <3>1. menu' = menu
      BY <2>5 DEF Lookup
    <3>2. PICK item \in Nat :
            /\ item # NoID => item \in ItemsByField(menu, LookupKey(call))
            /\ LookupEnds(item)
      BY <2>5, LookupOutcome
    <3>3. \/ call' = NoCall
          \/ call.op # "create" /\ \E stage : Goto(stage, item)
          \/ call.op = "create" /\ Goto("put", NoID)
          \/ call.op = "create" /\ item # NoID /\ flavour = "interface" /\ IsDefault(menu, item) /\ Goto("patch", item)
      BY <3>2 DEF LookupEnds, Fail, Return, Observed
    <3>4. item # NoID => item \in DOMAIN menu.rows
      BY <3>2 DEF ItemsByField
    <3> QED BY <2>1, <2>3, <2>4, <3>1, <3>3, <3>4, GotoCall DEF Adopting
  <2>6. CASE RejectExisting \/ Dispose \/ FollowUp
    <3>1. call' = NoCall \/ \E stage, item : Goto(stage, item)
      BY <2>6 DEF RejectExisting, Dispose, FollowUp, Fail, Return
    <3>2. call.op # "create"
      BY <2>6 DEF RejectExisting, Dispose, FollowUp, Adopting
    <3> QED BY <2>1, <2>3, <2>4, <3>1, <3>2, GotoCall DEF Adopting
  <2>7. CASE Fetch \/ Write \/ RequestLost
    <3>1. call' = NoCall
      BY <2>7 DEF Fetch, Write, RequestLost, Fail, Return, Observed
    <3> QED BY <2>4, <3>1
  <2> QED BY <1>5, <2>5, <2>6, <2>7 DEF CallStep
<1> QED BY <1>1, <1>2, <1>3, <1>4, <1>5 DEF Next, Worker

\* What a callback's PUT does to the rows.
LEMMA PutEffect ==
  ASSUME TypeOK, call # NoCall, call.stage = "put"
  PROVE  /\ menu.next \notin DOMAIN menu.rows
         /\ DOMAIN Carried(menu, call).rows = DOMAIN menu.rows \cup {menu.next}
         /\ Carried(menu, call).rows[menu.next].ident = call.want
         /\ Carried(menu, call).rows[menu.next].body = call.r
         /\ \A id \in DOMAIN menu.rows : Carried(menu, call).rows[id] = menu.rows[id]
<1>1. call.r \in Resources /\ call.want \in Wanted /\ menu.next \notin DOMAIN menu.rows
  BY DEF TypeOK
<1>2. Carried(menu, call) = Create(menu, NewRow(call))
  BY DEF Carried
<1> QED BY <1>1, <1>2, CreateEffect, StoredRow, StoredBody

\* What its PATCH does, where it is accepted.
LEMMA PatchEffect ==
  ASSUME TypeOK, Shaped(menu), call # NoCall, call.stage = "patch", Accepted(menu, call)
  PROVE  /\ call.item \in DOMAIN menu.rows
         /\ DOMAIN Carried(menu, call).rows = DOMAIN menu.rows
         /\ Carried(menu, call).rows[call.item].ident = call.want
         /\ Carried(menu, call).rows[call.item].body = call.r
         /\ Carried(menu, call).rows[call.item].default = menu.rows[call.item].default
         /\ \A id \in DOMAIN menu.rows \ {call.item} : Carried(menu, call).rows[id] = menu.rows[id]
<1>1. call.r \in Resources /\ call.want \in Wanted /\ call.item \in DOMAIN menu.rows
  BY DEF TypeOK, Accepted
<1>2. Carried(menu, call) = Update(menu, call.item, Fields(call))
  BY DEF Carried
<1>3. /\ Stored(Fields(call)).ident = call.want /\ "ident" \in DOMAIN Fields(call)
      /\ Stored(Fields(call)).body = call.r /\ "body" \in DOMAIN Fields(call)
      /\ "default" \notin DOMAIN Fields(call)
  BY <1>1, StoredIdent, StoredBody
<1>4. "default" \in DOMAIN menu.rows[call.item]
  BY <1>1 DEF Shaped
<1> QED BY <1>1, <1>2, <1>3, <1>4, UpdateEffect

\* What its DELETE does.
LEMMA RemoveEffect ==
  ASSUME call.stage = "remove"
  PROVE  /\ DOMAIN Carried(menu, call).rows = DOMAIN menu.rows \ {call.item}
         /\ \A id \in DOMAIN menu.rows \ {call.item} : Carried(menu, call).rows[id] = menu.rows[id]
BY DeleteEffect DEF Carried

\* Upstream's delete of a certificate changes a flag of its row, or takes it away.
LEMMA DisposeEffect ==
  ASSUME Shaped(menu), call.stage = "dispose", Accepted(menu, call)
  PROVE  \E id \in ItemsByField(menu, tfid[call.r]) :
           /\ DOMAIN Carried(menu, call).rows \in {DOMAIN menu.rows, DOMAIN menu.rows \ {id}}
           /\ \A x \in DOMAIN Carried(menu, call).rows :
                /\ x # id => Carried(menu, call).rows[x] = menu.rows[x]
                /\ Carried(menu, call).rows[x].ident = menu.rows[x].ident
                /\ Carried(menu, call).rows[x].body = menu.rows[x].body
                /\ Carried(menu, call).rows[x].default = menu.rows[x].default
<1> DEFINE id == CHOOSE x \in ItemsByField(menu, tfid[call.r]) : TRUE
           m  == Update(menu, id, [revoked |-> "true"])
           d  == Delete(menu, id)
<1>1. id \in ItemsByField(menu, tfid[call.r]) /\ id \in DOMAIN menu.rows
  BY DEF Accepted, ItemsByField
<1>2. Carried(menu, call) = IF last[call.r].ca THEN m ELSE d
  BY DEF Carried, Disposed
<1> HIDE DEF id
<1>3. DOMAIN [revoked |-> "true"] = {"revoked"} /\ {"ident", "body", "default"} \subseteq DOMAIN menu.rows[id]
  BY <1>1 DEF Shaped
<1>4. /\ DOMAIN m.rows = DOMAIN menu.rows
      /\ \A x \in DOMAIN menu.rows \ {id} : m.rows[x] = menu.rows[x]
      /\ m.rows[id].ident = menu.rows[id].ident /\ m.rows[id].body = menu.rows[id].body
      /\ m.rows[id].default = menu.rows[id].default
  BY <1>1, <1>3, UpdateEffect
<1>5. DOMAIN d.rows = DOMAIN menu.rows \ {id} /\ \A x \in DOMAIN menu.rows \ {id} : d.rows[x] = menu.rows[x]
  BY DeleteEffect
<1> HIDE DEF m, d
<1> QED BY <1>1, <1>2, <1>4, <1>5

\* A worker's state after an error.
LEMMA FailKeeper ==
  ASSUME TypeOK, call # NoCall, \A r \in Resources : Keeper(r), Fail, UNCHANGED resVars
  PROVE  \A r \in Resources : Keeper(r)'
<1>1. due' = [due EXCEPT ![call.r] = Idle] /\ UNCHANGED <<tfid, life>>
  BY DEF Fail, resVars
<1>2. \A r \in Resources : due'[r] = Idle \/ due'[r] = due[r]
  BY <1>1 DEF TypeOK
<1> QED BY <1>1, <1>2 DEF Keeper, Idle

\* And after a return, which leaves an id exactly where the next callback needs one.
LEMMA ReturnKeeper ==
  ASSUME TypeOK, call # NoCall, \A r \in Resources : Keeper(r), UNCHANGED resVars,
         NEW id, NEW op \in Ops, Return(id, op),
         op \in {"read", "update", "delete"} => id # NoIdent,
         op = "create" => id = NoIdent
  PROVE  /\ \A r \in Resources : Keeper(r)'
         /\ tfid'[call.r] = id /\ \A r \in Resources \ {call.r} : tfid'[r] = tfid[r]
<1>1. call.r \in Resources /\ due[call.r] = Taken(call) /\ call.op \in Ops \ {"none"}
  BY DEF TypeOK
<1>2. due[call.r].op # "none"
  BY <1>1 DEF Taken
<1> DEFINE d == IF op = "none" THEN Idle ELSE [due[call.r] EXCEPT !.op = op]
<1>3. d.op = op
  <2>1. due[call.r] \in [op : Ops, want : Wanted, deleted : BOOLEAN]
    BY <1>1 DEF TypeOK
  <2> QED BY <2>1 DEF Idle
<1>4. due' = [due EXCEPT ![call.r] = d] /\ tfid' = [tfid EXCEPT ![call.r] = id] /\ life' = life
  BY DEF Return, TypeOK, resVars
<1> HIDE DEF d
<1>5. life[call.r] \in {"live", "deleting"}
  BY <1>1, <1>2 DEF TypeOK
<1>6. due'[call.r] = d /\ tfid'[call.r] = id
  BY <1>1, <1>4 DEF TypeOK
<1>7. \A r \in Resources \ {call.r} : due'[r] = due[r] /\ tfid'[r] = tfid[r]
  BY <1>1, <1>4 DEF TypeOK
<1>8. ASSUME NEW r \in Resources PROVE Keeper(r)'
  <2>1. CASE r = call.r
    BY <1>3, <1>4, <1>5, <1>6, <2>1 DEF Keeper
  <2>2. CASE r # call.r
    <3>1. Keeper(r) /\ due'[r] = due[r] /\ tfid'[r] = tfid[r] /\ life'[r] = life[r]
      BY <1>4, <1>7, <2>2
    <3> QED BY <3>1 DEF Keeper
  <2> QED BY <2>1, <2>2
<1> QED BY <1>6, <1>7, <1>8

\* Outside a callback nothing has been located.
LEMMA IdleLocated == ASSUME call' = NoCall PROVE Located'
BY NoCallEnds DEF Located

\* An error return takes nothing away from anybody.
LEMMA FailOwn ==
  ASSUME TypeOK, call # NoCall, call.stage # "follow", Own, Fail, menu' = menu, UNCHANGED resVars
  PROVE  Own'
<1>1. UNCHANGED <<tfid, menu, flavour>> /\ call' = NoCall
  BY DEF Fail, resVars
<1>2. \A r \in Resources : Keeper(r)'
  BY FailKeeper DEF Own
<1>3. Written'
  BY <1>1 DEF Own, Written, IsDefault
<1>4. flavour' # "interface" => Holding'
  BY <1>1 DEF Own, Holding, ItemsByField
<1> QED BY <1>1, <1>2, <1>3, <1>4, IdleLocated DEF Own

\* Nor does going on, with a row that the lookup has found where the stage needs one.
LEMMA GotoOwn ==
  ASSUME TypeOK, call # NoCall, Own, NEW stage, NEW item, Goto(stage, item), menu' = menu, UNCHANGED resVars,
         call.stage # "follow" \/ ItemsByField(menu, tfid[call.r]) # {},
         stage \in {"vacant", "fetch", "patch", "remove"} => item \in ItemsByField(menu, LookupKey(call)),
         stage = "put" => call.op = "create",
         stage = "patch" => call.op \in {"create", "update"},
         stage \in {"remove", "dispose", "follow"} => call.op = "delete",
         stage = "fetch" => call.op = "read",
         stage = "vacant" => call.op = "update"
  PROVE  Own'
<1>1. UNCHANGED <<tfid, due, menu, flavour, life>>
  BY DEF Goto, resVars
<1>2. /\ call'.stage = stage /\ call'.item = item /\ call'.r = call.r
      /\ call'.op = call.op /\ call'.want = call.want
  BY GotoCall
<1>3. \A r \in Resources : Keeper(r)'
  BY <1>1 DEF Own, Keeper
<1>4. Written'
  BY <1>1 DEF Own, Written, IsDefault
<1>5. LookupKey(call)' = LookupKey(call)
  BY <1>1, <1>2 DEF LookupKey
<1>6. Located'
  BY <1>1, <1>2, <1>5 DEF Own, Located, ItemsByField
<1>7. flavour' # "interface" => Holding'
  <2> SUFFICES ASSUME flavour # "interface", NEW r \in Resources, tfid[r] # NoIdent
               PROVE  /\ \A id \in ItemsByField(menu, tfid[r]) : menu.rows[id].body = r
                      /\ (stage = "follow" /\ call.r = r) \/ ItemsByField(menu, tfid[r]) # {}
    BY <1>1, <1>2 DEF Holding, ItemsByField
  <2> QED BY DEF Own, Holding
<1> QED BY <1>3, <1>4, <1>6, <1>7 DEF Own

\* A return that keeps the id, or gives it up where no row of its own is left.
LEMMA ReturnOwn ==
  ASSUME TypeOK, call # NoCall, Own, menu' = menu, UNCHANGED resVars,
         NEW id \in {NoIdent, tfid[call.r]}, NEW op \in Ops, Return(id, op),
         id # NoIdent => call.stage # "follow",
         op \in {"read", "update", "delete"} => id # NoIdent,
         op = "create" => id = NoIdent,
         id = NoIdent => \A x \in DOMAIN menu.rows : menu.rows[x].ident = tfid[call.r] => IsDefault(menu, x)
  PROVE  Own'
<1>1. flavour' = flavour /\ call' = NoCall /\ call.r \in Resources
  BY DEF Return, resVars, TypeOK
<1>2. /\ \A r \in Resources : Keeper(r)'
      /\ tfid'[call.r] = id /\ \A r \in Resources \ {call.r} : tfid'[r] = tfid[r]
  BY ReturnKeeper DEF Own
<1>3. Written'
  <2> SUFFICES ASSUME NEW x \in DOMAIN menu.rows, NEW r \in Resources,
                      menu.rows[x].body = r, ~IsDefault(menu, x)
               PROVE  tfid'[r] = menu.rows[x].ident /\ tfid'[r] # NoIdent
    BY DEF Written, IsDefault
  <2>1. tfid[r] = menu.rows[x].ident /\ tfid[r] # NoIdent
    BY DEF Own, Written
  <2> QED BY <1>2, <2>1
<1>4. flavour' # "interface" => Holding'
  <2> SUFFICES ASSUME flavour # "interface", NEW r \in Resources, tfid'[r] # NoIdent
               PROVE  /\ \A x \in ItemsByField(menu, tfid'[r]) : menu.rows[x].body = r
                      /\ ItemsByField(menu, tfid'[r]) # {}
    BY <1>1 DEF Holding, ItemsByField
  <2>1. tfid'[r] = tfid[r] /\ (call.stage # "follow" \/ r # call.r)
    BY <1>2
  <2> QED BY <2>1 DEF Own, Holding
<1> QED BY <1>1, <1>2, <1>3, <1>4, IdleLocated DEF Own

\* The write of a callback, carried out: the row is its resource's, or gone with the id.
LEMMA WriteOwn ==
  ASSUME IInv, edits = 0, Shaped(menu), Adopting, Own, call # NoCall, Accepted(menu, call),
         call.stage \in {"put", "patch", "remove"}, menu' = Carried(menu, call), UNCHANGED resVars,
         Return(IF call.stage = "remove" THEN NoIdent ELSE call.want, "none")
  PROVE  Own'
<1> DEFINE id == IF call.stage = "remove" THEN NoIdent ELSE call.want
<1>1. TypeOK /\ Identified(menu) /\ call.r \in Resources /\ Written /\ Located
  BY DEF IInv, TypeOK, Own
<1>2. flavour' = flavour /\ call' = NoCall
  BY DEF Return, resVars
<1>3. /\ \A r \in Resources : Keeper(r)'
      /\ tfid'[call.r] = id /\ \A r \in Resources \ {call.r} : tfid'[r] = tfid[r]
  BY <1>1, ReturnKeeper DEF Own, Ops
<1>4. due[call.r].op = call.op /\ Keeper(call.r)
  BY <1>1 DEF TypeOK, Taken, Own
<1>5. ASSUME call.op # "create"
      PROVE  tfid[call.r] # NoIdent /\ LookupKey(call) = tfid[call.r]
  BY <1>1, <1>4, <1>5 DEF TypeOK, Keeper, LookupKey, Ops
<1>6. call.op = "create" => tfid[call.r] = NoIdent
  BY <1>4 DEF Keeper
<1>7. ASSUME flavour # "interface", NEW q \in Resources \ {call.r}, tfid[q] # NoIdent
      PROVE  /\ \A x \in ItemsByField(menu, tfid[q]) : menu.rows[x].body = q
             /\ \E x \in ItemsByField(menu, tfid[q]) : TRUE
  BY <1>7 DEF Own, Holding
<1>8. CASE call.stage = "put"
  <2>1. call.op = "create" /\ call.want # NoIdent /\ id = call.want
    BY <1>1, <1>8 DEF Located
  <2>2. /\ menu.next \notin DOMAIN menu.rows
        /\ DOMAIN menu'.rows = DOMAIN menu.rows \cup {menu.next}
        /\ menu'.rows[menu.next].ident = call.want
        /\ menu'.rows[menu.next].body = call.r
        /\ \A x \in DOMAIN menu.rows : menu'.rows[x] = menu.rows[x]
    BY <1>1, <1>8, PutEffect
  <2>3. \A x \in DOMAIN menu.rows : menu.rows[x].ident # call.want
    <3>1. CASE flavour # "certificate"
      BY <1>8, <3>1 DEF IInv, CallCoherent, ItemsByField
    <3>2. CASE flavour = "certificate"
      BY <1>1, <1>8, <3>2 DEF TypeOK, Accepted, Vacant, ItemsByField, NoID
    <3> QED BY <3>1, <3>2
  <2>4. Written'
    <3> SUFFICES ASSUME NEW x \in DOMAIN menu'.rows, NEW r \in Resources,
                        menu'.rows[x].body = r, ~IsDefault(menu', x)
                 PROVE  tfid'[r] = menu'.rows[x].ident /\ tfid'[r] # NoIdent
      BY DEF Written, IsDefault
    <3>1. CASE x = menu.next
      BY <1>3, <2>1, <2>2, <3>1
    <3>2. CASE x # menu.next
      <4>1. x \in DOMAIN menu.rows /\ menu'.rows[x] = menu.rows[x]
        BY <2>2, <3>2
      <4>2. tfid[r] = menu.rows[x].ident /\ tfid[r] # NoIdent
        BY <1>1, <4>1 DEF Written, IsDefault
      <4>3. r # call.r
        BY <1>6, <2>1, <4>2
      <4> QED BY <1>3, <4>1, <4>2, <4>3
    <3> QED BY <3>1, <3>2
  <2>5. flavour' # "interface" => Holding'
    <3> SUFFICES ASSUME flavour # "interface", NEW r \in Resources, tfid'[r] # NoIdent
                 PROVE  /\ \A x \in ItemsByField(menu', tfid'[r]) : menu'.rows[x].body = r
                        /\ \E x \in ItemsByField(menu', tfid'[r]) : TRUE
      BY <1>2 DEF Holding, ItemsByField
    <3>1. CASE r = call.r
      BY <1>3, <2>1, <2>2, <2>3, <3>1 DEF ItemsByField
    <3>2. CASE r # call.r
      <4>1. tfid'[r] = tfid[r]
        BY <1>3, <3>2
      <4>2. PICK x \in ItemsByField(menu, tfid[r]) : TRUE
        BY <1>7, <3>2, <4>1
      <4>3. tfid[r] # call.want /\ x \in DOMAIN menu.rows /\ menu.rows[x].ident = tfid[r]
        BY <2>3, <4>2 DEF ItemsByField
      <4>4. x \in ItemsByField(menu', tfid'[r])
        BY <2>2, <4>1, <4>3 DEF ItemsByField
      <4>5. ASSUME NEW y \in ItemsByField(menu', tfid'[r]) PROVE menu'.rows[y].body = r
        <5>1. y \in ItemsByField(menu, tfid[r]) /\ menu'.rows[y] = menu.rows[y]
          BY <2>2, <4>1, <4>3 DEF ItemsByField
        <5> QED BY <1>7, <3>2, <4>1, <5>1
      <4> QED BY <4>4, <4>5
    <3> QED BY <3>1, <3>2
  <2> QED BY <1>2, <1>3, <2>4, <2>5, IdleLocated DEF Own
<1>9. CASE call.stage = "patch"
  <2>1. call.op \in {"create", "update"} /\ call.want # NoIdent /\ id = call.want
    BY <1>1, <1>9 DEF Located
  <2>2. /\ call.item \in DOMAIN menu.rows
        /\ DOMAIN menu'.rows = DOMAIN menu.rows
        /\ menu'.rows[call.item].ident = call.want
        /\ menu'.rows[call.item].body = call.r
        /\ menu'.rows[call.item].default = menu.rows[call.item].default
        /\ \A x \in DOMAIN menu.rows \ {call.item} : menu'.rows[x] = menu.rows[x]
    BY <1>1, <1>9, PatchEffect
  <2>3. call.op = "update" => menu.rows[call.item].ident = tfid[call.r]
    BY <1>1, <1>5, <1>9 DEF Located, ItemsByField
  <2>4. Written'
    <3> SUFFICES ASSUME NEW x \in DOMAIN menu'.rows, NEW r \in Resources,
                        menu'.rows[x].body = r, ~IsDefault(menu', x)
                 PROVE  tfid'[r] = menu'.rows[x].ident /\ tfid'[r] # NoIdent
      BY DEF Written, IsDefault
    <3>1. CASE x = call.item
      BY <1>3, <2>1, <2>2, <3>1
    <3>2. CASE x # call.item
      <4>1. x \in DOMAIN menu.rows /\ menu'.rows[x] = menu.rows[x]
        BY <2>2, <3>2
      <4>2. tfid[r] = menu.rows[x].ident /\ tfid[r] # NoIdent
        BY <1>1, <4>1 DEF Written, IsDefault
      <4>3. r # call.r
        <5>1. SUFFICES ASSUME r = call.r PROVE FALSE
          OBVIOUS
        <5>2. call.op = "update"
          BY <1>6, <2>1, <4>2, <5>1
        <5> QED BY <1>1, <2>2, <2>3, <3>2, <4>1, <4>2, <5>1, <5>2 DEF Identified
      <4> QED BY <1>3, <4>1, <4>2, <4>3
    <3> QED BY <3>1, <3>2
  <2>5. flavour' # "interface" => Holding'
    <3> SUFFICES ASSUME flavour # "interface", NEW r \in Resources, tfid'[r] # NoIdent
                 PROVE  /\ \A x \in ItemsByField(menu', tfid'[r]) : menu'.rows[x].body = r
                        /\ \E x \in ItemsByField(menu', tfid'[r]) : TRUE
      BY <1>2 DEF Holding, ItemsByField
    <3>1. call.op = "update"
      BY <1>9, <2>1 DEF Adopting
    <3>2. menu.rows[call.item].body = call.r
      <4>1. tfid[call.r] # NoIdent /\ call.item \in ItemsByField(menu, tfid[call.r])
        BY <1>5, <2>2, <2>3, <3>1 DEF ItemsByField
      <4> QED BY <1>1, <4>1 DEF Own, Holding
    <3>3. \A x \in DOMAIN menu.rows : menu.rows[x].ident = call.want => x = call.item
      <4>1. CASE flavour # "certificate"
        BY <1>9, <4>1 DEF IInv, CallCoherent, ItemsByField
      <4>2. CASE flavour = "certificate"
        BY <1>9, <4>2 DEF Accepted, Vacant, ItemsByField
      <4> QED BY <4>1, <4>2
    <3>4. CASE r = call.r
      BY <1>3, <2>1, <2>2, <3>3, <3>4 DEF ItemsByField
    <3>5. CASE r # call.r
      <4>1. tfid'[r] = tfid[r]
        BY <1>3, <3>5
      <4>2. PICK x \in ItemsByField(menu, tfid[r]) : menu.rows[x].body = r
        BY <1>7, <3>5, <4>1
      <4>3. x # call.item /\ x \in DOMAIN menu.rows /\ menu.rows[x].ident = tfid[r]
        BY <3>2, <3>5, <4>2 DEF ItemsByField
      <4>4. tfid[r] # call.want
        BY <3>3, <4>3
      <4>5. x \in ItemsByField(menu', tfid'[r])
        BY <2>2, <4>1, <4>3 DEF ItemsByField
      <4>6. ASSUME NEW y \in ItemsByField(menu', tfid'[r]) PROVE menu'.rows[y].body = r
        <5>1. y \in ItemsByField(menu, tfid[r]) /\ menu'.rows[y] = menu.rows[y]
          BY <2>2, <4>1, <4>4 DEF ItemsByField
        <5> QED BY <1>7, <3>5, <4>1, <5>1
      <4> QED BY <4>5, <4>6
    <3> QED BY <3>4, <3>5
  <2> QED BY <1>2, <1>3, <2>4, <2>5, IdleLocated DEF Own
<1>10. CASE call.stage = "remove"
  <2>1. call.op = "delete" /\ id = NoIdent /\ call.item \in DOMAIN menu.rows
    BY <1>1, <1>10 DEF Located, ItemsByField
  <2>2. /\ DOMAIN menu'.rows = DOMAIN menu.rows \ {call.item}
        /\ \A x \in DOMAIN menu.rows \ {call.item} : menu'.rows[x] = menu.rows[x]
    BY <1>10, RemoveEffect
  <2>3. menu.rows[call.item].ident = tfid[call.r] /\ tfid[call.r] # NoIdent
    BY <1>1, <1>5, <1>10, <2>1 DEF Located, ItemsByField
  <2>4. Written'
    <3> SUFFICES ASSUME NEW x \in DOMAIN menu'.rows, NEW r \in Resources,
                        menu'.rows[x].body = r, ~IsDefault(menu', x)
                 PROVE  tfid'[r] = menu'.rows[x].ident /\ tfid'[r] # NoIdent
      BY DEF Written, IsDefault
    <3>1. x \in DOMAIN menu.rows /\ x # call.item /\ menu'.rows[x] = menu.rows[x]
      BY <2>2
    <3>2. tfid[r] = menu.rows[x].ident /\ tfid[r] # NoIdent
      BY <1>1, <3>1 DEF Written, IsDefault
    <3>3. r # call.r
      BY <1>1, <2>1, <2>3, <3>1, <3>2 DEF Identified
    <3> QED BY <1>3, <3>1, <3>2, <3>3
  <2>5. flavour' # "interface" => Holding'
    <3> SUFFICES ASSUME flavour # "interface", NEW r \in Resources, tfid'[r] # NoIdent
                 PROVE  /\ \A x \in ItemsByField(menu', tfid'[r]) : menu'.rows[x].body = r
                        /\ \E x \in ItemsByField(menu', tfid'[r]) : TRUE
      BY <1>2 DEF Holding, ItemsByField
    <3>1. menu.rows[call.item].body = call.r
      <4>1. call.item \in ItemsByField(menu, tfid[call.r])
        BY <2>1, <2>3 DEF ItemsByField
      <4> QED BY <1>1, <2>3, <4>1 DEF Own, Holding
    <3>2. r # call.r /\ tfid'[r] = tfid[r]
      BY <1>3, <2>1
    <3>3. PICK x \in ItemsByField(menu, tfid[r]) : menu.rows[x].body = r
      BY <1>7, <3>2
    <3>4. x \in ItemsByField(menu', tfid'[r])
      BY <2>2, <3>1, <3>2, <3>3 DEF ItemsByField
    <3>5. \A y \in ItemsByField(menu', tfid'[r]) :
            y \in ItemsByField(menu, tfid[r]) /\ menu'.rows[y] = menu.rows[y]
      BY <2>2, <3>2 DEF ItemsByField
    <3> QED BY <1>7, <3>2, <3>4, <3>5
  <2> QED BY <1>2, <1>3, <2>4, <2>5, IdleLocated DEF Own
<1> QED BY <1>8, <1>9, <1>10

\* Upstream's delete of a certificate takes no row but its own.
LEMMA DisposeOwn ==
  ASSUME IInv, edits = 0, Shaped(menu), Own, call # NoCall, Accepted(menu, call),
         call.stage = "dispose", menu' = Carried(menu, call), Goto("follow", NoID), UNCHANGED resVars
  PROVE  Own'
<1>1. TypeOK /\ Identified(menu) /\ call.r \in Resources /\ Written /\ Located
  BY DEF IInv, TypeOK, Own
<1>2. UNCHANGED <<tfid, due, flavour, life>>
  BY DEF Goto, resVars
<1>3. call'.stage = "follow" /\ call'.r = call.r /\ call'.op = call.op /\ call.op = "delete"
  BY <1>1, GotoCall DEF Located
<1>4. \A r \in Resources : Keeper(r)'
  BY <1>2 DEF Own, Keeper
<1>5. Located'
  BY <1>3 DEF Located
<1>6. PICK id \in ItemsByField(menu, tfid[call.r]) :
         /\ DOMAIN menu'.rows \in {DOMAIN menu.rows, DOMAIN menu.rows \ {id}}
         /\ \A x \in DOMAIN menu'.rows :
              /\ x # id => menu'.rows[x] = menu.rows[x]
              /\ menu'.rows[x].ident = menu.rows[x].ident
              /\ menu'.rows[x].body = menu.rows[x].body
              /\ menu'.rows[x].default = menu.rows[x].default
  BY DisposeEffect
<1>7. DOMAIN menu'.rows \subseteq DOMAIN menu.rows
  BY <1>6
<1>8. Written'
  BY <1>1, <1>2, <1>6, <1>7 DEF Written, IsDefault
<1>9. flavour' # "interface" => Holding'
  <2> SUFFICES ASSUME flavour # "interface", NEW r \in Resources, tfid[r] # NoIdent
               PROVE  /\ \A x \in ItemsByField(menu', tfid[r]) : menu'.rows[x].body = r
                      /\ call.r = r \/ \E x \in ItemsByField(menu', tfid[r]) : TRUE
    BY <1>2, <1>3 DEF Holding, ItemsByField
  <2>1. Holding
    BY DEF Own
  <2>2. \A x \in ItemsByField(menu', tfid[r]) : x \in ItemsByField(menu, tfid[r]) /\ menu'.rows[x].body = menu.rows[x].body
    BY <1>6, <1>7 DEF ItemsByField
  <2>3. \A x \in ItemsByField(menu', tfid[r]) : menu'.rows[x].body = r
    BY <2>1, <2>2 DEF Holding
  <2>4. ASSUME call.r # r PROVE \E x \in ItemsByField(menu', tfid[r]) : TRUE
    <3>1. PICK x \in ItemsByField(menu, tfid[r]) : menu.rows[x].body = r
      BY <2>1, <2>4 DEF Holding
    <3>2. tfid[call.r] # NoIdent
      <4>1. due[call.r].op = call.op /\ Keeper(call.r)
        BY <1>1 DEF TypeOK, Taken, Own
      <4> QED BY <1>3, <4>1 DEF Keeper
    <3>3. menu.rows[id].body = call.r
      BY <1>1, <1>6, <2>1, <3>2 DEF Holding
    <3>4. x # id /\ x \in DOMAIN menu'.rows
      BY <1>6, <2>4, <3>1, <3>3 DEF ItemsByField
    <3>5. x \in ItemsByField(menu', tfid[r])
      BY <1>6, <3>1, <3>4 DEF ItemsByField
    <3> QED BY <3>5
  <2> QED BY <2>3, <2>4
<1> QED BY <1>4, <1>5, <1>8, <1>9 DEF Own

\* Where identities are distinct, a lookup never finds several rows.
LEMMA OneItem ==
  ASSUME Identified(menu), NEW value, value # NoIdent
  PROVE  ~(Cardinality(ItemsByField(menu, value)) > 1)
<1> DEFINE items == ItemsByField(menu, value)
<1>1. CASE items = {}
  BY <1>1, FS_EmptySet
<1>2. CASE items # {}
  <2>1. PICK x \in items : TRUE
    BY <1>2
  <2>2. items = {x}
    BY <2>1 DEF Identified, ItemsByField
  <2>3. Cardinality({x}) = 1
    BY FS_Singleton
  <2> QED BY <2>2, <2>3
<1> QED BY <1>1, <1>2

\* The requests of a callback, while nobody edits the menu and no reply is lost.
LEMMA CallOwn ==
  ASSUME IInv, edits = 0, Shaped(menu), Adopting, Own, CallStep
  PROVE  Own'
<1>0. TypeOK /\ Identified(menu) /\ Written /\ Located /\ \A r \in Resources : Keeper(r)
  BY DEF IInv, Own
<1>1. UNCHANGED resVars /\ call # NoCall
  BY NoCallStage DEF CallStep, Lookup, RejectExisting, Fetch, Write, Dispose, FollowUp
<1>2. call.r \in Resources /\ due[call.r].op = call.op /\ call.op \in Ops \ {"none"} /\ Keeper(call.r)
  BY <1>0, <1>1 DEF TypeOK, Taken
<1>3. call.op # "create" => tfid[call.r] # NoIdent /\ LookupKey(call) = tfid[call.r]
  BY <1>2 DEF Keeper, LookupKey, Ops
<1>4. AfterGone(call) \in {"none", "create"} /\ {"none", "create", "update", "delete"} \subseteq Ops
  BY DEF AfterGone, Ops
<1>5. ASSUME call.op = "read", call.stage # "follow", menu' = menu,
             NEW row, row.ident = tfid[call.r], Observed(row)
      PROVE  Own'
  <2>1. PICK op \in {"none", "update", "delete"} : Return(tfid[call.r], op)
    BY <1>5 DEF Observed
  <2> QED BY <1>0, <1>1, <1>3, <1>4, <1>5, <2>1, ReturnOwn
<1>6. ASSUME menu' = menu, NEW op \in {"none", "create"}, Return(NoIdent, op),
             \A x \in ItemsByField(menu, tfid[call.r]) : IsDefault(menu, x)
      PROVE  Own'
  <2>1. \A x \in DOMAIN menu.rows : menu.rows[x].ident = tfid[call.r] => IsDefault(menu, x)
    BY <1>6 DEF ItemsByField
  <2> QED BY <1>0, <1>1, <1>4, <1>6, <2>1, ReturnOwn
<1>7. CASE Lookup
  <2>1. menu' = menu /\ call.stage = "lookup"
    BY <1>7 DEF Lookup
  <2>2. PICK item \in Nat :
          /\ item = NoID => ItemsByField(menu, LookupKey(call)) = {}
          /\ item # NoID => item \in ItemsByField(menu, LookupKey(call))
          /\ LookupEnds(item)
    BY <1>0, <1>7, LookupOutcome
  <2>3. CASE Fail
    BY <1>0, <1>1, <2>1, <2>3, FailOwn
  <2>4. CASE item = NoID /\ call.op = "create" /\ Goto("put", NoID)
    BY <1>0, <1>1, <2>1, <2>4, GotoOwn
  <2>5. CASE /\ item = NoID
             /\ \/ call.op = "read" /\ Return(NoIdent, AfterGone(call))
                \/ call.op = "delete" /\ Return(NoIdent, "none")
    <3>1. ItemsByField(menu, tfid[call.r]) = {}
      BY <1>3, <2>2, <2>5
    <3> QED BY <1>4, <1>6, <2>1, <2>5, <3>1
  <2>6. CASE item # NoID /\ call.op = "create" /\ Goto("patch", item)
    BY <1>0, <1>1, <2>1, <2>2, <2>6, GotoOwn
  <2>7. CASE item # NoID /\ call.op = "read" /\ Goto("fetch", item)
    BY <1>0, <1>1, <2>1, <2>2, <2>7, GotoOwn
  <2>8. CASE item # NoID /\ call.op = "read" /\ Observed(menu.rows[item])
    <3>1. menu.rows[item].ident = tfid[call.r]
      BY <1>3, <2>2, <2>8 DEF ItemsByField
    <3> QED BY <1>5, <2>1, <2>8, <3>1
  <2>9. CASE item # NoID /\ call.op = "update" /\ (Goto("vacant", item) \/ Goto("patch", item))
    BY <1>0, <1>1, <2>1, <2>2, <2>9, GotoOwn
  <2>10. CASE item # NoID /\ call.op = "delete" /\ IsDefault(menu, item) /\ Return(NoIdent, "none")
    <3>1. item \in ItemsByField(menu, tfid[call.r])
      BY <1>3, <2>2, <2>10
    <3>2. \A x \in ItemsByField(menu, tfid[call.r]) : x = item
      BY <1>0, <1>3, <2>10, <3>1 DEF Identified, ItemsByField
    <3> QED BY <1>6, <2>1, <2>10, <3>2
  <2>11. CASE item # NoID /\ call.op = "delete" /\ Goto("remove", item)
    BY <1>0, <1>1, <2>1, <2>2, <2>11, GotoOwn
  <2> QED BY <2>2, <2>3, <2>4, <2>5, <2>6, <2>7, <2>8, <2>9, <2>10, <2>11 DEF LookupEnds
<1>8. CASE RejectExisting
  <2>1. menu' = menu /\ call.stage = "vacant" /\ call.op = "update"
        /\ call.item \in ItemsByField(menu, LookupKey(call))
    BY <1>0, <1>8 DEF RejectExisting, Located
  <2>2. Fail \/ Goto("patch", call.item)
    BY <1>8 DEF RejectExisting
  <2> QED BY <1>0, <1>1, <2>1, <2>2, FailOwn, GotoOwn
<1>9. CASE Fetch
  <2>1. menu' = menu /\ call.stage = "fetch" /\ call.op = "read"
        /\ call.item \in ItemsByField(menu, tfid[call.r])
    BY <1>0, <1>3, <1>9 DEF Fetch, Located
  <2>2. call.item \in DOMAIN menu.rows /\ menu.rows[call.item].ident = tfid[call.r]
    BY <2>1 DEF ItemsByField
  <2>3. Observed(menu.rows[call.item])
    BY <1>3, <1>9, <2>1, <2>2 DEF Fetch
  <2> QED BY <1>5, <2>1, <2>2, <2>3
<1>10. CASE Write
  <2>1. call.stage \in {"put", "patch", "remove"}
    BY <1>10 DEF Write
  <2>2. CASE Fail /\ menu' = menu
    BY <1>0, <1>1, <2>1, <2>2, FailOwn
  <2>3. CASE /\ Accepted(menu, call) /\ menu' = Carried(menu, call)
             /\ Return(IF call.stage = "remove" THEN NoIdent ELSE call.want, "none")
    BY <1>1, <2>1, <2>3, WriteOwn
  <2> QED BY <1>10, <2>2, <2>3 DEF Write
<1>11. CASE Dispose
  <2>1. call.stage = "dispose"
    BY <1>11 DEF Dispose
  <2>2. CASE Fail /\ menu' = menu
    BY <1>0, <1>1, <2>1, <2>2, FailOwn
  <2>3. CASE Accepted(menu, call) /\ menu' = Carried(menu, call) /\ Goto("follow", NoID)
    BY <1>1, <2>1, <2>3, DisposeOwn
  <2> QED BY <1>11, <2>2, <2>3 DEF Dispose
<1>12. CASE FollowUp
  <2> DEFINE items == ItemsByField(menu, tfid[call.r])
  <2>1. menu' = menu /\ call.stage = "follow" /\ call.op = "delete"
    BY <1>0, <1>12 DEF FollowUp, Located
  <2>2. tfid[call.r] # NoIdent /\ ~(Cardinality(items) > 1)
    BY <1>0, <1>3, <2>1, OneItem
  <2>3. \/ items = {} /\ Return(NoIdent, "none")
        \/ items # {} /\ Goto("remove", CHOOSE id \in items : TRUE)
    BY <1>12, <2>2 DEF FollowUp
  <2>4. CASE items = {} /\ Return(NoIdent, "none")
    BY <1>6, <2>1, <2>4
  <2>5. CASE items # {} /\ Goto("remove", CHOOSE id \in items : TRUE)
    <3>1. PICK id \in items : Goto("remove", id)
      BY <2>5
    <3> QED BY <1>0, <1>1, <1>3, <2>1, <2>5, <3>1, GotoOwn
  <2> QED BY <2>3, <2>4, <2>5
<1> QED BY <1>7, <1>8, <1>9, <1>10, <1>11, <1>12 DEF CallStep

\* People at the resources, and workers between callbacks.
LEMMA OutsideOwn ==
  ASSUME TypeOK, Own, UserStep \/ \E r \in Resources : Worker(r)
  PROVE  Own'
<1>0. Written /\ Located /\ \A r \in Resources : Keeper(r)
  BY DEF Own
<1>1. CASE UserStep
  <2>1. UNCHANGED <<flavour, menu, tfid, due, call>>
    BY <1>1 DEF UserStep, UserCreate, UserRename, UserDelete, Act
  <2>2. \A q \in Resources : life'[q] \in {"none", "gone"} => life[q] = life'[q]
    BY <1>1 DEF UserStep, UserCreate, UserRename, UserDelete, TypeOK
  <2>3. \A r \in Resources : Keeper(r)'
    BY <1>0, <2>1, <2>2 DEF Keeper
  <2> QED BY <2>1, <2>3 DEF Own, Written, Located, Holding, ItemsByField, IsDefault, LookupKey
<1>2. ASSUME NEW r \in Resources, Reconcile(r) PROVE Own'
  <2>1. UNCHANGED <<flavour, menu, tfid, call>>
    BY <1>2 DEF Reconcile
  <2>2. \/ tfid[r] = NoIdent /\ life' = [life EXCEPT ![r] = "gone"] /\ UNCHANGED due
        \/ /\ UNCHANGED life /\ life[r] \in {"live", "deleting"}
           /\ due' = [due EXCEPT ![r] = [op |-> IF tfid[r] = NoIdent THEN "create" ELSE "read",
                                         want |-> want[r], deleted |-> life[r] = "deleting"]]
    BY <1>2 DEF Reconcile
  <2>3. ASSUME NEW q \in Resources PROVE Keeper(q)'
    <3>1. Keeper(q)
      BY <1>0
    <3>2. CASE q = r
      BY <1>2, <2>1, <2>2, <3>1, <3>2 DEF Keeper, TypeOK, Reconcile, Idle
    <3>3. CASE q # r
      BY <2>1, <2>2, <3>1, <3>3 DEF Keeper, TypeOK
    <3> QED BY <3>2, <3>3
  <2> QED BY <2>1, <2>3 DEF Own, Written, Located, Holding, ItemsByField, IsDefault, LookupKey
<1>3. ASSUME NEW r \in Resources, Enter(r) PROVE Own'
  <2>1. UNCHANGED <<flavour, menu, life, tfid>> /\ call = NoCall /\ due[r].op # "none"
    BY <1>3 DEF Enter
  <2>2. \A q \in Resources : due'[q] = due[q] \/ due'[q] = Idle
    BY <1>3 DEF Enter, TypeOK
  <2>3. \A q \in Resources : Keeper(q)'
    BY <1>0, <2>1, <2>2 DEF Keeper, Idle
  <2>4. Written'
    BY <1>0, <2>1 DEF Written, IsDefault
  <2>5. flavour' # "interface" => Holding'
    BY <2>1, NoCallEnds DEF Own, Holding, ItemsByField
  <2>6. Located'
    <3>1. CASE call' = NoCall
      BY <3>1, IdleLocated
    <3>2. CASE /\ ~Refuses(due[r])
               /\ call' = [r |-> r, op |-> due[r].op, want |-> due[r].want,
                           deleted |-> due[r].deleted, stage |-> FirstStage(due[r]), item |-> NoID]
      <4>1. due[r].op \in {"read", "create", "update", "delete"}
        BY <2>1 DEF TypeOK, Ops
      <4>2. call'.stage = FirstStage(due[r]) /\ call'.op = due[r].op /\ call'.want = due[r].want
        BY <3>2
      <4> QED BY <3>2, <4>1, <4>2 DEF Located, FirstStage, Refuses
    <3> QED BY <1>3, <2>1, <3>1, <3>2 DEF Enter
  <2> QED BY <2>3, <2>4, <2>5, <2>6 DEF Own
<1> QED BY <1>1, <1>2, <1>3 DEF Worker

\* It starts so: no row is a resource's.
LEMMA OwnInit == Init => OwnInv
<1> SUFFICES ASSUME Init PROVE OwnInv
  OBVIOUS
<1>1. IInv
  BY UniqueInit
<1>2. PICK rows \in StartRows[flavour] : menu = MenuOf(rows)
  BY DEF Init
<1>3. flavour \in DOMAIN StartRows /\ menu.rows = [i \in DOMAIN rows |-> rows[i]]
  BY <1>2 DEF Init, MenuOf
<1>4. rows \in Seq([ident : STRING, default : STRING, revoked : STRING, issued : STRING, body : STRING])
  BY <1>3, StartAssumption
<1>5. \A i \in DOMAIN rows : rows[i] \in [ident : STRING, default : STRING, revoked : STRING, issued : STRING, body : STRING]
  BY <1>4, SeqElements
<1>6. Shaped(menu)
  <2>1. \A i \in DOMAIN rows : DOMAIN rows[i] = {"ident", "default", "revoked", "issued", "body"}
    BY <1>5
  <2> QED BY <1>3, <2>1 DEF Shaped
<1>7. \A x \in DOMAIN menu.rows : menu.rows[x].body \notin Resources
  BY <1>3, StartAssumption
<1>8. Adopting /\ Located
  BY NoCallEnds DEF Init, Adopting, Located
<1>9. Written
  BY <1>7 DEF Written
<1>10. (\A r \in Resources : Keeper(r)) /\ Holding
  BY DEF Init, Keeper, Holding, Idle
<1> QED BY <1>1, <1>6, <1>8, <1>9, <1>10 DEF OwnInv, Own

\* And stays so until somebody edits the menu or a reply is lost.
LEMMA OwnStep == OwnInv /\ [Next]_vars => OwnInv'
<1> SUFFICES ASSUME OwnInv, [Next]_vars PROVE OwnInv'
  OBVIOUS
<1>1. IInv' /\ IInv /\ TypeOK /\ Shaped(menu) /\ Adopting
  BY UniqueStep DEF OwnInv, IInv
<1>2. Shaped(menu)' /\ Adopting'
  BY <1>1, AdoptingStep
<1>3. SUFFICES ASSUME edits' = 0, faults' = 0 PROVE Own'
  BY <1>1, <1>2 DEF OwnInv
<1>4. CASE UNCHANGED vars
  <2>1. Own
    BY <1>3, <1>4 DEF vars, OwnInv
  <2> QED BY <1>4, <2>1 DEF vars, Own, Keeper, Written, Located, Holding, ItemsByField, IsDefault, LookupKey
<1>5. CASE HandStep
  <2>1. Edit
    BY <1>5, Zenon DEF HandStep, HandAdd, HandRename, HandRemove
  <2> QED BY <1>1, <1>3, <2>1 DEF Edit, TypeOK
<1>6. CASE RequestLost
  BY <1>1, <1>3, <1>6 DEF RequestLost, TypeOK
<1>7. CASE UserStep \/ \E r \in Resources : Worker(r)
  <2>1. edits' = edits /\ faults' = faults
    BY <1>7 DEF UserStep, UserCreate, UserRename, UserDelete, Act, Worker, Reconcile, Enter
  <2> QED BY <1>1, <1>3, <1>7, <2>1, OutsideOwn DEF OwnInv
<1>8. CASE CallStep
  <2>1. edits' = edits /\ faults' = faults
    BY <1>8 DEF CallStep, Lookup, RejectExisting, Fetch, Write, Dispose, FollowUp, resVars
  <2> QED BY <1>1, <1>3, <1>8, <2>1, CallOwn DEF OwnInv
<1> QED BY <1>4, <1>5, <1>6, <1>7, <1>8 DEF Next

\* A resource that is gone has left nothing behind but the default row, whatever
\* renames and deletions crossed: its worker gives an id up only where no row has it.
THEOREM GoneLeavesNothing == Spec => []NothingLeft
<1>1. OwnInv => NothingLeft
  <2> SUFFICES ASSUME OwnInv, edits + faults = 0, NEW r \in Resources, NEW id \in DOMAIN menu.rows,
                      life[r] = "gone", menu.rows[id].body = r
               PROVE  IsDefault(menu, id)
    BY DEF NothingLeft
  <2>1. edits = 0 /\ faults = 0
    <3>1. edits \in Nat /\ faults \in Nat
      BY DEF OwnInv, IInv, TypeOK
    <3> QED BY <3>1
  <2> QED BY <2>1 DEF OwnInv, Own, Keeper, Written
<1> QED BY <1>1, OwnInit, OwnStep, PTL DEF Spec

\* No callback touches a row somebody else wrote: a create only ever changes the
\* router's default row, and an update or delete of a comment or certificate resource
\* only rows it wrote itself, until somebody edits the menu or a reply is lost.
THEOREM OthersRowsSafe == Spec => OthersRowsKept
<1> DEFINE Change == \A id \in DOMAIN menu.rows :
             ( /\ edits' = edits
               /\ id \notin DOMAIN menu'.rows \/ menu'.rows[id] # menu.rows[id]) =>
                 /\ call.op = "create" => IsDefault(menu, id)
                 /\ (flavour # "interface" /\ edits + faults = 0) => menu.rows[id].body = call.r
<1>1. OwnInv /\ [Next]_vars => [Change]_vars
  <2> SUFFICES ASSUME OwnInv, [Next]_vars, NEW id \in DOMAIN menu.rows, edits' = edits,
                      id \notin DOMAIN menu'.rows \/ menu'.rows[id] # menu.rows[id]
               PROVE  /\ call.op = "create" => IsDefault(menu, id)
                      /\ (flavour # "interface" /\ edits + faults = 0) => menu.rows[id].body = call.r
    BY Zenon
  <2>1. TypeOK /\ Shaped(menu) /\ Adopting
    BY DEF OwnInv, IInv
  <2>2. menu' # menu
    OBVIOUS
  <2>3. ~HandStep
    <3>1. HandStep => Edit
      BY Zenon DEF HandStep, HandAdd, HandRename, HandRemove
    <3> QED BY <2>1, <3>1 DEF Edit, TypeOK
  <2>4. Write \/ RequestLost \/ Dispose
    <3>1. ~(UserStep \/ \E r \in Resources : Worker(r))
      BY <2>2 DEF UserStep, UserCreate, UserRename, UserDelete, Act, Worker, Reconcile, Enter
    <3>2. ~(Lookup \/ RejectExisting \/ Fetch \/ FollowUp)
      BY <2>2 DEF Lookup, RejectExisting, Fetch, FollowUp
    <3> QED BY <2>2, <2>3, <3>1, <3>2 DEF Next, CallStep, vars
  <2>5. call # NoCall /\ Accepted(menu, call) /\ menu' = Carried(menu, call)
    BY <2>2, <2>4, NoCallStage DEF Write, RequestLost, Dispose
  <2>6. call.stage \in {"patch", "remove", "dispose"}
    <3>1. call.stage \in {"put", "patch", "remove", "dispose"}
      BY <2>5 DEF Accepted
    <3>2. call.stage # "put"
      BY <2>1, <2>5, PutEffect
    <3> QED BY <3>1, <3>2
  <2>7. ASSUME call.op = "create" PROVE IsDefault(menu, id)
    <3>1. call.stage = "patch" /\ IsDefault(menu, call.item)
      BY <2>1, <2>6, <2>7 DEF Adopting
    <3>2. id = call.item
      BY <2>1, <2>5, <3>1, PatchEffect
    <3> QED BY <3>1, <3>2
  <2>8. ASSUME flavour # "interface", edits + faults = 0 PROVE menu.rows[id].body = call.r
    <3>1. edits = 0 /\ faults = 0
      BY <2>1, <2>8 DEF TypeOK
    <3>2. Own /\ Holding /\ Located /\ call.r \in Resources
      BY <2>1, <2>5, <2>8, <3>1 DEF OwnInv, Own, TypeOK
    <3>3. call.op # "create"
      BY <2>1, <2>6, <2>8 DEF Adopting
    <3>4. tfid[call.r] # NoIdent /\ LookupKey(call) = tfid[call.r]
      <4>1. due[call.r].op = call.op /\ call.op \in Ops \ {"none"} /\ Keeper(call.r)
        BY <2>1, <2>5, <3>2 DEF TypeOK, Taken, Own
      <4> QED BY <3>3, <4>1 DEF Keeper, LookupKey, Ops
    <3>5. id \in ItemsByField(menu, tfid[call.r])
      <4>1. CASE call.stage = "patch"
        BY <2>1, <2>5, <3>2, <3>4, <4>1, PatchEffect DEF Located
      <4>2. CASE call.stage = "remove"
        BY <2>5, <3>2, <3>4, <4>2, RemoveEffect DEF Located
      <4>3. CASE call.stage = "dispose"
        <5>1. PICK x \in ItemsByField(menu, tfid[call.r]) :
                 /\ DOMAIN menu'.rows \in {DOMAIN menu.rows, DOMAIN menu.rows \ {x}}
                 /\ \A y \in DOMAIN menu'.rows : y # x => menu'.rows[y] = menu.rows[y]
          BY <2>1, <2>5, <4>3, DisposeEffect
        <5>2. id = x
          BY <5>1
        <5> QED BY <5>2
      <4> QED BY <2>6, <4>1, <4>2, <4>3
    <3> QED BY <3>2, <3>4, <3>5 DEF Holding
  <2> QED BY <2>7, <2>8
<1> QED BY <1>1, OwnInit, OwnStep, PTL DEF Spec, OthersRowsKept
=============================================================================
