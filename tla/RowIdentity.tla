----------------------------- MODULE RowIdentity -----------------------------
(***************************************************************************)
(* config/comment_identity.go, config/interface_identity.go and            *)
(* config/certificate_removal.go: Terraform callbacks that find their row  *)
(* by a field of it, not by its .id.                                       *)
(*                                                                         *)
(* A row is [ident, default, revoked, issued, body]: the comment,          *)
(* interface or name, the router's flags, whether a CA issued it, and all  *)
(* other settings, for which the name of whoever wrote them stands.        *)
(* A certificate's own create, read, update and delete are upstream's      *)
(* under name identity, which is external; only its delete is wrapped.     *)
(* Its renames are left out: name_identity.go says they strand the         *)
(* resource.                                                               *)
(*                                                                         *)
(* Each managed resource has a worker that observes it                     *)
(* and then creates, updates or deletes it (upjet, not in the repository:  *)
(* `due` is the callback it calls next, with the spec it read; `tfid` the  *)
(* Terraform id it keeps, which a callback that returns an error leaves    *)
(* alone).  WrapProvider is the outermost wrapper, so operationMu is held  *)
(* for a whole callback: `call` is the one in progress.  Each request to   *)
(* the router is a step of its own, and people may come between any two.   *)
(***************************************************************************)
EXTENDS RouterMenu, FiniteSets

CONSTANTS Resources,   \* managed resources of one menu
          Idents,      \* comments, interfaces or names a spec may give
          Issued,      \* resources that have their certificate issued by a CA
          StartRows,   \* menus to start from, for each flavour the instance has
          HandIdents,  \* comments, interfaces or names people give a row, or none
          MaxActs,     \* bound on what people do to the managed resources
          MaxEdits,    \* bound on what people do to the menu by hand
          MaxFaults    \* bound on requests or replies that are lost

ASSUME FlavourAssumption == DOMAIN StartRows \subseteq {"comment", "interface", "certificate"}
ASSUME BoundsAssumption  == {MaxActs, MaxEdits, MaxFaults} \subseteq Nat

\* No resource is called "", and the menu starts without two rows of one identity,
\* without a revoked one and without one a resource wrote; any number of rows may
\* have no comment.  The router shows the flags of every row, and a new row is not
\* revoked.
ASSUME ResourcesAssumption == "" \notin Resources
ASSUME StartAssumption ==
  \A f \in DOMAIN StartRows : \A rows \in StartRows[f] :
    /\ rows \in Seq([ident : STRING, default : STRING, revoked : STRING, issued : STRING, body : STRING])
    /\ \A i, j \in DOMAIN rows : (rows[i].ident = rows[j].ident /\ rows[i].ident # "") => i = j
    /\ \A i \in DOMAIN rows : rows[i].revoked = "false" /\ rows[i].body \notin Resources
ASSUME DefaultsAssumption ==
  {"default", "revoked", "issued"} \subseteq DOMAIN Defaults /\ Defaults["revoked"] = "false"

\* The router stores a comment, an interface, a name or a flag as it is sent, and
\* whose settings a row has is not lost either.
ASSUME IdentsAssumption == (Idents \cup Resources \cup {"", "true"}) \cap DOMAIN Canonical = {}

VARIABLES flavour, \* which of the three identities the menu has
          menu,    \* the menu on the router
          life,    \* "none", "live", "deleting" or "gone", per resource
          want,    \* spec.forProvider.comment / interface / name
          tfid,    \* the Terraform id, NoIdent when the resource has none
          last,    \* of a certificate: the `ca` its last read left in the state and,
                   \* as history, which row it read
          due,     \* the callback the worker calls next, and the spec it read
          call,    \* the callback inside operationMu
          acts, edits, faults

resVars == <<flavour, life, want, acts>>
vars    == <<flavour, menu, life, want, tfid, last, due, call, acts, edits, faults>>

NoIdent == ""
Hand    == "hand"
Idle    == [op |-> "none", want |-> NoIdent, deleted |-> FALSE]
NoCall  == [r |-> "", op |-> "none", want |-> NoIdent, deleted |-> FALSE,
            stage |-> "none", item |-> NoID]

Ops    == {"none", "read", "create", "update", "delete"}
Stages == {"lookup", "vacant", "fetch", "put", "patch", "remove", "dispose", "follow"}
Wanted == Idents \cup {NoIdent}
Taken(c) == [op |-> c.op, want |-> c.want, deleted |-> c.deleted]

\* A callback is only in progress for a resource whose worker has called it, with
\* the spec that worker read, and names a row once it has found one; no worker is
\* left with a resource that is gone; ids are handed out once.
TypeOK ==
  /\ flavour \in DOMAIN StartRows
  /\ menu.next \in Nat \ {0} /\ DOMAIN menu.rows \subseteq 1..(menu.next - 1)
  /\ life \in [Resources -> {"none", "live", "deleting", "gone"}]
  /\ want \in [Resources -> Wanted]
  /\ DOMAIN tfid = Resources
  /\ last \in [Resources -> [ca : BOOLEAN, row : Nat]]
  /\ due \in [Resources -> [op : Ops, want : Wanted, deleted : BOOLEAN]]
  /\ \A r \in Resources :
       /\ due[r].op # "none" => life[r] \in {"live", "deleting"}
       /\ due[r].deleted => life[r] = "deleting"
  /\ call \in {NoCall} \cup [r : Resources, op : Ops \ {"none"}, want : Wanted,
                              deleted : BOOLEAN, stage : Stages, item : Nat]
  /\ call # NoCall =>
       /\ due[call.r] = Taken(call)
       /\ call.stage \in {"vacant", "fetch", "patch", "remove"} => call.item # NoID
  /\ acts \in 0..MaxActs /\ edits \in 0..MaxEdits /\ faults \in 0..MaxFaults

Init ==
  /\ flavour \in DOMAIN StartRows
  /\ \E rows \in StartRows[flavour] : menu = MenuOf(rows)
  /\ life = [r \in Resources |-> "none"]
  /\ want = [r \in Resources |-> NoIdent]
  /\ tfid = [r \in Resources |-> NoIdent]
  /\ last = [r \in Resources |-> [ca |-> FALSE, row |-> NoID]]
  /\ due  = [r \in Resources |-> Idle]
  /\ call = NoCall
  /\ acts = 0 /\ edits = 0 /\ faults = 0

-----------------------------------------------------------------------------
(* The router, and the lookup the callbacks share. *)

\* itemsByField: GET <path>?<field>=<value>, the rows that carry the value.
ItemsByField(m, value) == {id \in DOMAIN m.rows : m.rows[id].ident = value}

IsDefault(m, id) == m.rows[id].default = "true"

\* What the router enforces of interfaces and names, not of comments: one row each.
Vacant(m, ident, id) == flavour # "comment" => ItemsByField(m, ident) \subseteq {id}

\* The fields upstream's update sends, and its create, which has a certificate
\* signed by the CA its spec names.
Fields(c) == [ident |-> c.want, body |-> c.r]
NewRow(c) == [ident |-> c.want, body |-> c.r,
              issued |-> IF flavour = "certificate" /\ c.r \in Issued THEN "true" ELSE "false"]

\* Mutant: the delete asks the spec, not the state, whether a CA issued the row.
DisposedBySpec(m, c) ==
  LET id == CHOOSE x \in ItemsByField(m, tfid[c.r]) : TRUE
  IN  IF c.r \in Issued THEN Update(m, id, [revoked |-> "true"]) ELSE Delete(m, id)

\* Upstream's delete of a certificate, which names it to the router: when the state
\* has the CA that issued it, it is revoked and stays; otherwise it is removed.
Disposed(m, c) ==
  LET id == CHOOSE x \in ItemsByField(m, tfid[c.r]) : TRUE
  IN  IF last[c.r].ca THEN Update(m, id, [revoked |-> "true"]) ELSE Delete(m, id)

\* The one request of a stage that changes the router, where it is accepted.
Accepted(m, c) ==
  CASE c.stage = "put"    -> Vacant(m, c.want, NoID)
    [] c.stage = "patch"  -> c.item \in DOMAIN m.rows /\ Vacant(m, c.want, c.item)
    [] c.stage = "remove" -> c.item \in DOMAIN m.rows
                               /\ ~(flavour = "interface" /\ IsDefault(m, c.item))
    [] c.stage = "dispose" -> ItemsByField(m, tfid[c.r]) # {}
    [] OTHER              -> FALSE

Carried(m, c) ==
  CASE c.stage = "put"    -> Create(m, NewRow(c))
    [] c.stage = "patch"  -> Update(m, c.item, Fields(c))
    [] c.stage = "remove" -> Delete(m, c.item)
    [] c.stage = "dispose" -> Disposed(m, c)

-----------------------------------------------------------------------------
(* The managed resources, and the workers that call the callbacks. *)

Act == acts < MaxActs /\ acts' = acts + 1 /\ UNCHANGED <<flavour, menu, tfid, last, due, call, edits, faults>>

UserCreate(r, i) ==
  /\ Act /\ life[r] = "none"
  /\ life' = [life EXCEPT ![r] = "live"]
  /\ want' = [want EXCEPT ![r] = i]

UserRename(r, i) ==
  /\ Act /\ life[r] = "live" /\ want[r] # i /\ flavour # "certificate"
  /\ want' = [want EXCEPT ![r] = i]
  /\ UNCHANGED life

UserDelete(r) ==
  /\ Act /\ life[r] = "live"
  /\ life' = [life EXCEPT ![r] = "deleting"]
  /\ UNCHANGED want

\* A worker takes the resource up: it observes it if it has an id; without one
\* there is nothing to observe.
Reconcile(r) ==
  /\ life[r] \in {"live", "deleting"} /\ due[r] = Idle
  /\ IF tfid[r] = NoIdent /\ life[r] = "deleting"
     THEN life' = [life EXCEPT ![r] = "gone"] /\ UNCHANGED due
     ELSE /\ due' = [due EXCEPT ![r] =
                          [op      |-> IF tfid[r] = NoIdent THEN "create" ELSE "read",
                           want    |-> want[r],
                           deleted |-> life[r] = "deleting"]]
          /\ UNCHANGED life
  /\ UNCHANGED <<flavour, menu, want, tfid, last, call, acts, edits, faults>>

\* Create and update refuse an empty comment or interface before any request; an
\* empty name fails upstream's create.
Refuses(c) == c.op \in {"create", "update"} /\ c.want = NoIdent

\* What a callback asks the router first.  Upstream's create of a certificate does
\* not look for the name, which the router keeps unique.
FirstStage(c) ==
  IF flavour # "certificate" \/ c.op \in {"read", "update"} THEN "lookup"
  ELSE IF c.op = "create" THEN "put" ELSE "dispose"

\* The worker enters its callback: guard locks operationMu.
Enter(r) ==
  /\ call = NoCall /\ due[r].op # "none"
  /\ IF Refuses(due[r])
     THEN due' = [due EXCEPT ![r] = Idle] /\ UNCHANGED call
     ELSE /\ call' = [r |-> r, op |-> due[r].op, want |-> due[r].want,
                      deleted |-> due[r].deleted, stage |-> FirstStage(due[r]), item |-> NoID]
          /\ UNCHANGED due
  /\ UNCHANGED <<flavour, menu, life, want, tfid, last, acts, edits, faults>>

-----------------------------------------------------------------------------
(* The callbacks. *)

Goto(stage, item) ==
  /\ call' = [call EXCEPT !.stage = stage, !.item = item]
  /\ UNCHANGED <<tfid, due>>

\* The callback returns nil and leaves `id` in the state; the worker goes on to `op`.
Return(id, op) ==
  /\ call' = NoCall
  /\ tfid' = [tfid EXCEPT ![call.r] = id]
  /\ due'  = [due EXCEPT ![call.r] = IF op = "none" THEN Idle ELSE [@ EXCEPT !.op = op]]

\* Mutant: an error return leaves operationMu locked.
FailLocked == due' = [due EXCEPT ![call.r] = Idle] /\ UNCHANGED <<call, tfid>>

\* The callback returns an error; the worker keeps its state and comes back later.
Fail ==
  /\ call' = NoCall
  /\ due'  = [due EXCEPT ![call.r] = Idle]
  /\ UNCHANGED tfid

\* Mutant: every operation looks its row up by what the spec says now.
LookupKeyWanted(c) == c.want

\* The identity an operation resolves: what create will write, what others hold.
LookupKey(c) == IF c.op = "create" THEN c.want ELSE tfid[c.r]

\* commentIdentityCreate, after the lookup: nobody else's row is taken over.
CommentIdentityCreate(item) ==
  \/ item = NoID /\ Goto("put", NoID)
  \/ item # NoID /\ Fail

\* Mutant: create takes over whatever row is there.
InterfaceIdentityCreateAdopts(item) ==
  IF item = NoID THEN Goto("put", NoID) ELSE Goto("patch", item)

\* interfaceIdentityCreate, after the lookup: the default row is adopted.
InterfaceIdentityCreate(item) ==
  \/ item = NoID /\ Goto("put", NoID)
  \/ item # NoID /\ IsDefault(menu, item) /\ Goto("patch", item)
  \/ item # NoID /\ ~IsDefault(menu, item) /\ Fail

\* What the worker calls once the resource turned out not to exist.
AfterGone(c) == IF c.deleted THEN "none" ELSE "create"

\* commentIdentityRead, after the lookup: a row that is gone clears the id.
CommentIdentityRead(item) ==
  \/ item = NoID /\ Return(NoIdent, AfterGone(call))
  \/ item # NoID /\ Goto("fetch", item)

\* Mutant: a row that is not found is an error.
InterfaceIdentityReadFails(item) == IF item = NoID THEN Fail ELSE Goto("fetch", item)

InterfaceIdentityRead(item) == CommentIdentityRead(item)

\* Mutant: a rename does not ask whether the new comment is taken.
CommentIdentityUpdateUnchecked(item) == IF item = NoID THEN Fail ELSE Goto("patch", item)

\* commentIdentityUpdate, after the lookup.
CommentIdentityUpdate(item) ==
  \/ item = NoID /\ Fail
  \/ item # NoID /\ Goto(IF call.want # tfid[call.r] THEN "vacant" ELSE "patch", item)

InterfaceIdentityUpdate(item) == CommentIdentityUpdate(item)

\* commentIdentityDelete, after the lookup.
CommentIdentityDelete(item) ==
  \/ item = NoID /\ Return(NoIdent, "none")
  \/ item # NoID /\ Goto("remove", item)

\* Mutant: the default row is deleted like any other.
InterfaceIdentityDeleteAlways(item) == CommentIdentityDelete(item)

\* interfaceIdentityDelete, after the lookup: the default row is released as it is.
InterfaceIdentityDelete(item) ==
  IF item # NoID /\ IsDefault(menu, item) THEN Return(NoIdent, "none")
  ELSE CommentIdentityDelete(item)

CommentIdentity(item) ==
  \/ call.op = "create" /\ CommentIdentityCreate(item)
  \/ call.op = "read"   /\ CommentIdentityRead(item)
  \/ call.op = "update" /\ CommentIdentityUpdate(item)
  \/ call.op = "delete" /\ CommentIdentityDelete(item)

InterfaceIdentity(item) ==
  \/ call.op = "create" /\ InterfaceIdentityCreate(item)
  \/ call.op = "read"   /\ InterfaceIdentityRead(item)
  \/ call.op = "update" /\ InterfaceIdentityUpdate(item)
  \/ call.op = "delete" /\ InterfaceIdentityDelete(item)

\* What a read leaves in the state is the row's own identity.  The worker compares
\* what it read with the spec it holds.
Observed(row) ==
  Return(row.ident,
         IF call.deleted THEN "delete"
         ELSE IF row.ident = call.want /\ row.body = call.r THEN "none"
         ELSE "update")

\* Upstream's read and update of a certificate, which it finds by its name: a read
\* is this one request.
Certificate(item) ==
  \/ call.op = "read"   /\ item = NoID /\ Return(NoIdent, AfterGone(call))
  \/ call.op = "read"   /\ item # NoID /\ Observed(menu.rows[item])
  \/ call.op = "update" /\ item = NoID /\ Fail
  \/ call.op = "update" /\ item # NoID /\ Goto("patch", item)

\* What a read of a certificate leaves in the state besides its name.
Noted(item) ==
  IF flavour = "certificate" /\ call.op = "read" /\ item # NoID
  THEN [last EXCEPT ![call.r] = [ca |-> menu.rows[item].issued = "true", row |-> item]]
  ELSE last

\* resolveByField: several items are an error, whatever the operation.
Lookup ==
  /\ call.stage = "lookup"
  /\ LET items == ItemsByField(menu, LookupKey(call))
         item  == IF items = {} THEN NoID ELSE CHOOSE id \in items : TRUE
     IN  IF Cardinality(items) > 1 THEN Fail /\ UNCHANGED last
         ELSE /\ last' = Noted(item)
              /\ \/ flavour = "comment"     /\ CommentIdentity(item)
                 \/ flavour = "interface"   /\ InterfaceIdentity(item)
                 \/ flavour = "certificate" /\ Certificate(item)
  /\ UNCHANGED <<menu, resVars, edits, faults>>

\* rejectExisting, and the same test of interfaceIdentityUpdate.
RejectExisting ==
  /\ call.stage = "vacant"
  /\ IF ItemsByField(menu, call.want) # {} THEN Fail ELSE Goto("patch", call.item)
  /\ UNCHANGED <<menu, resVars, last, edits, faults>>

\* Upstream's read by .id, which clears the id of a row that is not there; the
\* wrapper then keeps the row's own comment or interface as the id, which is none
\* for a row that has lost its comment.
Fetch ==
  /\ call.stage = "fetch"
  /\ IF call.item \notin DOMAIN menu.rows \/ menu.rows[call.item].ident = NoIdent
     THEN Return(NoIdent, AfterGone(call))
     ELSE Observed(menu.rows[call.item])
  /\ UNCHANGED <<menu, resVars, last, edits, faults>>

\* Upstream's create, update or delete: carried out, or refused.
Write ==
  /\ call.stage \in {"put", "patch", "remove"}
  /\ IF Accepted(menu, call)
     THEN /\ menu' = Carried(menu, call)
          /\ Return(IF call.stage = "remove" THEN NoIdent ELSE call.want, "none")
     ELSE Fail /\ UNCHANGED menu
  /\ UNCHANGED <<resVars, last, edits, faults>>

\* certificateRemoval, upstream's part: an error of upstream ends it.
Dispose ==
  /\ call.stage = "dispose"
  /\ IF Accepted(menu, call)
     THEN menu' = Carried(menu, call) /\ Goto("follow", NoID)
     ELSE Fail /\ UNCHANGED menu
  /\ UNCHANGED <<resVars, last, edits, faults>>

\* Mutant: upstream's delete is taken for a removal.
FollowUpNone ==
  /\ call.stage = "follow"
  /\ Return(NoIdent, "none")
  /\ UNCHANGED <<menu, resVars, last, edits, faults>>

\* certificateRemoval, after upstream: a row that still has the name, which under
\* name identity is the id, is removed.
FollowUp ==
  /\ call.stage = "follow"
  /\ LET items == ItemsByField(menu, tfid[call.r])
     IN  IF tfid[call.r] = NoIdent \/ items = {} THEN Return(NoIdent, "none")
         ELSE IF Cardinality(items) > 1 THEN Fail
         ELSE Goto("remove", CHOOSE id \in items : TRUE)
  /\ UNCHANGED <<menu, resVars, last, edits, faults>>

\* A request is lost, or its reply, or the process stops: the router may have
\* carried the request out, and nothing is recorded.
RequestLost ==
  /\ faults < MaxFaults /\ call # NoCall
  /\ faults' = faults + 1
  /\ Fail
  /\ menu' \in {menu} \cup (IF Accepted(menu, call) THEN {Carried(menu, call)} ELSE {})
  /\ UNCHANGED <<resVars, last, edits>>

CallStep == Lookup \/ RejectExisting \/ Fetch \/ Write \/ Dispose \/ FollowUp

-----------------------------------------------------------------------------
(* People at the router. *)

Edit == edits < MaxEdits /\ edits' = edits + 1 /\ UNCHANGED <<resVars, tfid, last, due, call, faults>>

\* Only a comment can be empty.
Given(i) == i = NoIdent => flavour = "comment"

HandAdd(i) ==
  /\ Edit /\ Given(i) /\ Vacant(menu, i, NoID)
  /\ menu' = Create(menu, [ident |-> i, body |-> Hand])

HandRename(id, i) ==
  /\ Edit /\ Given(i) /\ Vacant(menu, i, id) /\ menu.rows[id].ident # i
  /\ menu' = Update(menu, id, [ident |-> i])

HandRemove(id) ==
  /\ Edit /\ ~(flavour = "interface" /\ IsDefault(menu, id))
  /\ menu' = Delete(menu, id)

HandStep ==
  \/ \E i \in HandIdents : HandAdd(i)
  \/ \E id \in DOMAIN menu.rows : HandRemove(id) \/ \E i \in HandIdents : HandRename(id, i)

UserStep ==
  \E r \in Resources :
    UserDelete(r) \/ \E i \in Idents : UserCreate(r, i) \/ UserRename(r, i)

Worker(r) == Reconcile(r) \/ Enter(r)

Next ==
  \/ UserStep \/ HandStep \/ RequestLost \/ CallStep
  \/ \E r \in Resources : Worker(r)

Spec == Init /\ [][Next]_vars

\* A callback ends; a worker comes back to its resource, and gets operationMu
\* when it waits for it.
FairSpec ==
  /\ Spec
  /\ WF_vars(CallStep)
  /\ \A r \in Resources : WF_vars(Reconcile(r)) /\ SF_vars(Enter(r))

-----------------------------------------------------------------------------
(***************************************************************************)
(* Properties                                                              *)
(***************************************************************************)

\* The comment is "enforced unique by this provider (RouterOS does not enforce
\* it)": while nobody edits the menu by hand, creates, renames, lost replies and
\* retries of any number of resources never give two rows one identity, whatever
\* rows without a comment are among them.
UniqueIdentity ==
  edits = 0 => \A id1, id2 \in DOMAIN menu.rows :
                 menu.rows[id1].ident = menu.rows[id2].ident
                   => id1 = id2 \/ menu.rows[id1].ident = NoIdent

\* Create "refuses to take over an item somebody else placed there", whatever
\* people do between its requests: it changes no existing row but the router's
\* default row.  And with no edit by hand and no loss, update and delete of a
\* comment or certificate resource touch only rows that resource wrote itself.
OthersRowsKept ==
  [][\A id \in DOMAIN menu.rows :
       ( /\ edits' = edits
         /\ id \notin DOMAIN menu'.rows \/ menu'.rows[id] # menu.rows[id]) =>
           /\ call.op = "create" => IsDefault(menu, id)
           /\ (flavour # "interface" /\ edits + faults = 0) => menu.rows[id].body = call.r]_vars

\* A resource that is gone has left nothing behind: whatever renames were under
\* way when it was deleted, no row it wrote is left but the default row.  (A lost
\* reply to a create does leave a row, which no later create takes over.)
NothingLeft ==
  edits + faults = 0 =>
    \A r \in Resources, id \in DOMAIN menu.rows :
      (life[r] = "gone" /\ menu.rows[id].body = r) => IsDefault(menu, id)

\* README: "revocation still happens first, then the row is removed".  A certificate
\* that a CA issued and that was there when the deletion read the router is never
\* taken away unrevoked, whichever resource had it issued, whoever else is created
\* or deleted under that name and whatever is lost and tried again.
RevokedFirst ==
  [][\A id \in DOMAIN menu.rows \ DOMAIN menu'.rows :
       (/\ flavour = "certificate" /\ edits' = 0
        /\ menu.rows[id].issued = "true" /\ id <= last[call.r].row)
         => menu.rows[id].revoked = "true"]_vars

\* And the deletion does not end there: while a revoked row holds its name, which no
\* create could ever get again, a resource that is being deleted still has that name
\* in its state and comes back for the row, although the reply to the revocation, the
\* removal or the reply to that may have been lost.
NoneStranded ==
  (edits = 0 /\ flavour = "certificate") =>
    \A id \in DOMAIN menu.rows :
      menu.rows[id].revoked = "true" =>
        \E r \in Resources : life[r] = "deleting" /\ tfid[r] = menu.rows[id].ident /\ tfid[r] # NoIdent

Shared(r) == tfid[r] # NoIdent /\ Cardinality(ItemsByField(menu, tfid[r])) > 1

\* A row deleted or renamed by hand comes back: for a resource that stays as it is
\* there is, from some point on, a row with its comment or interface, unless its
\* old one is shared, which only people can bring about and only they resolve.
RowComesBack ==
  \A r \in Resources, i \in Idents \ {NoIdent} :
    <>[](life[r] = "live" /\ want[r] = i)
      => <>[](ItemsByField(menu, i) # {} \/ Shared(r))

\* A deletion ends, also when the row has gone, or is the one the router will not
\* remove, or the reply to the delete was lost; unless the identity is shared.
DeletionEnds ==
  \A r \in Resources : life[r] = "deleting" ~> (life[r] = "gone" \/ Shared(r))
=============================================================================
