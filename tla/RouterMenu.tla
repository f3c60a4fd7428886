----------------------------- MODULE RouterMenu -----------------------------
(***************************************************************************)
(* The RouterOS menu on the far side of rest.Client: what one request does *)
(* to it.  RouterOS itself is not in the repository; its behaviour is the  *)
(* one rest/client.go, rest/menu.go and the router of rest/menu_test.go    *)
(* rely on.  A menu is a record                                            *)
(*   rows   the stored fields of every row, by id                          *)
(*   order  the ids in menu order                                          *)
(*   next   the next id; the counter is never wound back                   *)
(***************************************************************************)
EXTENDS MenuPlanner

CONSTANTS Defaults,    \* fields the router fills in when a create omits them
          Canonical    \* values the router rewrites, with what it stores instead

\* What the router stores for a row it is sent: values in its own spelling, and
\* defaults for what was left out.
Stored(row) ==
  [k \in DOMAIN row \cup DOMAIN Defaults |->
     IF k \notin DOMAIN row THEN Defaults[k]
     ELSE IF row[k] \in DOMAIN Canonical THEN Canonical[row[k]]
     ELSE row[k]]

\* A menu holding the given rows, with ids 1, 2, ...
MenuOf(rows) == [rows  |-> [i \in DOMAIN rows |-> rows[i]],
                 order |-> [i \in DOMAIN rows |-> i],
                 next  |-> Len(rows) + 1]

\* GET <path>: the rows in menu order.
List(menu) == [i \in DOMAIN menu.order |->
                 [id |-> menu.order[i], fields |-> menu.rows[menu.order[i]]]]

\* PUT <path>: a new row at the end of the menu, under a fresh id.
Create(menu, row) ==
  [rows  |-> [id \in DOMAIN menu.rows \cup {menu.next} |->
                IF id = menu.next THEN Stored(row) ELSE menu.rows[id]],
   order |-> Append(menu.order, menu.next),
   next  |-> menu.next + 1]

\* PATCH <path>/<id>: only the fields sent.
Update(menu, id, fields) ==
  [rows  |-> [x \in DOMAIN menu.rows |->
                IF x # id THEN menu.rows[x]
                ELSE [k \in DOMAIN menu.rows[id] \cup DOMAIN fields |->
                        IF k \in DOMAIN fields THEN Stored(fields)[k] ELSE menu.rows[id][k]]],
   order |-> menu.order,
   next  |-> menu.next]

\* DELETE <path>/<id>
Delete(menu, id) ==
  [rows  |-> [x \in DOMAIN menu.rows \ {id} |-> menu.rows[x]],
   order |-> Only(menu.order, DOMAIN menu.rows \ {id}),
   next  |-> menu.next]

\* POST <path>/move: the rows leave their places and go, as a block in the order
\* given, in front of `before`, or to the end of the menu.
Move(menu, ids, before) ==
  LET rest == Only(menu.order, DOMAIN menu.rows \ Range(ids))
      at   == IF before = NoID THEN Len(rest)
              ELSE SelectInSeq(rest, LAMBDA x : x = before) - 1
  IN  [rows  |-> menu.rows,
       order |-> SubSeq(rest, 1, at) \o ids \o SubSeq(rest, at + 1, Len(rest)),
       next  |-> menu.next]

\* Whether a step is carried out rather than ending in an error: the router knows
\* every row it addresses, a key it enforces stays unique, and step knows the op.
Accepts(menu, spec, s) ==
  CASE s.op = "create" ->
         \/ spec.key = NoKey
         \/ spec.key \notin DOMAIN s.row
         \/ \A id \in DOMAIN menu.rows :
              spec.key \in DOMAIN menu.rows[id] => menu.rows[id][spec.key] # Stored(s.row)[spec.key]
    [] s.op \in {"update", "delete"} -> s.id \in DOMAIN menu.rows
    [] s.op = "move" -> Range(s.order) \cup ({s.before} \ {NoID}) \subseteq DOMAIN menu.rows
    [] OTHER -> FALSE

\* Client.step: the request a step becomes.
Perform(menu, s) ==
  CASE s.op = "create" -> Create(menu, s.row)
    [] s.op = "update" -> Update(menu, s.id, s.row)
    [] s.op = "delete" -> Delete(menu, s.id)
    [] s.op = "move"   -> Move(menu, s.order, s.before)
=============================================================================
