--------------------------- MODULE MCRowIdentity ---------------------------
(* Small instances of RowIdentity. *)
EXTENDS RowIdentity

MCDefaults  == [default |-> "false", revoked |-> "false", issued |-> "false"]
MCCanonical == [v \in {} |-> ""]

Row(ident, default) == [ident |-> ident, default |-> default, revoked |-> "false",
                        issued |-> "false", body |-> Hand]
MCStarts == [comment   |-> {<<Row("", "false"), Row("", "false")>>, <<Row("b", "false")>>},
             interface |-> {<<Row("a", "true")>>, <<Row("a", "true"), Row("b", "false")>>},
             certificate |-> {<<>>, <<Row("b", "false")>>}]
=============================================================================
