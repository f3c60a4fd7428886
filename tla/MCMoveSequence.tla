--------------------------- MODULE MCMoveSequence ---------------------------
(* A small instance of MoveSequence: two rules in front of a final drop. *)
EXTENDS MoveSequence

MCDefaults  == [default |-> "false", revoked |-> "false", issued |-> "false"]
MCCanonical == [v \in {} |-> ""]
MCRawID     == [e \in {"*1"} |-> 1]

Row(ident) == [ident |-> ident, default |-> "false", revoked |-> "false",
               issued |-> "false", body |-> Hand]
MCStarts   == [comment |-> {<<Row("drop")>>}]

MCSequences == {<<"a", "b", "*1">>, <<"b", "drop">>, <<"drop">>}
=============================================================================
