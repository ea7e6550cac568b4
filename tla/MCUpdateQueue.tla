---------------------------- MODULE MCUpdateQueue ----------------------------
(* Small instances of UpdateQueue for TLC. *)
EXTENDS UpdateQueue

Reply(c, o) == [code |-> c, ok |-> o]

(* FAILONERROR makes curl report every status from 400 up as a failure; a  *)
(* status other than 304 and 429 makes no difference beyond that.          *)
AllReplies == {Reply("success", TRUE), Reply("error", FALSE),
               Reply("not_modified", TRUE), Reply("too_many", FALSE)}

PlainReplies == {Reply("success", TRUE), Reply("error", FALSE)}
=============================================================================
