----------------------------- MODULE MCScimPush -----------------------------
(* Two users and a group on a small instance.  The second user is there, or  *)
(* has yet to be created; the endpoint has resources of the name of one user *)
(* and of a name a user may take, and none of the other user or the group.   *)
EXTENDS ScimPush, TLC
CONSTANTS u1, u2, g, n1, n2, n3, h1

RowsWith(second, members) ==
  (u1 :> [life |-> "live", name |-> n1, active |-> TRUE, members |-> {}]) @@
  (u2 :> [life |-> second, name |-> n2, active |-> TRUE, members |-> {}]) @@
  (g  :> [life |-> "live", name |-> h1, active |-> TRUE, members |-> members])
Foreign == <<[name |-> n1, active |-> FALSE, members |-> {}],
             [name |-> n3, active |-> FALSE, members |-> {}]>>

MCFirst == {[row |-> RowsWith("new", {u1}), res |-> Foreign],
            [row |-> RowsWith("live", Users), res |-> Foreign]}
=============================================================================
