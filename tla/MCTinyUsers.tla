---------------------------- MODULE MCTinyUsers ----------------------------
(* TinySystem with three clients and two kinds of users: three who start and *)
(* stop their clients and ask nothing, or two of whom one also types.        *)
EXTENDS MCTinySystem

VARIABLE users

\* c2 and c3 differ only by name.
Alike == Permutations({c2, c3})

NeverUsed(c) == cpc[c] = "start" /\ ~bExit[c]

UsersInit == users \in {"come and go", "talk"} /\ Init

UsersNext ==
  /\ UNCHANGED users
  /\ Next
  /\ \/ users = "come and go" /\ UNCHANGED typed
     \/ users = "talk" /\ \E c \in {c2, c3} : NeverUsed(c)'

UsersSpec == UsersInit /\ [][UsersNext]_<<vars, users>>
=============================================================================
