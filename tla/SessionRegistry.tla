---------------------------- MODULE SessionRegistry ----------------------------
(***************************************************************************)
(* What logging in and out promises to the users: a name has at most one   *)
(* session, on one connection; a connection logs in once, as one name; and *)
(* a session ends only by a logout on its own connection or when the       *)
(* server shuts down.  Sessions is the code that has to keep this promise. *)
(***************************************************************************)
CONSTANTS Names, Conns,
          NoConn,  \* "this name has no session"
          NoName   \* "nobody has logged in on this connection"

VARIABLES session, \* the connection of each name's session
          owner,   \* the name that has logged in on each connection
          open     \* the server has not been told to shut down

vars == <<session, owner, open>>

Init ==
  /\ session = [u \in Names |-> NoConn]
  /\ owner = [c \in Conns |-> NoName]
  /\ open = TRUE

Login(u, c) ==
  /\ open
  /\ session[u] = NoConn /\ owner[c] = NoName
  /\ session' = [session EXCEPT ![u] = c]
  /\ owner' = [owner EXCEPT ![c] = u]
  /\ UNCHANGED open

Logout(u, c) ==
  /\ session[u] = c /\ owner[c] = u
  /\ session' = [session EXCEPT ![u] = NoConn]
  /\ UNCHANGED <<owner, open>>

ShutDown ==
  /\ open /\ open' = FALSE
  /\ session' = [u \in Names |-> NoConn]
  /\ UNCHANGED owner

(* A login that was under way may still be finished; it has no session.    *)
Leftover == ~open /\ UNCHANGED <<session, open>>

Next ==
  \/ \E u \in Names, c \in Conns : Login(u, c) \/ Logout(u, c)
  \/ ShutDown \/ Leftover

Spec == Init /\ [][Next]_vars
===============================================================================
