------------------------------ MODULE AcmeUsers ------------------------------
(***************************************************************************)
(* create_user of many routes at once: which ACME account each route gets. *)
(*                                                                         *)
(* create_user reads the users, then the routes of each of them, one query *)
(* after the other and each with what others have committed by then; it    *)
(* takes the user with the fewest routes or, when there is none with room, *)
(* registers a new one with the CA.  Nothing is locked in between.         *)
(*                                                                         *)
(* A task is named after its route: two operations of one route do not run *)
(* create_user at the same time, for it is given up after a sixth of a day *)
(* and the next operation comes at the next noon.                          *)
(***************************************************************************)
EXTENDS Naturals, FiniteSets

CONSTANTS
  Routes,     \* the routes that are renewed
  Accounts,   \* bound: the accounts that the CA ever registers for us
  NoAccount,  \* no account
  MaxRoutes,  \* MAX_ROUTES_PER_USER
  Workers     \* how many tasks the consumer runs at once

ASSUME UsersAssumption ==
  /\ IsFiniteSet(Routes)
  /\ NoAccount \notin Accounts
  /\ MaxRoutes \in Nat \ {0} /\ Workers \in Nat \ {0}

VARIABLES
  account,    \* the acme_user_id of each route
  users,      \* the rows of acme_user_v2
  registered, \* the accounts that the CA knows
  step,       \* how far create_user of a route is
  found,      \* the users that it has read
  uncounted,  \* those whose routes it has yet to read
  counts,     \* how many routes each of the others had
  chosen      \* the account that it has registered

taskVars == <<step, found, uncounted, counts, chosen>>
vars == <<account, users, registered, taskVars>>

(* The table is new, see SchemaUpgrade, and so is the routes' column.      *)
Init ==
  /\ account = [r \in Routes |-> NoAccount]
  /\ users = {}
  /\ registered = {}
  /\ step = [r \in Routes |-> "idle"]
  /\ found = [r \in Routes |-> {}]
  /\ uncounted = [r \in Routes |-> {}]
  /\ counts = [r \in Routes |-> [u \in Accounts |-> 0]]
  /\ chosen = [r \in Routes |-> NoAccount]

RoutesOf(u) == {r \in Routes : account[r] = u}
Busy == {r \in Routes : step[r] # "idle"}

-----------------------------------------------------------------------------
(* The body of create_user for the route r                                 *)

(* A task is taken by a worker; a route that has an account needs none.    *)
(* get_user reads the users.                                               *)
ReadUsers(r) ==
  /\ step[r] = "idle"
  /\ Cardinality(Busy) < Workers
  /\ account[r] = NoAccount
  /\ step' = [step EXCEPT ![r] = "counting"]
  /\ found' = [found EXCEPT ![r] = users]
  /\ uncounted' = [uncounted EXCEPT ![r] = users]
  /\ UNCHANGED <<account, users, registered, counts, chosen>>

(* sorted calls len(list(x.routes)) for one user after the other.          *)
CountRoutes(r, u) ==
  /\ step[r] = "counting"
  /\ u \in uncounted[r]
  /\ uncounted' = [uncounted EXCEPT ![r] = @ \ {u}]
  /\ counts' = [counts EXCEPT ![r][u] = Cardinality(RoutesOf(u))]
  /\ UNCHANGED <<account, users, registered, step, found, chosen>>

HasCounted(r) == step[r] = "counting" /\ uncounted[r] = {}

Lowest(r) == {u \in found[r] : \A v \in found[r] : counts[r][u] <= counts[r][v]}

TaskIsLeft(r) ==
  /\ step' = [step EXCEPT ![r] = "idle"]
  /\ found' = [found EXCEPT ![r] = {}]
  /\ uncounted' = [uncounted EXCEPT ![r] = {}]
  /\ counts' = [counts EXCEPT ![r] = [u \in Accounts |-> 0]]
  /\ chosen' = [chosen EXCEPT ![r] = NoAccount]

ReuseOneMore(r) ==
  /\ HasCounted(r)
  /\ \E u \in Lowest(r) :
       /\ counts[r][u] <= MaxRoutes
       /\ account' = [account EXCEPT ![r] = u]
  /\ TaskIsLeft(r)
  /\ UNCHANGED <<users, registered>>

ReuseOldCount(r) ==
  /\ step[r] = "counting"
  /\ \E u \in found[r] : account' = [account EXCEPT ![r] = u]
  /\ TaskIsLeft(r)
  /\ UNCHANGED <<users, registered>>

(* get_user returns a user with the fewest routes, if it has room for one  *)
(* more, and the route gets it.                                            *)
ReuseUser(r) ==
  /\ HasCounted(r)
  /\ \E u \in Lowest(r) :
       /\ counts[r][u] < MaxRoutes
       /\ account' = [account EXCEPT ![r] = u]
  /\ TaskIsLeft(r)
  /\ UNCHANGED <<users, registered>>

RegisterAlways(r) ==
  /\ HasCounted(r)
  /\ \E u \in Accounts \ registered :
       /\ registered' = registered \cup {u}
       /\ chosen' = [chosen EXCEPT ![r] = u]
  /\ step' = [step EXCEPT ![r] = "registered"]
  /\ UNCHANGED <<account, users, found, uncounted, counts>>

(* get_user returns None: the CA registers a new account.                  *)
RegisterAccount(r) ==
  /\ HasCounted(r)
  /\ \A u \in Lowest(r) : counts[r][u] >= MaxRoutes
  /\ \E u \in Accounts \ registered :
       /\ registered' = registered \cup {u}
       /\ chosen' = [chosen EXCEPT ![r] = u]
  /\ step' = [step EXCEPT ![r] = "registered"]
  /\ UNCHANGED <<account, users, found, uncounted, counts>>

SaveWithoutUser(r) ==
  /\ step[r] = "registered"
  /\ account' = [account EXCEPT ![r] = chosen[r]]
  /\ TaskIsLeft(r)
  /\ UNCHANGED <<users, registered>>

(* One commit makes the row of the account and gives it to the route.      *)
SaveUser(r) ==
  /\ step[r] = "registered"
  /\ users' = users \cup {chosen[r]}
  /\ account' = [account EXCEPT ![r] = chosen[r]]
  /\ TaskIsLeft(r)
  /\ UNCHANGED registered

(* The task raises or a crash takes it; it is run again from its start, or *)
(* a later operation of the route runs it.  An account that was registered *)
(* is forgotten.  A commit that took effect all the same is SaveUser.      *)
Raise(r) ==
  /\ step[r] # "idle"
  /\ TaskIsLeft(r)
  /\ UNCHANGED <<account, users, registered>>

TaskStep(r) ==
  \/ ReadUsers(r)
  \/ \E u \in Accounts : CountRoutes(r, u)
  \/ ReuseUser(r) \/ RegisterAccount(r) \/ SaveUser(r)
  \/ Raise(r)

Next == \E r \in Routes : TaskStep(r)

Spec == Init /\ [][Next]_vars

-----------------------------------------------------------------------------
(* Properties *)

TypeOK ==
  /\ account \in [Routes -> users \cup {NoAccount}]
  /\ users \subseteq registered
  /\ registered \subseteq Accounts
  /\ step \in [Routes -> {"idle", "counting", "registered"}]
  /\ found \in [Routes -> SUBSET users]
  /\ uncounted \in [Routes -> SUBSET users]
  /\ counts \in [Routes -> [Accounts -> Nat]]
  /\ chosen \in [Routes -> registered \cup {NoAccount}]

(* The count of get_user is old when it is used: other tasks may have put  *)
(* routes into the room it saw.  Yet at most one for each other worker, so *)
(* an account exceeds MAX_ROUTES_PER_USER by less than the pool's size.    *)
FewTooMany ==
  \A u \in Accounts : Cardinality(RoutesOf(u)) <= MaxRoutes - 1 + Workers

(* Tasks that find no room at the same time register an account each.  Yet *)
(* there are never more accounts with room than workers, however many      *)
(* routes are renewed at noon.                                             *)
FewSpareAccounts ==
  Cardinality({u \in users : Cardinality(RoutesOf(u)) < MaxRoutes}) <= Workers

(* The tasks that may yet give the account u to their route.               *)
Holders(u) ==
  {r \in Routes :
     \/ /\ step[r] = "counting"
        /\ u \in found[r] \ uncounted[r]
        /\ counts[r][u] < MaxRoutes
     \/ step[r] = "registered" /\ chosen[r] = u}

(* Why FewTooMany holds: a route takes up room only after its task has     *)
(* held it, and no more tasks hold room than there are workers.            *)
RoomIsHeld ==
  /\ Cardinality(Busy) <= Workers
  /\ \A u \in Accounts :
       Cardinality(RoutesOf(u)) + Cardinality(Holders(u)) <= MaxRoutes - 1 + Workers
=============================================================================
