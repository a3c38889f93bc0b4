--------------------------- MODULE AcmeUsersProofs ---------------------------
(***************************************************************************)
(* Proofs about AcmeUsers, for any number of routes, accounts and workers. *)
(*                                                                         *)
(* RoomIsHeld is the inductive strengthening of FewTooMany: every route    *)
(* that an account has, and every task that may still give it one, counts  *)
(* against the same bound.  A task starts to count when it has seen room,  *)
(* and then the routes are at most MaxRoutes - 1 and the tasks at most     *)
(* Workers; from then on it can only turn itself into a route.             *)
(*                                                                         *)
(* BlindToOne is the strengthening of FewSpareAccounts.  A task registers  *)
(* an account only when each one it has read is full, and a full account   *)
(* stays full; so it has not read any of those with room.  Of any accounts *)
(* with room there is one, the last that was saved, that so few busy tasks *)
(* have not read that all of them together are at most Workers.            *)
(***************************************************************************)
EXTENDS AcmeUsers, FiniteSetTheorems, WellFoundedInduction, TLAPS

Bounded(R, H) == Cardinality(R) + Cardinality(H) <= MaxRoutes - 1 + Workers

(* An account that create_user has registered and not yet saved is its     *)
(* task's alone: no row, no route and no other task has it.                *)
RegisteredForOne ==
  \A r \in Routes :
    step[r] = "registered" =>
      /\ chosen[r] \in registered \ users
      /\ RoutesOf(chosen[r]) = {}
      /\ \A q \in Routes : chosen[q] = chosen[r] => q = r

IInv == TypeOK /\ RegisteredForOne /\ RoomIsHeld

-----------------------------------------------------------------------------
(* Facts about the constants and about cardinalities                       *)

LEMMA Parameters ==
  /\ IsFiniteSet(Routes) /\ NoAccount \notin Accounts
  /\ MaxRoutes \in Nat /\ MaxRoutes >= 1 /\ Workers \in Nat /\ Workers >= 1
BY UsersAssumption DEF UsersAssumption

LEMMA SubsetSize ==
  ASSUME NEW S, NEW T, T \subseteq Routes, S \subseteq T
  PROVE  /\ Cardinality(S) \in Nat /\ Cardinality(T) \in Nat
         /\ Cardinality(S) <= Cardinality(T)
<1>1. IsFiniteSet(T)
  BY Parameters, FS_Subset
<1>2. IsFiniteSet(S) /\ Cardinality(S) <= Cardinality(T)
  BY <1>1, FS_Subset
<1>. QED
  BY <1>1, <1>2, FS_CardinalityType

LEMMA OneMore ==
  ASSUME NEW T, T \subseteq Routes, NEW r \in Routes, NEW S, S \subseteq T \cup {r}
  PROVE  /\ Cardinality(S) \in Nat /\ Cardinality(T) \in Nat
         /\ Cardinality(S) <= Cardinality(T) + 1
<1>1. IsFiniteSet(T)
  BY Parameters, FS_Subset
<1>2. Cardinality(T \cup {r}) <= Cardinality(T) + 1
  <2>1. Cardinality(T) \in Nat
    BY SubsetSize
  <2>2. CASE r \in T
    <3>1. Cardinality(T \cup {r}) = Cardinality(T)
      <4>1. T \cup {r} = T
        BY <2>2
      <4>. QED
        BY <4>1
    <3>. QED
      BY <2>1, <3>1
  <2>3. CASE r \notin T
    <3>1. Cardinality(T \cup {r}) = Cardinality(T) + 1
      BY <2>3, <1>1, FS_AddElement
    <3>. QED
      BY <2>1, <3>1
  <2>. QED
    BY <2>2, <2>3
<1>3. T \cup {r} \subseteq Routes
  OBVIOUS
<1>. QED
  BY <1>2, <1>3, SubsetSize

LEMMA OneLess ==
  ASSUME NEW T, T \subseteq Routes, NEW r \in T, NEW S, S \subseteq T \ {r}
  PROVE  /\ Cardinality(S) \in Nat /\ Cardinality(T) \in Nat
         /\ Cardinality(S) <= Cardinality(T) - 1
<1>1. IsFiniteSet(T)
  BY Parameters, FS_Subset
<1>2. Cardinality(T \ {r}) = Cardinality(T) - 1
  BY <1>1, FS_RemoveElement
<1>. QED
  BY <1>2, SubsetSize

(* Fewer routes and fewer tasks that hold room.                            *)
LEMMA NoMore ==
  ASSUME NEW R, R \subseteq Routes, NEW H, H \subseteq Routes,
         NEW R1, R1 \subseteq R, NEW H1, H1 \subseteq H, Bounded(R, H)
  PROVE  Bounded(R1, H1)
<1>1. /\ Cardinality(R) \in Nat /\ Cardinality(R1) \in Nat
      /\ Cardinality(R1) <= Cardinality(R)
  BY SubsetSize
<1>2. /\ Cardinality(H) \in Nat /\ Cardinality(H1) \in Nat
      /\ Cardinality(H1) <= Cardinality(H)
  BY SubsetSize
<1>. QED
  BY <1>1, <1>2, Parameters DEF Bounded

(* A task that holds room turns into a route.                              *)
LEMMA HolderTakes ==
  ASSUME NEW R, R \subseteq Routes, NEW H, H \subseteq Routes, NEW r \in H,
         NEW R1, R1 \subseteq R \cup {r}, NEW H1, H1 \subseteq H \ {r}, Bounded(R, H)
  PROVE  Bounded(R1, H1)
<1>1. /\ Cardinality(R) \in Nat /\ Cardinality(R1) \in Nat
      /\ Cardinality(R1) <= Cardinality(R) + 1
  BY OneMore
<1>2. /\ Cardinality(H) \in Nat /\ Cardinality(H1) \in Nat
      /\ Cardinality(H1) <= Cardinality(H) - 1
  BY OneLess
<1>. QED
  BY <1>1, <1>2, Parameters DEF Bounded

(* An account with room, of which the busy tasks may each take one.        *)
LEMMA RoomForAll ==
  ASSUME NEW R, R \subseteq Routes, Cardinality(R) < MaxRoutes,
         NEW B, B \subseteq Routes, Cardinality(B) <= Workers,
         NEW H, H \subseteq B
  PROVE  Bounded(R, H)
<1>1. Cardinality(R) \in Nat
  BY SubsetSize
<1>2. /\ Cardinality(H) \in Nat /\ Cardinality(B) \in Nat
      /\ Cardinality(H) <= Cardinality(B)
  BY SubsetSize
<1>. QED
  BY <1>1, <1>2, Parameters DEF Bounded

LEMMA Inside ==
  ASSUME NEW u
  PROVE  /\ RoutesOf(u) \subseteq Routes /\ Holders(u) \subseteq Routes
         /\ Busy \subseteq Routes /\ Holders(u) \subseteq Busy
BY DEF RoutesOf, Holders, Busy

-----------------------------------------------------------------------------
(* The initial state                                                       *)

LEMMA InitTypes == Init => TypeOK /\ RegisteredForOne
BY DEF Init, TypeOK, RegisteredForOne

LEMMA InitRoom == Init => RoomIsHeld
<1>. SUFFICES ASSUME Init
              PROVE  RoomIsHeld
  OBVIOUS
<1>1. Cardinality({}) = 0
  BY FS_EmptySet
<1>2. Busy = {}
  BY DEF Init, Busy
<1>3. ASSUME NEW u \in Accounts
      PROVE  RoutesOf(u) = {} /\ Holders(u) = {}
  BY <1>3, Parameters DEF Init, RoutesOf, Holders
<1>4. ASSUME NEW u \in Accounts
      PROVE  Cardinality(RoutesOf(u)) + Cardinality(Holders(u)) <= MaxRoutes - 1 + Workers
  <2>1. Cardinality(RoutesOf(u)) = 0 /\ Cardinality(Holders(u)) = 0
    BY <1>1, <1>3, <1>4
  <2>. QED
    BY <2>1, Parameters
<1>5. Cardinality(Busy) <= Workers
  BY <1>1, <1>2, Parameters
<1>. QED
  BY <1>4, <1>5 DEF RoomIsHeld

-----------------------------------------------------------------------------
(* Types, and the account that is being registered                         *)

LEMMA CountsAreNumbers == TypeOK => \A u : Cardinality(RoutesOf(u)) \in Nat
BY SubsetSize, Inside

LEMMA StepKeepsTypes ==
  ASSUME TypeOK, RegisteredForOne, NEW r \in Routes, TaskStep(r)
  PROVE  TypeOK'
<1>1. CASE ReadUsers(r)
  BY <1>1 DEF ReadUsers, TypeOK
<1>2. ASSUME NEW u \in Accounts, CountRoutes(r, u)
      PROVE  TypeOK'
  <2>1. Cardinality(RoutesOf(u)) \in Nat
    BY CountsAreNumbers
  <2>2. counts' \in [Routes -> [Accounts -> Nat]]
    BY <1>2, <2>1 DEF CountRoutes, TypeOK
  <2>. QED
    BY <1>2, <2>2 DEF CountRoutes, TypeOK
<1>3. CASE ReuseUser(r)
  BY <1>3 DEF ReuseUser, Lowest, HasCounted, TaskIsLeft, TypeOK
<1>4. CASE RegisterAccount(r)
  BY <1>4 DEF RegisterAccount, TypeOK
<1>5. CASE SaveUser(r)
  <2>1. chosen[r] \in registered
    BY <1>5 DEF SaveUser, RegisteredForOne
  <2>. QED
    BY <1>5, <2>1 DEF SaveUser, TaskIsLeft, TypeOK
<1>6. CASE Raise(r)
  BY <1>6 DEF Raise, TaskIsLeft, TypeOK
<1>. QED
  BY <1>1, <1>2, <1>3, <1>4, <1>5, <1>6 DEF TaskStep

LEMMA StepKeepsRegistered ==
  ASSUME TypeOK, RegisteredForOne, NEW r \in Routes, TaskStep(r)
  PROVE  RegisteredForOne'
<1>. SUFFICES ASSUME NEW s \in Routes, step'[s] = "registered"
              PROVE  /\ chosen'[s] \in registered' \ users'
                     /\ {q \in Routes : account'[q] = chosen'[s]} = {}
                     /\ \A q \in Routes : chosen'[q] = chosen'[s] => q = s
  BY DEF RegisteredForOne, RoutesOf
<1>1. CASE ReadUsers(r)
  BY <1>1 DEF ReadUsers, TypeOK, RegisteredForOne, RoutesOf
<1>2. ASSUME NEW u \in Accounts, CountRoutes(r, u)
      PROVE  /\ chosen'[s] \in registered' \ users'
             /\ {q \in Routes : account'[q] = chosen'[s]} = {}
             /\ \A q \in Routes : chosen'[q] = chosen'[s] => q = s
  BY <1>2 DEF CountRoutes, TypeOK, RegisteredForOne, RoutesOf
<1>3. CASE ReuseUser(r)
  BY <1>3, Parameters
     DEF ReuseUser, Lowest, HasCounted, TaskIsLeft, TypeOK, RegisteredForOne, RoutesOf
<1>4. CASE RegisterAccount(r)
  BY <1>4, Parameters DEF RegisterAccount, HasCounted, TypeOK, RegisteredForOne, RoutesOf
<1>5. CASE SaveUser(r)
  BY <1>5, Parameters DEF SaveUser, TaskIsLeft, TypeOK, RegisteredForOne, RoutesOf
<1>6. CASE Raise(r)
  BY <1>6, Parameters DEF Raise, TaskIsLeft, TypeOK, RegisteredForOne, RoutesOf
<1>. QED
  BY <1>1, <1>2, <1>3, <1>4, <1>5, <1>6 DEF TaskStep

-----------------------------------------------------------------------------
(* The room                                                                *)

LEMMA StepKeepsBusy ==
  ASSUME TypeOK, RoomIsHeld, NEW r \in Routes, TaskStep(r)
  PROVE  Cardinality(Busy') <= Workers
<1>1. Busy \subseteq Routes /\ Cardinality(Busy) <= Workers
  BY Inside DEF RoomIsHeld
<1>2. CASE ReadUsers(r)
  <2>1. Busy' \subseteq Busy \cup {r}
    BY <1>2 DEF ReadUsers, Busy, TypeOK
  <2>2. Cardinality(Busy) < Workers
    BY <1>2 DEF ReadUsers
  <2>. QED
    BY <1>1, <2>1, <2>2, OneMore, Parameters
<1>3. CASE ~ReadUsers(r)
  <2>1. Busy' \subseteq Busy
    BY <1>3 DEF TaskStep, CountRoutes, ReuseUser, RegisterAccount, HasCounted,
                SaveUser, Raise, TaskIsLeft, Busy, TypeOK
  <2>. QED
    BY <1>1, <2>1, SubsetSize, Parameters
<1>. QED
  BY <1>2, <1>3

LEMMA StepKeepsRoom ==
  ASSUME IInv, NEW r \in Routes, TaskStep(r), Cardinality(Busy') <= Workers,
         NEW u \in Accounts
  PROVE  Bounded(RoutesOf(u)', Holders(u)')
<1>. USE DEF IInv
<1>1. /\ Bounded(RoutesOf(u), Holders(u))
      /\ RoutesOf(u) \subseteq Routes /\ Holders(u) \subseteq Routes
  BY Inside DEF RoomIsHeld, Bounded
<1>2. CASE ReadUsers(r)
  <2>1. RoutesOf(u)' \subseteq RoutesOf(u) /\ Holders(u)' \subseteq Holders(u)
    BY <1>2 DEF ReadUsers, RoutesOf, Holders, TypeOK
  <2>. QED
    BY <1>1, <2>1, NoMore
<1>3. ASSUME NEW v \in Accounts, CountRoutes(r, v)
      PROVE  Bounded(RoutesOf(u)', Holders(u)')
  <2>1. RoutesOf(u)' = RoutesOf(u)
    BY <1>3 DEF CountRoutes, RoutesOf
  <2>2. CASE u = v /\ Cardinality(RoutesOf(u)) < MaxRoutes
    <3>1. Holders(u)' \subseteq Busy' /\ Busy' \subseteq Routes
      BY DEF Holders, Busy
    <3>. QED
      BY <1>1, <2>1, <2>2, <3>1, RoomForAll
  <2>3. CASE ~(u = v /\ Cardinality(RoutesOf(u)) < MaxRoutes)
    <3>1. /\ step' = step /\ chosen' = chosen /\ found' = found
          /\ \A q \in Routes : q # r => /\ uncounted'[q] = uncounted[q]
                                      /\ counts'[q] = counts[q]
          /\ uncounted'[r] = uncounted[r] \ {v}
          /\ counts'[r][v] = Cardinality(RoutesOf(v))
          /\ u # v => counts'[r][u] = counts[r][u]
      BY <1>3 DEF CountRoutes, TypeOK
    <3>2. step[r] = "counting"
      BY <1>3 DEF CountRoutes
    <3>3. Holders(u)' \subseteq Holders(u)
      BY <2>3, <3>1, <3>2 DEF Holders
    <3>. QED
      BY <1>1, <2>1, <3>3, NoMore
  <2>. QED
    BY <2>2, <2>3
<1>4. CASE ReuseUser(r)
  <2>1. PICK v \in Lowest(r) : counts[r][v] < MaxRoutes /\ account' = [account EXCEPT ![r] = v]
    BY <1>4 DEF ReuseUser
  <2>2. Holders(u)' \subseteq Holders(u) \ {r}
    BY <1>4 DEF ReuseUser, TaskIsLeft, Holders, TypeOK
  <2>3. CASE u = v
    <3>1. r \in Holders(u)
      BY <1>4, <2>1, <2>3 DEF ReuseUser, HasCounted, Lowest, Holders
    <3>2. RoutesOf(u)' \subseteq RoutesOf(u) \cup {r}
      BY <2>1 DEF RoutesOf, TypeOK
    <3>. QED
      BY <1>1, <2>2, <3>1, <3>2, HolderTakes
  <2>4. CASE u # v
    <3>1. RoutesOf(u)' \subseteq RoutesOf(u)
      BY <2>1, <2>4 DEF RoutesOf, TypeOK
    <3>2. Holders(u)' \subseteq Holders(u)
      BY <2>2
    <3>. QED
      BY <1>1, <3>1, <3>2, NoMore
  <2>. QED
    BY <2>3, <2>4
<1>5. CASE RegisterAccount(r)
  <2>1. PICK v \in Accounts \ registered : chosen' = [chosen EXCEPT ![r] = v]
    BY <1>5 DEF RegisterAccount
  <2>2. RoutesOf(u)' = RoutesOf(u)
    BY <1>5 DEF RegisterAccount, RoutesOf
  <2>3. CASE u = v
    <3>1. RoutesOf(u) = {}
      BY <2>1, <2>3, Parameters DEF RoutesOf, TypeOK
    <3>2. Cardinality(RoutesOf(u)) < MaxRoutes
      BY <3>1, FS_EmptySet, Parameters
    <3>3. Holders(u)' \subseteq Busy' /\ Busy' \subseteq Routes
      BY DEF Holders, Busy
    <3>. QED
      BY <1>1, <2>2, <3>2, <3>3, RoomForAll
  <2>4. CASE u # v
    <3>1. Holders(u)' \subseteq Holders(u)
      BY <1>5, <2>1, <2>4 DEF RegisterAccount, Holders, TypeOK
    <3>. QED
      BY <1>1, <2>2, <3>1, NoMore
  <2>. QED
    BY <2>3, <2>4
<1>6. CASE SaveUser(r)
  <2>1. Holders(u)' \subseteq Holders(u) \ {r}
    BY <1>6 DEF SaveUser, TaskIsLeft, Holders, TypeOK
  <2>2. CASE u = chosen[r]
    <3>1. r \in Holders(u)
      BY <1>6, <2>2 DEF SaveUser, Holders
    <3>2. RoutesOf(u)' \subseteq RoutesOf(u) \cup {r}
      BY <1>6 DEF SaveUser, RoutesOf, TypeOK
    <3>. QED
      BY <1>1, <2>1, <3>1, <3>2, HolderTakes
  <2>3. CASE u # chosen[r]
    <3>1. RoutesOf(u)' \subseteq RoutesOf(u)
      BY <1>6, <2>3 DEF SaveUser, RoutesOf, TypeOK
    <3>2. Holders(u)' \subseteq Holders(u)
      BY <2>1
    <3>. QED
      BY <1>1, <3>1, <3>2, NoMore
  <2>. QED
    BY <2>2, <2>3
<1>7. CASE Raise(r)
  <2>1. RoutesOf(u)' \subseteq RoutesOf(u) /\ Holders(u)' \subseteq Holders(u)
    BY <1>7 DEF Raise, TaskIsLeft, RoutesOf, Holders, TypeOK
  <2>. QED
    BY <1>1, <2>1, NoMore
<1>. QED
  BY <1>2, <1>3, <1>4, <1>5, <1>6, <1>7 DEF TaskStep

LEMMA StepKeepsIInv == IInv /\ [Next]_vars => IInv'
<1>. SUFFICES ASSUME IInv, [Next]_vars
              PROVE  IInv'
  OBVIOUS
<1>1. CASE Next
  <2>1. PICK r \in Routes : TaskStep(r)
    BY <1>1 DEF Next
  <2>2. TypeOK' /\ RegisteredForOne'
    BY <2>1, StepKeepsTypes, StepKeepsRegistered DEF IInv
  <2>3. Cardinality(Busy') <= Workers
    BY <2>1, StepKeepsBusy DEF IInv
  <2>4. RoomIsHeld'
    BY <2>1, <2>3, StepKeepsRoom DEF RoomIsHeld, Bounded
  <2>. QED
    BY <2>2, <2>4 DEF IInv
<1>2. CASE UNCHANGED vars
  BY <1>2 DEF IInv, TypeOK, RegisteredForOne, RoomIsHeld, RoutesOf, Holders, Busy, vars,
              taskVars
<1>. QED
  BY <1>1, <1>2

LEMMA AlwaysIInv == Spec => []IInv
<1>1. Init => IInv
  BY InitTypes, InitRoom DEF IInv
<1>. QED
  BY <1>1, StepKeepsIInv, PTL DEF Spec

-----------------------------------------------------------------------------
(* The accounts with room                                                  *)

(* The accounts with room for one more route.                              *)
Spare == {u \in users : Cardinality(RoutesOf(u)) < MaxRoutes}

(* The busy tasks that have not read the account u.                        *)
Blind(u) == {r \in Busy : u \notin found[r]}

(* A count is never more than the routes of today, and a task that is      *)
(* registering an account has only read full ones.                         *)
OldCounts ==
  \A r \in Routes :
    /\ step[r] # "idle" => account[r] = NoAccount
    /\ \A u \in found[r] \ uncounted[r] : counts[r][u] <= Cardinality(RoutesOf(u))
    /\ step[r] = "registered" =>
         \A u \in found[r] : Cardinality(RoutesOf(u)) >= MaxRoutes

BlindToOne ==
  \A T \in SUBSET Spare :
    T # {} => \E u \in T : Cardinality(T) + Cardinality(Blind(u)) <= Workers

SpareInv == IsFiniteSet(users) /\ OldCounts /\ BlindToOne

LEMMA LessIsWellFounded == IsWellFoundedOn({p \in Nat \X Nat : p[1] < p[2]}, Nat)
BY NatLessThanWellFounded DEF OpToRel

(* A non-empty set of numbers has a least one.                             *)
LEMMA Least ==
  ASSUME NEW S \in SUBSET Nat, S # {}
  PROVE  \E m \in S : \A n \in S : m <= n
<1>. DEFINE R == {p \in Nat \X Nat : p[1] < p[2]}
<1>1. PICK m \in S : \A n \in S : <<n, m>> \notin R
  <2>. HIDE DEF R
  <2>1. IsWellFoundedOn(R, Nat)
    BY LessIsWellFounded DEF R
  <2>. QED
    BY <2>1, WFMin
<1>2. ASSUME NEW n \in S
      PROVE  m <= n
  <2>1. <<n, m>> \in Nat \X Nat /\ <<n, m>>[1] = n /\ <<n, m>>[2] = m
    OBVIOUS
  <2>2. ~(n < m)
    BY <1>1, <2>1
  <2>. QED
    BY <2>2
<1>. QED
  BY <1>2

LEMMA InitSpare == Init => SpareInv
<1>. SUFFICES ASSUME Init
              PROVE  SpareInv
  OBVIOUS
<1>1. IsFiniteSet(users)
  BY FS_EmptySet DEF Init
<1>2. OldCounts
  BY DEF Init, OldCounts
<1>3. BlindToOne
  BY DEF Init, Spare, BlindToOne
<1>. QED
  BY <1>1, <1>2, <1>3 DEF SpareInv

(* The account of a route that has one is never changed.                   *)
LEMMA RoutesOnlyGrow ==
  ASSUME TypeOK, OldCounts, NEW r \in Routes, TaskStep(r), NEW u \in Accounts
  PROVE  /\ RoutesOf(u) \subseteq RoutesOf(u)'
         /\ Cardinality(RoutesOf(u)) \in Nat /\ Cardinality(RoutesOf(u)') \in Nat
         /\ Cardinality(RoutesOf(u)) <= Cardinality(RoutesOf(u)')
<1>1. \/ account' = account
      \/ step[r] # "idle" /\ \E v : account' = [account EXCEPT ![r] = v]
  <2>1. CASE ReuseUser(r)
    BY <2>1 DEF ReuseUser, HasCounted
  <2>2. CASE SaveUser(r)
    BY <2>2 DEF SaveUser
  <2>. QED
    BY <2>1, <2>2 DEF TaskStep, ReadUsers, CountRoutes, RegisterAccount, Raise
<1>2. RoutesOf(u) \subseteq RoutesOf(u)'
  BY <1>1, Parameters DEF OldCounts, RoutesOf, TypeOK
<1>3. RoutesOf(u)' \subseteq Routes
  BY DEF RoutesOf
<1>. QED
  BY <1>2, <1>3, SubsetSize

(* get_user has found no room: every user that it has read is full.        *)
LEMMA NoRoomWasFound ==
  ASSUME TypeOK, OldCounts, NEW r \in Routes, RegisterAccount(r), NEW u \in found[r]
  PROVE  Cardinality(RoutesOf(u)) >= MaxRoutes
<1>. DEFINE S == {counts[r][v] : v \in found[r]}
<1>1. \A v \in found[r] : v \in Accounts /\ counts[r][v] \in Nat
  BY DEF TypeOK
<1>2. PICK m \in S : \A n \in S : m <= n
  <2>1. S \in SUBSET Nat /\ S # {}
    BY <1>1
  <2>. QED
    BY <2>1, Least
<1>3. PICK w \in found[r] : m = counts[r][w]
  OBVIOUS
<1>4. w \in Lowest(r)
  BY <1>2, <1>3 DEF Lowest
<1>5. counts[r][w] >= MaxRoutes
  BY <1>4 DEF RegisterAccount
<1>6. counts[r][w] <= counts[r][u]
  BY <1>4 DEF Lowest
<1>7. counts[r][u] <= Cardinality(RoutesOf(u))
  BY DEF RegisterAccount, HasCounted, OldCounts
<1>8. Cardinality(RoutesOf(u)) \in Nat
  BY SubsetSize, Inside
<1>. QED
  BY <1>1, <1>5, <1>6, <1>7, <1>8, Parameters

LEMMA StepKeepsOldCounts ==
  ASSUME TypeOK, OldCounts, NEW r \in Routes, TaskStep(r)
  PROVE  OldCounts'
<1>1. ASSUME NEW q \in Routes, step'[q] # "idle"
      PROVE  account'[q] = NoAccount
  BY <1>1 DEF OldCounts, TypeOK, TaskStep, ReadUsers, CountRoutes, ReuseUser, HasCounted,
              RegisterAccount, SaveUser, Raise, TaskIsLeft
<1>2. ASSUME NEW q \in Routes, NEW u \in found'[q] \ uncounted'[q]
      PROVE  counts'[q][u] <= Cardinality(RoutesOf(u)')
  <2>1. \/ u \in found[q] \ uncounted[q] /\ counts'[q][u] = counts[q][u]
        \/ u \in Accounts /\ RoutesOf(u)' = RoutesOf(u)
             /\ counts'[q][u] = Cardinality(RoutesOf(u))
    <3>1. CASE ReadUsers(r)
      BY <1>2, <3>1 DEF ReadUsers, TypeOK
    <3>2. ASSUME NEW v \in Accounts, CountRoutes(r, v)
          PROVE  \/ u \in found[q] \ uncounted[q] /\ counts'[q][u] = counts[q][u]
                 \/ u \in Accounts /\ RoutesOf(u)' = RoutesOf(u)
                      /\ counts'[q][u] = Cardinality(RoutesOf(u))
      <4>1. RoutesOf(u)' = RoutesOf(u) /\ found' = found
        BY <3>2 DEF CountRoutes, RoutesOf
      <4>2. u \in Accounts
        BY <1>2, <4>1 DEF TypeOK
      <4>3. CASE q = r /\ u = v
        BY <3>2, <4>1, <4>2, <4>3 DEF CountRoutes, TypeOK
      <4>4. CASE ~(q = r /\ u = v)
        <5>1. counts'[q][u] = counts[q][u]
          BY <3>2, <4>2, <4>4 DEF CountRoutes, TypeOK
        <5>2. u \notin uncounted[q]
          BY <1>2, <3>2, <4>4 DEF CountRoutes, TypeOK
        <5>. QED
          BY <1>2, <4>1, <5>1, <5>2
      <4>. QED
        BY <4>3, <4>4
    <3>3. CASE RegisterAccount(r)
      BY <1>2, <3>3 DEF RegisterAccount
    <3>4. CASE TaskIsLeft(r)
      BY <1>2, <3>4 DEF TaskIsLeft, TypeOK
    <3>. QED
      BY <3>1, <3>2, <3>3, <3>4 DEF TaskStep, ReuseUser, SaveUser, Raise
  <2>2. u \in Accounts
    BY <2>1 DEF TypeOK
  <2>3. /\ Cardinality(RoutesOf(u)) \in Nat /\ Cardinality(RoutesOf(u)') \in Nat
        /\ Cardinality(RoutesOf(u)) <= Cardinality(RoutesOf(u)')
    BY <2>2, RoutesOnlyGrow
  <2>4. CASE u \in found[q] \ uncounted[q] /\ counts'[q][u] = counts[q][u]
    <3>1. counts[q][u] <= Cardinality(RoutesOf(u)) /\ counts[q][u] \in Nat
      BY <2>2, <2>4 DEF OldCounts, TypeOK
    <3>. QED
      BY <2>3, <2>4, <3>1
  <2>5. CASE counts'[q][u] = Cardinality(RoutesOf(u))
    BY <2>3, <2>5
  <2>. QED
    BY <2>1, <2>4, <2>5
<1>3. ASSUME NEW q \in Routes, step'[q] = "registered", NEW u \in found'[q]
      PROVE  Cardinality(RoutesOf(u)') >= MaxRoutes
  <2>1. \/ u \in found[q] /\ step[q] = "registered"
        \/ u \in found[q] /\ RegisterAccount(q)
    BY <1>3 DEF TypeOK, TaskStep, ReadUsers, CountRoutes, ReuseUser, HasCounted,
                RegisterAccount, SaveUser, Raise, TaskIsLeft
  <2>2. Cardinality(RoutesOf(u)) >= MaxRoutes /\ u \in Accounts
    BY <2>1, NoRoomWasFound DEF OldCounts, TypeOK
  <2>3. /\ Cardinality(RoutesOf(u)) \in Nat /\ Cardinality(RoutesOf(u)') \in Nat
        /\ Cardinality(RoutesOf(u)) <= Cardinality(RoutesOf(u)')
    BY <2>2, RoutesOnlyGrow
  <2>. QED
    BY <2>2, <2>3, Parameters
<1>. QED
  BY <1>1, <1>2, <1>3 DEF OldCounts, RoutesOf

LEMMA OneUserIsSaved ==
  ASSUME NEW r \in Routes, TaskStep(r)
  PROVE  users' = users \/ (SaveUser(r) /\ users' = users \cup {chosen[r]})
<1>1. CASE SaveUser(r)
  BY <1>1 DEF SaveUser
<1>2. CASE ~SaveUser(r)
  BY <1>2 DEF TaskStep, ReadUsers, CountRoutes, ReuseUser, RegisterAccount, Raise
<1>. QED
  BY <1>1, <1>2

LEMMA UsersStayFinite ==
  ASSUME IsFiniteSet(users), NEW r \in Routes, TaskStep(r)
  PROVE  IsFiniteSet(users')
BY OneUserIsSaved, FS_AddElement

(* No account gets room that had none, but for the one that is saved.      *)
LEMMA RoomOnlyShrinks ==
  ASSUME TypeOK, OldCounts, NEW r \in Routes, TaskStep(r),
         NEW u \in users', Cardinality(RoutesOf(u)') < MaxRoutes
  PROVE  \/ u \in users /\ Cardinality(RoutesOf(u)) < MaxRoutes
         \/ SaveUser(r) /\ u = chosen[r]
<1>1. CASE u \in users
  <2>1. /\ Cardinality(RoutesOf(u)) \in Nat /\ Cardinality(RoutesOf(u)') \in Nat
        /\ Cardinality(RoutesOf(u)) <= Cardinality(RoutesOf(u)')
    BY <1>1, RoutesOnlyGrow DEF TypeOK
  <2>2. Cardinality(RoutesOf(u)) < MaxRoutes
    BY <2>1, Parameters
  <2>. QED
    BY <1>1, <2>2
<1>. QED
  BY <1>1, OneUserIsSaved

LEMMA SpareOnlyShrinks ==
  ASSUME TypeOK, OldCounts, NEW r \in Routes, TaskStep(r)
  PROVE  \A u \in Spare' : u \in Spare \/ (SaveUser(r) /\ u = chosen[r])
<1>1. \A u : u \in Spare' => u \in users' /\ Cardinality(RoutesOf(u)') < MaxRoutes
  BY Zenon DEF Spare
<1>2. \A u : u \in users /\ Cardinality(RoutesOf(u)) < MaxRoutes => u \in Spare
  BY Zenon DEF Spare
<1>. QED
  BY <1>1, <1>2, RoomOnlyShrinks, Zenon

(* No task becomes blind to an account that has a row.                     *)
LEMMA BlindOnlyShrinks ==
  ASSUME TypeOK, NEW r \in Routes, TaskStep(r), NEW u \in users
  PROVE  Blind(u)' \subseteq Blind(u)
<1>. SUFFICES ASSUME NEW q \in Routes, step'[q] # "idle", u \notin found'[q]
              PROVE  step[q] # "idle" /\ u \notin found[q]
  BY DEF Blind, Busy
<1>. QED
  BY DEF TypeOK, TaskStep, ReadUsers, CountRoutes, ReuseUser, HasCounted, RegisterAccount,
         SaveUser, Raise, TaskIsLeft

LEMMA BlindInside ==
  ASSUME NEW u
  PROVE  Blind(u) \subseteq Busy /\ Blind(u) \subseteq Routes
BY DEF Blind, Busy

LEMMA SpareInside ==
  ASSUME IsFiniteSet(users), NEW T, T \subseteq Spare
  PROVE  IsFiniteSet(T) /\ Cardinality(T) \in Nat
<1>1. T \subseteq users
  BY DEF Spare
<1>2. IsFiniteSet(T)
  BY <1>1, FS_Subset
<1>. QED
  BY <1>2, FS_CardinalityType

(* The task that saves the account: of accounts that had room before it    *)
(* and its own, one is unknown to so few.                                  *)
LEMMA SavedIsFew ==
  ASSUME IInv, SpareInv, NEW r \in Routes, SaveUser(r), NEW T \in SUBSET Spare', T # {},
         chosen[r] \in T
  PROVE  \E u \in T : Cardinality(T) + Cardinality(Blind(u)') <= Workers
<1>. PICK w \in T : w = chosen[r]
  OBVIOUS
<1>. DEFINE T0 == T \ {w}
<1>1. TypeOK /\ OldCounts /\ BlindToOne /\ IsFiniteSet(users) /\ TaskStep(r)
  BY DEF IInv, SpareInv, TaskStep
<1>2. T0 \subseteq Spare
  BY <1>1, SpareOnlyShrinks
<1>3. r \in Busy /\ r \notin Busy' /\ Busy' \subseteq Busy \ {r}
  BY <1>1 DEF SaveUser, TaskIsLeft, Busy, TypeOK
<1>4. IsFiniteSet(T0) /\ Cardinality(T0) \in Nat
  BY <1>1, <1>2, SpareInside
<1>5. Cardinality(T) = Cardinality(T0) + 1
  <2>1. T = T0 \cup {w} /\ w \notin T0
    OBVIOUS
  <2>. QED
    BY <1>4, <2>1, FS_AddElement
<1>6. CASE T0 = {}
  <2>1. Cardinality(T0) = 0
    BY <1>6, FS_EmptySet
  <2>2. Blind(w)' \subseteq Busy \ {r}
    BY <1>3 DEF Blind
  <2>3. /\ Cardinality(Blind(w)') \in Nat /\ Cardinality(Busy) \in Nat
        /\ Cardinality(Blind(w)') <= Cardinality(Busy) - 1
    BY <1>3, <2>2, OneLess, Inside
  <2>4. Cardinality(Busy) <= Workers
    BY DEF IInv, RoomIsHeld
  <2>5. Cardinality(T) + Cardinality(Blind(w)') <= Workers
    BY <1>5, <2>1, <2>3, <2>4, Parameters
  <2>. QED
    BY <2>5
<1>7. CASE T0 # {}
  <2>1. PICK u \in T0 : Cardinality(T0) + Cardinality(Blind(u)) <= Workers
    BY <1>1, <1>2, <1>7 DEF BlindToOne
  <2>2. u \in users /\ Cardinality(RoutesOf(u)) < MaxRoutes
    BY <1>2, <2>1 DEF Spare
  <2>3. u \notin found[r]
    <3>1. Cardinality(RoutesOf(u)) \in Nat
      BY SubsetSize, Inside
    <3>2. u \in found[r] => Cardinality(RoutesOf(u)) >= MaxRoutes
      BY <1>1 DEF OldCounts, SaveUser
    <3>. QED
      BY <2>2, <3>1, <3>2, Parameters
  <2>4. r \in Blind(u) /\ Blind(u) \subseteq Routes
    BY <1>3, <2>3, BlindInside DEF Blind
  <2>5. Blind(u)' \subseteq Blind(u) \ {r}
    <3>1. Blind(u)' \subseteq Blind(u)
      BY <1>1, <2>2, BlindOnlyShrinks
    <3>2. r \notin Blind(u)'
      BY <1>3 DEF Blind
    <3>. QED
      BY <3>1, <3>2
  <2>6. /\ Cardinality(Blind(u)') \in Nat /\ Cardinality(Blind(u)) \in Nat
        /\ Cardinality(Blind(u)') <= Cardinality(Blind(u)) - 1
    BY <2>4, <2>5, OneLess
  <2>7. Cardinality(T) + Cardinality(Blind(u)') <= Workers
    BY <1>4, <1>5, <2>1, <2>6, Parameters
  <2>. QED
    BY <2>1, <2>7
<1>. QED
  BY <1>6, <1>7

LEMMA StepKeepsBlind ==
  ASSUME IInv, SpareInv, NEW r \in Routes, TaskStep(r)
  PROVE  BlindToOne'
<1>. SUFFICES ASSUME NEW T \in SUBSET Spare', T # {}
              PROVE  \E u \in T : Cardinality(T) + Cardinality(Blind(u)') <= Workers
  BY DEF BlindToOne
<1>1. TypeOK /\ OldCounts /\ BlindToOne /\ IsFiniteSet(users)
  BY DEF IInv, SpareInv
<1>2. CASE SaveUser(r) /\ chosen[r] \in T
  BY <1>2, SavedIsFew
<1>3. CASE ~(SaveUser(r) /\ chosen[r] \in T)
  <2>1. T \subseteq Spare
    BY <1>1, <1>3, SpareOnlyShrinks
  <2>2. PICK u \in T : Cardinality(T) + Cardinality(Blind(u)) <= Workers
    BY <1>1, <2>1 DEF BlindToOne
  <2>3. u \in users
    BY <2>1 DEF Spare
  <2>4. Blind(u)' \subseteq Blind(u) /\ Blind(u) \subseteq Routes
    BY <1>1, <2>3, BlindOnlyShrinks, BlindInside
  <2>5. /\ Cardinality(Blind(u)') \in Nat /\ Cardinality(Blind(u)) \in Nat
        /\ Cardinality(Blind(u)') <= Cardinality(Blind(u))
    BY <2>4, SubsetSize
  <2>6. Cardinality(T) \in Nat
    BY <1>1, <2>1, SpareInside
  <2>7. Cardinality(T) + Cardinality(Blind(u)') <= Workers
    BY <2>2, <2>5, <2>6, Parameters
  <2>. QED
    BY <2>7
<1>. QED
  BY <1>2, <1>3

LEMMA StepKeepsSpare == IInv /\ SpareInv /\ [Next]_vars => SpareInv'
<1>. SUFFICES ASSUME IInv, SpareInv, [Next]_vars
              PROVE  SpareInv'
  OBVIOUS
<1>1. CASE Next
  <2>1. PICK r \in Routes : TaskStep(r)
    BY <1>1 DEF Next
  <2>. QED
    BY <2>1, StepKeepsOldCounts, UsersStayFinite, StepKeepsBlind DEF IInv, SpareInv
<1>2. CASE UNCHANGED vars
  BY <1>2 DEF SpareInv, OldCounts, BlindToOne, Blind, Spare, Busy, RoutesOf, vars, taskVars
<1>. QED
  BY <1>1, <1>2

LEMMA AlwaysSpareInv == Spec => []SpareInv
BY InitSpare, StepKeepsSpare, AlwaysIInv, PTL DEF Spec

-----------------------------------------------------------------------------
(* The theorems                                                            *)

(* What the tasks have read, registered and saved keeps to its types; in   *)
(* particular every account of a route has its row.                        *)
THEOREM UsersTypeCorrect == Spec => []TypeOK
<1>1. IInv => TypeOK
  BY DEF IInv
<1>. QED
  BY <1>1, AlwaysIInv, PTL

(* The inductive invariant: routes and tasks that hold room are bounded    *)
(* together.                                                               *)
THEOREM RoomIsAlwaysHeld == Spec => []RoomIsHeld
<1>1. IInv => RoomIsHeld
  BY DEF IInv
<1>. QED
  BY <1>1, AlwaysIInv, PTL

(* However the tasks interleave, the old counts of get_user make an        *)
(* account exceed MAX_ROUTES_PER_USER by less than the number of workers.  *)
THEOREM NeverManyTooMany == Spec => []FewTooMany
<1>1. IInv => FewTooMany
  <2>. SUFFICES ASSUME IInv, NEW u \in Accounts
                PROVE  Cardinality(RoutesOf(u)) <= MaxRoutes - 1 + Workers
    BY DEF FewTooMany
  <2>1. Cardinality(RoutesOf(u)) \in Nat /\ Cardinality(Holders(u)) \in Nat
    BY SubsetSize, Inside
  <2>2. Cardinality(RoutesOf(u)) + Cardinality(Holders(u)) <= MaxRoutes - 1 + Workers
    BY DEF IInv, RoomIsHeld
  <2>. QED
    BY <2>1, <2>2, Parameters
<1>. QED
  BY <1>1, AlwaysIInv, PTL

(* However many routes are renewed at noon, and however the tasks          *)
(* interleave, fail and are run again: create_user never leaves more       *)
(* accounts with room than there are workers.                              *)
THEOREM NeverManySpareAccounts == Spec => []FewSpareAccounts
<1>1. SpareInv => FewSpareAccounts
  <2>. SUFFICES ASSUME SpareInv
                PROVE  Cardinality(Spare) <= Workers
    BY DEF FewSpareAccounts, Spare
  <2>1. CASE Spare = {}
    BY <2>1, FS_EmptySet, Parameters
  <2>2. CASE Spare # {}
    <3>1. PICK u \in Spare : Cardinality(Spare) + Cardinality(Blind(u)) <= Workers
      BY <2>2 DEF SpareInv, BlindToOne
    <3>2. Cardinality(Spare) \in Nat /\ Cardinality(Blind(u)) \in Nat
      BY SpareInside, SubsetSize, BlindInside DEF SpareInv
    <3>. QED
      BY <3>1, <3>2, Parameters
  <2>. QED
    BY <2>1, <2>2
<1>. QED
  BY <1>1, AlwaysSpareInv, PTL
=============================================================================
