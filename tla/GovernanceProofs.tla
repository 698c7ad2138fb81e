-------------------------- MODULE GovernanceProofs --------------------------
(* What the quotas guarantee for every set of workspaces and every policy. *)
EXTENDS Governance, FiniteSetTheorems, WellFoundedInduction, TLAPS

-----------------------------------------------------------------------------
(* Sums over finite sets: what Total computes.                             *)

\* A non-empty set of numbers has a least element.
LEMMA NatMin ==
  ASSUME NEW T, T \subseteq Nat, T # {}
  PROVE  \E x \in T : \A y \in T : x <= y
<1> DEFINE R == OpToRel(<, Nat)
<1>1. IsWellFoundedOn(R, Nat)
  BY NatLessThanWellFounded
<1>2. \A x, y \in Nat : <<y, x>> \in R <=> y < x
  BY DEF OpToRel
<1> HIDE DEF R
<1>3. PICK x \in T : \A y \in T : ~(<<y, x>> \in R)
  BY <1>1, WFMin
<1>4. \A y \in T : x <= y
  <2> TAKE y \in T
  <2>1. x \in Nat /\ y \in Nat
    OBVIOUS
  <2>2. ~(<<y, x>> \in R)
    BY <1>3
  <2>3. ~(y < x)
    BY <1>2, <2>1, <2>2
  <2>4. QED
    BY <2>1, <2>3
<1>5. QED
  BY <1>4

\* A set that contains every subset of W whose proper subsets it contains
\* contains them all.
LEMMA SubsetInduction ==
  ASSUME NEW W, IsFiniteSet(W), NEW P,
         \A S \in SUBSET W : (\A T \in SUBSET S : T # S => T \in P) => S \in P
  PROVE  \A S \in SUBSET W : S \in P
<1> DEFINE Bad == {S \in SUBSET W : S \notin P}
           Sizes == {Cardinality(S) : S \in Bad}
<1>1. \A S \in SUBSET W : IsFiniteSet(S) /\ Cardinality(S) \in Nat
  BY FS_Subset, FS_CardinalityType
<1>2. SUFFICES ASSUME Bad # {} PROVE FALSE
  OBVIOUS
<1>3. Sizes \subseteq Nat /\ Sizes # {}
  BY <1>1, <1>2
<1>4. PICK S \in Bad : \A U \in Bad : Cardinality(S) <= Cardinality(U)
  <2>1. PICK n \in Sizes : \A m \in Sizes : n <= m
    BY <1>3, NatMin
  <2>2. QED
    BY <2>1
<1>5. \A T \in SUBSET S : T # S => T \in P
  <2> SUFFICES ASSUME NEW T \in SUBSET S, T # S, T \notin P PROVE FALSE
    OBVIOUS
  <2>1. T \in Bad /\ S \in SUBSET W
    OBVIOUS
  <2>2. Cardinality(T) <= Cardinality(S) /\ Cardinality(S) # Cardinality(T)
    BY <1>1, <2>1, FS_Subset
  <2>3. QED
    BY <1>1, <1>4, <2>1, <2>2
<1>6. QED
  BY <1>4, <1>5

\* Some member of s.
Pick(s) == CHOOSE x \in s : TRUE

IsSum(size, S, g) ==
  g = [s \in SUBSET S |->
         IF s = {} THEN 0 ELSE size[Pick(s)] + g[s \ {Pick(s)}]]

\* Total is the value at S of a function that sums the subsets of S.
LEMMA TotalUnfolded ==
  ASSUME NEW size, NEW S
  PROVE  Total(size, S) = (CHOOSE g : IsSum(size, S, g))[S]
BY DEF Total, MapThenSumSet, MapThenFoldSet, IsSum, Pick

\* A member of a non-empty set can be picked.
LEMMA PickIn == ASSUME NEW s, s # {} PROVE Pick(s) \in s
BY DEF Pick

\* Two such functions agree where both are defined.
LEMMA SumsAgree ==
  ASSUME NEW size, NEW S, NEW T, NEW g, NEW h, IsSum(size, S, g), IsSum(size, T, h),
         IsFiniteSet(S)
  PROVE  \A U \in SUBSET S : U \in SUBSET T => g[U] = h[U]
<1> DEFINE P == {U \in SUBSET S : U \in SUBSET T => g[U] = h[U]}
<1>1. \A U \in SUBSET S : (\A V \in SUBSET U : V # U => V \in P) => U \in P
  <2> SUFFICES ASSUME NEW U \in SUBSET S, \A V \in SUBSET U : V # U => V \in P,
                      U \in SUBSET T
               PROVE  g[U] = h[U]
    OBVIOUS
  <2>1. CASE U = {}
    BY <2>1 DEF IsSum
  <2>2. CASE U # {}
    <3> DEFINE V == U \ {Pick(U)}
    <3>1. V \in SUBSET U /\ V # U
      BY <2>2, PickIn
    <3>2. g[V] = h[V]
      BY <3>1
    <3>3. g[U] = size[Pick(U)] + g[V]
      BY <2>2 DEF IsSum
    <3>4. h[U] = size[Pick(U)] + h[V]
      BY <2>2 DEF IsSum
    <3>5. QED
      BY <3>2, <3>3, <3>4
  <2>3. QED
    BY <2>1, <2>2
<1> HIDE DEF P
<1>2. \A U \in SUBSET S : U \in P
  BY <1>1, SubsetInduction
<1>3. QED
  BY <1>2 DEF P


\* The function of TotalUnfolded exists.
LEMMA SumExists ==
  ASSUME NEW size, NEW W, IsFiniteSet(W)
  PROVE  \A S \in SUBSET W : \E g : IsSum(size, S, g)
<1> DEFINE P == {S \in SUBSET W : \E g : IsSum(size, S, g)}
           Rec(s) == IF s = {} THEN 0
                     ELSE size[Pick(s)] + Total(size, s \ {Pick(s)})
<1>1. \A S \in SUBSET W : (\A T \in SUBSET S : T # S => T \in P) => S \in P
  <2> SUFFICES ASSUME NEW S \in SUBSET W, \A T \in SUBSET S : T # S => T \in P
               PROVE  \E g : IsSum(size, S, g)
    OBVIOUS
  <2>1. \A T \in SUBSET S : T # S => Total(size, T) = Rec(T)
    <3> SUFFICES ASSUME NEW T \in SUBSET S, T # S PROVE Total(size, T) = Rec(T)
      OBVIOUS
    <3> DEFINE f == CHOOSE g : IsSum(size, T, g)
    <3>1. IsSum(size, T, f)
      OBVIOUS
    <3>2. Total(size, T) = f[T]
      BY TotalUnfolded
    <3> HIDE DEF f
    <3>3. CASE T = {}
      <4>1. f[T] = 0
        BY <3>1, <3>3 DEF IsSum
      <4>2. QED
        BY <3>2, <3>3, <4>1
    <3>4. CASE T # {}
      <4> DEFINE U == T \ {Pick(T)}
                 h == CHOOSE g : IsSum(size, U, g)
      <4>1. U \in SUBSET T /\ U # T /\ U \in SUBSET S /\ U # S
        BY <3>4, PickIn
      <4>2. IsSum(size, U, h)
        BY <4>1
      <4>3. Total(size, U) = h[U]
        BY TotalUnfolded
      <4> HIDE DEF h
      <4>4. f[T] = size[Pick(T)] + f[U]
        BY <3>1, <3>4 DEF IsSum
      <4>5. IsFiniteSet(T)
        BY FS_Subset
      <4>6. f[U] = h[U]
        BY <3>1, <4>1, <4>2, <4>5, SumsAgree
      <4>7. QED
        BY <3>2, <3>4, <4>3, <4>4, <4>6
    <3>5. QED
      BY <3>3, <3>4
  <2> DEFINE g == [s \in SUBSET S |-> Rec(s)]
  <2>2. \A s \in SUBSET S :
          Rec(s) = IF s = {} THEN 0 ELSE size[Pick(s)] + g[s \ {Pick(s)}]
    <3> SUFFICES ASSUME NEW s \in SUBSET S, s # {}
                 PROVE  Total(size, s \ {Pick(s)}) = g[s \ {Pick(s)}]
      OBVIOUS
    <3> DEFINE t == s \ {Pick(s)}
    <3>1. t \in SUBSET S /\ t # S
      BY PickIn
    <3> HIDE DEF t
    <3>2. g[t] = Rec(t)
      BY <3>1
    <3>3. Total(size, t) = Rec(t)
      BY <2>1, <3>1
    <3>4. QED
      BY <3>2, <3>3 DEF t
  <2>3. IsSum(size, S, g)
    <3> DEFINE k == [s \in SUBSET S |->
                       IF s = {} THEN 0 ELSE size[Pick(s)] + g[s \ {Pick(s)}]]
    <3>1. g = k
      BY <2>2
    <3>2. QED
      BY <3>1 DEF IsSum
  <2>4. QED
    BY <2>3
<1> HIDE DEF P
<1>2. \A S \in SUBSET W : S \in P
  BY <1>1, SubsetInduction
<1>3. QED
  BY <1>2 DEF P

\* The recursion that Total obeys.
LEMMA TotalStep ==
  ASSUME NEW size, NEW S, IsFiniteSet(S)
  PROVE  Total(size, S) = IF S = {} THEN 0
                          ELSE size[Pick(S)] + Total(size, S \ {Pick(S)})
<1> DEFINE f == CHOOSE g : IsSum(size, S, g)
<1>1. IsSum(size, S, f)
  BY SumExists
<1>2. Total(size, S) = f[S]
  BY TotalUnfolded
<1> HIDE DEF f
<1>3. CASE S = {}
  <2>1. f[S] = 0
    BY <1>1, <1>3 DEF IsSum
  <2>2. QED
    BY <1>2, <1>3, <2>1
<1>4. CASE S # {}
  <2> DEFINE U == S \ {Pick(S)}
             h == CHOOSE g : IsSum(size, U, g)
  <2>1. U \in SUBSET S
    OBVIOUS
  <2>2. IsSum(size, U, h)
    BY <2>1, SumExists
  <2>3. Total(size, U) = h[U]
    BY TotalUnfolded
  <2> HIDE DEF h
  <2>4. f[S] = size[Pick(S)] + f[U]
    BY <1>1, <1>4 DEF IsSum
  <2>5. f[U] = h[U]
    BY <1>1, <2>1, <2>2, SumsAgree
  <2>6. QED
    BY <1>2, <1>4, <2>3, <2>4, <2>5
<1>5. QED
  BY <1>3, <1>4

\* Sums of natural numbers are natural numbers.
LEMMA TotalNat ==
  ASSUME NEW W, IsFiniteSet(W), NEW size \in [W -> Nat], NEW S \in SUBSET W
  PROVE  Total(size, S) \in Nat
<1> DEFINE P == {U \in SUBSET W : Total(size, U) \in Nat}
<1>1. \A U \in SUBSET W : (\A V \in SUBSET U : V # U => V \in P) => U \in P
  <2> SUFFICES ASSUME NEW U \in SUBSET W, \A V \in SUBSET U : V # U => V \in P
               PROVE  Total(size, U) \in Nat
    OBVIOUS
  <2>1. IsFiniteSet(U)
    BY FS_Subset
  <2>2. CASE U = {}
    <3>1. Total(size, U) = 0
      BY <2>1, <2>2, TotalStep
    <3>2. QED
      BY <3>1
  <2>3. CASE U # {}
    <3> DEFINE V == U \ {Pick(U)}
    <3>1. V \in SUBSET U /\ V # U /\ Pick(U) \in W
      BY <2>3, PickIn
    <3>2. Total(size, V) \in Nat /\ size[Pick(U)] \in Nat
      BY <3>1
    <3>3. Total(size, U) = size[Pick(U)] + Total(size, V)
      BY <2>1, <2>3, TotalStep
    <3>4. QED
      BY <3>2, <3>3
  <2>4. QED
    BY <2>2, <2>3
<1> HIDE DEF P
<1>2. S \in P
  BY <1>1, SubsetInduction
<1>3. QED
  BY <1>2 DEF P

\* One more element adds its size, whatever order the sum was taken in.
LEMMA TotalAdd ==
  ASSUME NEW W, IsFiniteSet(W), NEW size \in [W -> Nat],
         NEW S \in SUBSET W, NEW w \in W, w \notin S
  PROVE  Total(size, S \cup {w}) = Total(size, S) + size[w]
<1> DEFINE P == {U \in SUBSET W :
                   \A x \in W : x \notin U =>
                     Total(size, U \cup {x}) = Total(size, U) + size[x]}
<1>1. \A U \in SUBSET W : (\A V \in SUBSET U : V # U => V \in P) => U \in P
  <2> SUFFICES ASSUME NEW U \in SUBSET W, \A V \in SUBSET U : V # U => V \in P,
                      NEW x \in W, x \notin U
               PROVE  Total(size, U \cup {x}) = Total(size, U) + size[x]
    OBVIOUS
  <2> DEFINE Ux == U \cup {x}
             p == Pick(Ux)
             V == U \ {p}
  <2>1. IsFiniteSet(Ux) /\ IsFiniteSet(U) /\ Ux # {}
    <3>1. Ux \in SUBSET W
      OBVIOUS
    <3>2. QED
      BY <3>1, FS_Subset
  <2>2. p \in Ux
    BY <2>1, PickIn
  <2>3. Total(size, Ux) = size[p] + Total(size, Ux \ {p})
    BY <2>1, TotalStep
  <2>4. Total(size, U) \in Nat /\ size[x] \in Nat
    BY TotalNat
  <2> HIDE DEF p
  <2>5. CASE p = x
    <3>1. Ux \ {p} = U
      BY <2>5
    <3>2. Total(size, Ux) = size[x] + Total(size, U)
      <4>1. Total(size, Ux \ {p}) = Total(size, U)
        BY <3>1
      <4>2. QED
        BY <2>3, <2>5, <4>1
    <3>3. QED
      BY <2>4, <3>2
  <2>6. CASE p # x
    <3>1. p \in U /\ V \in SUBSET U /\ V # U /\ p \notin V /\ x \notin V /\ p \in W
      BY <2>2, <2>6
    <3>2. Ux \ {p} = V \cup {x}
      BY <2>6
    <3>3. U = V \cup {p}
      BY <3>1
    <3>4. V \in P
      BY <3>1
    <3>5. Total(size, V \cup {x}) = Total(size, V) + size[x]
      BY <3>1, <3>4
    <3>6. Total(size, U) = Total(size, V) + size[p]
      BY <3>1, <3>3, <3>4
    <3>7. Total(size, V) \in Nat /\ size[p] \in Nat
      BY <3>1, TotalNat
    <3>8. Total(size, Ux) = size[p] + (Total(size, V) + size[x])
      BY <2>3, <3>2, <3>5
    <3>9. QED
      BY <2>4, <3>6, <3>7, <3>8
  <2>7. QED
    BY <2>5, <2>6
<1> HIDE DEF P
<1>2. S \in P
  BY <1>1, SubsetInduction
<1>3. QED
  BY <1>2 DEF P

\* A smaller set weighs no more.
LEMMA TotalMonotone ==
  ASSUME NEW W, IsFiniteSet(W), NEW size \in [W -> Nat],
         NEW B \in SUBSET W, NEW A \in SUBSET B
  PROVE  Total(size, A) <= Total(size, B)
<1> DEFINE P == {U \in SUBSET W : A \in SUBSET U => Total(size, A) <= Total(size, U)}
<1>0. A \in SUBSET W /\ Total(size, A) \in Nat
  BY TotalNat
<1>1. \A U \in SUBSET W : (\A V \in SUBSET U : V # U => V \in P) => U \in P
  <2> SUFFICES ASSUME NEW U \in SUBSET W, \A V \in SUBSET U : V # U => V \in P,
                      A \in SUBSET U
               PROVE  Total(size, A) <= Total(size, U)
    OBVIOUS
  <2>1. CASE A = U
    BY <1>0, <2>1
  <2>2. CASE A # U
    <3>1. PICK u \in U : u \notin A
      BY <2>2
    <3> DEFINE V == U \ {u}
    <3>2. V \in SUBSET U /\ V # U /\ A \in SUBSET V /\ V \in SUBSET W /\ u \in W
          /\ u \notin V /\ U = V \cup {u}
      BY <3>1
    <3> HIDE DEF V
    <3>3. Total(size, A) <= Total(size, V)
      BY <3>2
    <3>4. Total(size, U) = Total(size, V) + size[u]
      BY <3>2, TotalAdd
    <3>5. Total(size, V) \in Nat /\ size[u] \in Nat
      BY <3>2, TotalNat
    <3>6. QED
      BY <1>0, <3>3, <3>4, <3>5
  <2>3. QED
    BY <2>1, <2>2
<1> HIDE DEF P
<1>2. B \in P
  BY <1>1, SubsetInduction
<1>3. QED
  BY <1>2 DEF P

-----------------------------------------------------------------------------
(* The inductive invariant.                                                *)

\* A write that was admitted and not stored: a creation of something that
\* does not exist yet, or a resumption.
Pending ==
  \A w \in Ws :
    /\ req[w].op = "create" => cr[w].st = "none"
    /\ req[w].op = "resume" => used.resume # 0 /\ req[w].home = cr[w].home
    /\ req[w].op = "none" => req[w] = NoReq(w)

\* The cache lags behind the API server along the life of a workspace.
Lagging ==
  \A w \in Ws :
    /\ seen[w].st # "none" => cr[w].st # "none"
    /\ used.resume = 0 /\ seen[w].st # "none" /\ seen[w].paused => cr[w].paused

\* Compute is given to what the operator saw alive, by a template.
Provisioned ==
  \A w \in Ws : comp[w] # "none" =>
    /\ tpl
    /\ seen[w].st # "none"
    /\ cr[w].st = "live" => seen[w].st = "live"

IInv == TypeOK /\ Pending /\ Lagging /\ Provisioned /\ GrantedWithinQuota


\* The steps of Next, one by one.
LEMMA Steps ==
  ASSUME [Next]_vars
  PROVE  \/ \E w \in Ws, paused \in CreatePaused, home \in Vols :
              AdmitCreate(w, paused, home)
         \/ \E w \in Ws : AdmitResume(w)
         \/ \E w \in Ws : Persist(w)
         \/ \E w \in Ws : Pause(w)
         \/ \E w \in Ws : Delete(w)
         \/ \E v \in Vols : DeleteVolume(v)
         \/ \E v \in Vols : DeliverClaim(v)
         \/ \E w \in Ws : Deliver(w)
         \/ \E w \in Ws : Reconcile(w)
         \/ \E w \in Ws, keep \in BOOLEAN : Finalize(w, keep)
         \/ ApplyTemplate
         \/ ToggleImage
         \/ UNCHANGED vars
BY DEF Next

\* Deleting a workspace leaves it a workspace.
LEMMA DeletingState ==
  ASSUME NEW c \in CrStates
  PROVE  [c EXCEPT !.st = "deleting"] \in CrStates
  BY Zenon DEF CrStates

\* Pausing a workspace changes nothing else of it.
LEMMA PausedState ==
  ASSUME NEW c \in CrStates
  PROVE  /\ [c EXCEPT !.paused = TRUE] \in CrStates
         /\ [c EXCEPT !.paused = TRUE].st = c.st
         /\ [c EXCEPT !.paused = TRUE].paused
<1>1. [c EXCEPT !.paused = TRUE] \in CrStates
  BY Zenon DEF CrStates
<1>2. [c EXCEPT !.paused = TRUE].st = c.st
  BY DEF CrStates
<1>3. [c EXCEPT !.paused = TRUE].paused
  BY Zenon DEF CrStates
<1>4. QED
  BY <1>1, <1>2, <1>3

\* Every step keeps the types.
LEMMA TypeStep ==
  ASSUME TypeOK, [Next]_vars
  PROVE  TypeOK'
<1> USE DEF TypeOK, CrStates
<1>v. /\ NoVol \in VolStates
      /\ \A size \in Nat : Retained(size) \in VolStates
      /\ \A size \in Nat, w \in Ws : HomeOf(w, size) \in VolStates
  BY DEF VolStates, NoVol, Retained, HomeOf
<1>s. \A c \in VolStates : c.size \in Nat
  BY DEF VolStates
<1>h. \A w \in Ws : seen[w].home \in Vols /\ cr[w].home \in Vols
  OBVIOUS
<1>1. ASSUME NEW w \in Ws, NEW paused \in CreatePaused, NEW home \in Vols,
             AdmitCreate(w, paused, home)
      PROVE  TypeOK'
  BY <1>1, CreatePausedAssumption DEF AdmitCreate
<1>2. ASSUME NEW w \in Ws, AdmitResume(w)
      PROVE  TypeOK'
  <2>1. used' \in [pause : Nat, resume : Nat, toggle : Nat]
    <3>1. used' = [used EXCEPT !.resume = used.resume + 1]
      BY <1>2 DEF AdmitResume
    <3>2. QED
      BY <3>1
  <2>2. req' \in [Ws -> [op : {"none", "create", "resume"}, paused : BOOLEAN, home : Vols]]
    BY <1>2 DEF AdmitResume
  <2>3. QED
    BY <1>2, <2>1, <2>2 DEF AdmitResume
<1>3. ASSUME NEW w \in Ws, Persist(w)
      PROVE  TypeOK'
  <2>1. req' \in [Ws -> [op : {"none", "create", "resume"}, paused : BOOLEAN, home : Vols]]
    <3>1. NoReq(w) \in [op : {"none", "create", "resume"}, paused : BOOLEAN, home : Vols]
      BY DEF NoReq, Vols
    <3>2. QED
      BY <1>3, <3>1 DEF Persist
  <2>2. cr' \in [Ws -> CrStates]
    BY <1>3 DEF Persist
  <2>3. QED
    BY <1>3, <2>1, <2>2 DEF Persist
<1>4. ASSUME NEW w \in Ws, Pause(w)
      PROVE  TypeOK'
  <2>1. cr' \in [Ws -> CrStates]
    <3>1. cr' = [cr EXCEPT ![w] = [cr[w] EXCEPT !.paused = TRUE]]
      BY <1>4 DEF Pause
    <3>2. [cr[w] EXCEPT !.paused = TRUE] \in CrStates
      BY PausedState
    <3>3. QED
      BY <3>1, <3>2
  <2>2. used' \in [pause : Nat, resume : Nat, toggle : Nat]
    BY <1>4 DEF Pause
  <2>3. QED
    BY <1>4, <2>1, <2>2 DEF Pause
<1>5. ASSUME NEW w \in Ws, Delete(w)
      PROVE  TypeOK'
  <2>1. cr' \in [Ws -> CrStates]
    <3>1. cr' = [cr EXCEPT ![w] = [cr[w] EXCEPT !.st = "deleting"]]
      BY <1>5 DEF Delete
    <3>2. [cr[w] EXCEPT !.st = "deleting"] \in CrStates
      BY DeletingState
    <3>3. QED
      BY <3>1, <3>2
  <2>2. QED
    BY <1>5, <2>1 DEF Delete
<1>6. ASSUME NEW v \in Vols, DeleteVolume(v)
      PROVE  TypeOK'
  BY <1>6, <1>v DEF DeleteVolume
<1>7. ASSUME NEW w \in Ws, Deliver(w)
      PROVE  TypeOK'
  BY <1>7 DEF Deliver
<1>7a. ASSUME NEW v \in Vols, DeliverClaim(v)
      PROVE  TypeOK'
  BY <1>7a DEF DeliverClaim
<1>8. ASSUME NEW w \in Ws, Reconcile(w)
      PROVE  TypeOK'
  <2>1. CASE Refuse(w)
    BY <1>8, <2>1 DEF Reconcile, Refuse
  <2>2. CASE \E down \in BOOLEAN : Provision(w, down)
    <3>1. EnsuredHome(w) \in VolStates
      BY <1>v, <1>s, <1>h, SizesAssumption DEF EnsuredHome
    <3>2. vol' \in [Vols -> VolStates]
      BY <1>h, <2>2, <3>1 DEF Provision
    <3>3. QED
      BY <1>8, <2>2, <3>2 DEF Reconcile, Provision
  <2>3. seen[w].paused \in BOOLEAN
    OBVIOUS
  <2>4. Refuse(w) \/ \E down \in BOOLEAN : Provision(w, down)
    BY <1>8, <2>3 DEF Reconcile
  <2>5. QED
    BY <2>1, <2>2, <2>4
<1>9. ASSUME NEW w \in Ws, NEW keep \in BOOLEAN, Finalize(w, keep)
      PROVE  TypeOK'
  <2>1. cr' \in [Ws -> CrStates]
    BY <1>9 DEF Finalize
  <2>2. comp' \in [Ws -> {"none", "down", "up"}]
    BY <1>9 DEF Finalize
  <2>3. vol' \in [Vols -> VolStates]
    BY <1>9, <1>v, <1>s, <1>h DEF Finalize
  <2>4. QED
    BY <1>9, <2>1, <2>2, <2>3 DEF Finalize
<1>10. CASE ApplyTemplate
  BY <1>10 DEF ApplyTemplate
<1>11. CASE ToggleImage
  <2>1. used' \in [pause : Nat, resume : Nat, toggle : Nat]
    BY <1>11 DEF ToggleImage
  <2>2. QED
    BY <1>11, <2>1 DEF ToggleImage
<1>12. CASE UNCHANGED vars
  BY <1>12 DEF vars
<1>13. QED
  BY Steps, <1>1, <1>2, <1>3, <1>4, <1>5, <1>6, <1>7, <1>7a, <1>8, <1>9, <1>10,
     <1>11, <1>12

\* Resumptions are only ever counted up.
LEMMA ResumesCount ==
  ASSUME TypeOK, [Next]_vars
  PROVE  used'.resume = 0 => used.resume = 0
<1> USE DEF TypeOK
<1>1. ASSUME NEW w \in Ws, AdmitResume(w)
      PROVE  used'.resume # 0
  BY <1>1 DEF AdmitResume
<1>2. QED
  BY Steps, <1>1 DEF AdmitCreate, Persist, Pause, Delete, DeleteVolume, Deliver, DeliverClaim,
       Reconcile, Finalize, ApplyTemplate, ToggleImage, vars

\* The three parts for one workspace.
ShapeAt(x) ==
  /\ req[x].op = "create" => cr[x].st = "none"
  /\ req[x].op = "resume" => used.resume # 0 /\ req[x].home = cr[x].home
  /\ req[x].op = "none" => req[x] = NoReq(x)
  /\ seen[x].st # "none" => cr[x].st # "none"
  /\ used.resume = 0 /\ seen[x].st # "none" /\ seen[x].paused => cr[x].paused
  /\ comp[x] # "none" => /\ tpl
                         /\ seen[x].st # "none"
                         /\ cr[x].st = "live" => seen[x].st = "live"

\* Every step keeps them.
LEMMA ShapeStep ==
  ASSUME TypeOK, Pending, Lagging, Provisioned, [Next]_vars
  PROVE  Pending' /\ Lagging' /\ Provisioned'
<1> SUFFICES ASSUME NEW x \in Ws PROVE ShapeAt(x)'
  BY DEF ShapeAt, Pending, Lagging, Provisioned
<1>0. ShapeAt(x)
  BY DEF ShapeAt, Pending, Lagging, Provisioned
<1>a. /\ cr[x] \in CrStates /\ seen[x] \in CrStates
      /\ req \in [Ws -> [op : {"none", "create", "resume"}, paused : BOOLEAN, home : Vols]]
      /\ used \in [pause : Nat, resume : Nat, toggle : Nat]
      /\ cr \in [Ws -> CrStates] /\ seen \in [Ws -> CrStates] /\ tpl \in BOOLEAN
      /\ comp \in [Ws -> {"none", "down", "up"}]
  BY DEF TypeOK
<1>b. used'.resume = 0 => used.resume = 0
  BY ResumesCount
<1>1. ASSUME NEW w \in Ws, NEW paused \in CreatePaused, NEW home \in Vols,
             AdmitCreate(w, paused, home)
      PROVE  ShapeAt(x)'
  BY <1>0, <1>1, <1>a DEF AdmitCreate, ShapeAt
<1>2. ASSUME NEW w \in Ws, AdmitResume(w)
      PROVE  ShapeAt(x)'
  <2>1. used'.resume # 0
    BY <1>2, <1>a DEF AdmitResume
  <2>2. QED
    BY <1>0, <1>2, <1>a, <2>1 DEF AdmitResume, ShapeAt
<1>3. ASSUME NEW w \in Ws, Persist(w)
      PROVE  ShapeAt(x)'
  <2>1. CASE x # w
    <3>1. cr'[x] = cr[x] /\ req'[x] = req[x]
      BY <1>3, <1>a, <2>1 DEF Persist
    <3>2. QED
      BY <1>0, <1>3, <3>1 DEF Persist, ShapeAt
  <2>2. CASE x = w /\ req[x].op = "create"
    <3>1. req'[x].op = "none" /\ req'[x] = NoReq(x)
      BY <1>3, <1>a, <2>2 DEF Persist, NoReq
    <3>2. cr'[x].st = "live"
      BY <1>3, <1>a, <2>2 DEF Persist
    <3>3. seen[x].st = "none" /\ comp[x] = "none"
      BY <1>0, <2>2 DEF ShapeAt
    <3>4. QED
      BY <1>3, <3>1, <3>2, <3>3 DEF Persist, ShapeAt
  <2>3. CASE x = w /\ req[x].op = "resume"
    <3>1. req'[x].op = "none" /\ req'[x] = NoReq(x)
      BY <1>3, <1>a, <2>3 DEF Persist, NoReq
    <3>2. used.resume # 0
      BY <1>0, <2>3 DEF ShapeAt
    <3>3. cr'[x].st = cr[x].st
      BY <1>3, <1>a, <2>3 DEF Persist
    <3>4. QED
      BY <1>0, <1>3, <3>1, <3>2, <3>3 DEF Persist, ShapeAt
  <2>4. ~(x = w /\ req[x].op = "none")
    BY <1>0, <1>3 DEF Persist, ShapeAt
  <2>5. req[x].op \in {"none", "create", "resume"}
    BY <1>a
  <2>6. QED
    BY <2>1, <2>2, <2>3, <2>4, <2>5
<1>4. ASSUME NEW w \in Ws, Pause(w)
      PROVE  ShapeAt(x)'
  <2>1. cr' = [cr EXCEPT ![w] = [cr[w] EXCEPT !.paused = TRUE]]
    BY <1>4 DEF Pause
  <2>2. cr'[x].st = cr[x].st
    BY <1>a, <2>1, PausedState
  <2>3. cr[x].paused => cr'[x].paused
    BY <1>a, <2>1, PausedState
  <2>4. used'.resume = used.resume
    BY <1>4, <1>a DEF Pause
  <2>5. QED
    BY <1>0, <1>4, <2>2, <2>3, <2>4 DEF Pause, ShapeAt
<1>5. ASSUME NEW w \in Ws, Delete(w)
      PROVE  ShapeAt(x)'
  <2>1. cr' = [cr EXCEPT ![w] = [cr[w] EXCEPT !.st = "deleting"]]
    BY <1>5 DEF Delete
  <2>2. cr'[x].paused = cr[x].paused
    BY <1>a, <2>1 DEF CrStates
  <2>3. cr'[x].st = cr[x].st \/ (cr[x].st = "live" /\ cr'[x].st = "deleting")
    BY <1>5, <1>a, <2>1 DEF CrStates, Delete
  <2>4. QED
    BY <1>0, <1>5, <2>2, <2>3 DEF Delete, ShapeAt
<1>6. ASSUME NEW v \in Vols, DeleteVolume(v)
      PROVE  ShapeAt(x)'
  BY <1>0, <1>6 DEF DeleteVolume, ShapeAt
<1>7a. ASSUME NEW v \in Vols, DeliverClaim(v)
      PROVE  ShapeAt(x)'
  BY <1>0, <1>7a DEF DeliverClaim, ShapeAt
<1>7. ASSUME NEW w \in Ws, Deliver(w)
      PROVE  ShapeAt(x)'
  <2>1. CASE x # w
    <3>1. seen'[x] = seen[x]
      BY <1>7, <1>a, <2>1 DEF Deliver
    <3>2. QED
      BY <1>0, <1>7, <3>1 DEF Deliver, ShapeAt
  <2>2. CASE x = w
    <3>1. seen'[x] = cr[x]
      BY <1>7, <1>a, <2>2 DEF Deliver
    <3>2. QED
      BY <1>0, <1>7, <3>1 DEF Deliver, ShapeAt
  <2>3. QED
    BY <2>1, <2>2
<1>8. ASSUME NEW w \in Ws, Reconcile(w)
      PROVE  ShapeAt(x)'
  <2>1. comp'[x] = comp[x] \/ (x = w /\ seen[x].st = "live" /\ tpl)
    BY <1>8, <1>a DEF Reconcile, Due, Refuse, Provision
  <2>2. QED
    BY <1>0, <1>8, <2>1 DEF Reconcile, ShapeAt
<1>9. ASSUME NEW w \in Ws, NEW keep \in BOOLEAN, Finalize(w, keep)
      PROVE  ShapeAt(x)'
  <2>1. cr' = [cr EXCEPT ![w] = [cr[w] EXCEPT !.st = "gone"]]
    BY <1>9 DEF Finalize
  <2>2. cr'[x].paused = cr[x].paused
    BY <1>a, <2>1 DEF CrStates
  <2>3. cr'[x].st = cr[x].st \/ (cr[x].st = "deleting" /\ cr'[x].st = "gone")
    BY <1>9, <1>a, <2>1 DEF CrStates, Finalize
  <2>4. comp'[x] = comp[x] \/ comp'[x] = "none"
    BY <1>9, <1>a DEF Finalize
  <2>5. QED
    BY <1>0, <1>9, <2>2, <2>3, <2>4 DEF Finalize, ShapeAt
<1>10. CASE ApplyTemplate
  BY <1>0, <1>10 DEF ApplyTemplate, ShapeAt
<1>11. CASE ToggleImage
  <2>1. used'.resume = used.resume
    BY <1>11, <1>a DEF ToggleImage
  <2>2. QED
    BY <1>0, <1>11, <2>1 DEF ToggleImage, ShapeAt
<1>12. CASE UNCHANGED vars
  BY <1>0, <1>12 DEF vars, ShapeAt
<1>13. QED
  BY Steps, <1>1, <1>2, <1>3, <1>4, <1>5, <1>6, <1>7, <1>7a, <1>8, <1>9, <1>10,
     <1>11, <1>12

-----------------------------------------------------------------------------
(* The caps.                                                               *)

\* The loads are natural numbers, before and after a step.
LEMMA LoadNat ==
  ASSUME TypeOK
  PROVE  Cpu \in [Ws -> Nat]
<1> SUFFICES ASSUME NEW w \in Ws
             PROVE  (IF tpl /\ ComputeKnown(w) THEN LoadOf(w) ELSE 0) \in Nat
  BY DEF Cpu
<1>1. Resources[w].limit \in Nat \cup {Unset} /\ Resources[w].request \in Nat \cup {Unset}
  BY SizesAssumption
<1>2. LoadOf(w) \in Nat \cup {Unset}
  BY <1>1, SizesAssumption DEF LoadOf
<1>3. QED
  BY <1>2 DEF ComputeKnown

\* Caps are numbers or absent.
LEMMA PolicyNat ==
  ASSUME TypeOK
  PROVE  /\ limits.running \in Nat \cup {Unlimited}
         /\ limits.cpu \in Nat \cup {Unlimited}
         /\ limits.storage \in Nat \cup {Unlimited}
BY LimitsAssumption DEF TypeOK

\* Nobody changes the policy.
LEMMA PolicyStays == ASSUME [Next]_vars PROVE limits' = limits
BY Steps DEF AdmitCreate, AdmitResume, Persist, Pause, Delete, DeleteVolume, Deliver,
     DeliverClaim, Reconcile, Finalize, ApplyTemplate, ToggleImage, vars

\* A set of workspaces within the caps on concurrent compute.
Capped(S) ==
  /\ Within(Cardinality(S), limits.running)
  /\ Within(Total(Cpu, S), limits.cpu)

\* Nothing is within every cap.
LEMMA EmptyCapped == ASSUME TypeOK PROVE Capped({})
<1>1. Cardinality({}) = 0 /\ IsFiniteSet({})
  BY FS_EmptySet
<1>2. Total(Cpu, {}) = 0
  BY <1>1, TotalStep
<1>3. limits.running \in Nat \cup {Unlimited} /\ limits.cpu \in Nat \cup {Unlimited}
  BY PolicyNat
<1>4. QED
  BY <1>1, <1>2, <1>3 DEF Capped, Within

\* A part of it is within them too.
LEMMA CappedPart ==
  ASSUME TypeOK, NEW B \in SUBSET Ws, NEW A \in SUBSET B, Capped(B)
  PROVE  Capped(A)
<1>1. IsFiniteSet(Ws) /\ IsFiniteSet(B) /\ IsFiniteSet(A)
  <2>1. IsFiniteSet(B)
    BY ScheduledAssumption, FS_Subset
  <2>2. QED
    BY <2>1, ScheduledAssumption, FS_Subset
<1>2. limits.running \in Nat \cup {Unlimited} /\ limits.cpu \in Nat \cup {Unlimited}
  BY PolicyNat
<1>3. Within(Cardinality(A), limits.running)
  <2>1. Cardinality(A) <= Cardinality(B) /\ Cardinality(A) \in Nat /\ Cardinality(B) \in Nat
    BY <1>1, FS_Subset, FS_CardinalityType
  <2>2. QED
    BY <1>2, <2>1 DEF Capped, Within
<1>4. Within(Total(Cpu, A), limits.cpu)
  <2>1. Cpu \in [Ws -> Nat]
    BY LoadNat
  <2>2. Total(Cpu, A) <= Total(Cpu, B)
    BY <1>1, <2>1, TotalMonotone
  <2>3. A \in SUBSET Ws
    OBVIOUS
  <2>4. Total(Cpu, A) \in Nat /\ Total(Cpu, B) \in Nat
    BY <1>1, <2>1, <2>3, TotalNat
  <2>5. QED
    BY <1>2, <2>2, <2>4 DEF Capped, Within
<1>5. QED
  BY <1>3, <1>4 DEF Capped

\* CheckLimits leaves room for the workspace it admits beside those it counts.
LEMMA RoomForOne ==
  ASSUME TypeOK, NEW w \in Ws, EvaluateGovernance(w)
  PROVE  Capped({x \in Ws : x # w /\ seen[x].st = "live" /\ ~seen[x].paused} \cup {w})
<1> DEFINE running == {x \in OwnerLoads(seen, {w}) : ~seen[x].paused}
           R == {x \in Ws : x # w /\ seen[x].st = "live" /\ ~seen[x].paused}
<1>1. running = R
  BY DEF OwnerLoads
<1>2. /\ Within(Cardinality(running) + 1, limits.running)
      /\ Within(Total(Cpu, running) + Cpu[w], limits.cpu)
  BY DEF EvaluateGovernance, Allowed, CheckLimits
<1>3. R \in SUBSET Ws /\ w \notin R
  OBVIOUS
<1> HIDE DEF running, R
<1>4. Cardinality(R \cup {w}) = Cardinality(R) + 1
  <2>1. IsFiniteSet(R)
    BY <1>3, ScheduledAssumption, FS_Subset
  <2>2. QED
    BY <1>3, <2>1, FS_AddElement
<1>5. Total(Cpu, R \cup {w}) = Total(Cpu, R) + Cpu[w]
  BY <1>3, LoadNat, ScheduledAssumption, TotalAdd
<1>6. Capped(R \cup {w})
  BY <1>1, <1>2, <1>4, <1>5 DEF Capped
<1>7. QED
  BY <1>6 DEF R

\* As long as nobody resumes, only the gate of the reconciler grants compute.
LEMMA GrantStep ==
  ASSUME TypeOK, Pending, Lagging, Provisioned, [Next]_vars, used'.resume = 0
  PROVE  \/ Granted' \subseteq Granted /\ tpl' = tpl
         \/ Granted' = {}
         \/ \E w \in Ws :
              /\ EvaluateGovernance(w)
              /\ Granted' \subseteq
                   {x \in Ws : x # w /\ seen[x].st = "live" /\ ~seen[x].paused} \cup {w}
              /\ tpl' = tpl
<1>b. used.resume = 0
  BY ResumesCount
<1>a. /\ cr \in [Ws -> CrStates] /\ seen \in [Ws -> CrStates] /\ tpl \in BOOLEAN
      /\ comp \in [Ws -> {"none", "down", "up"}]
      /\ used \in [pause : Nat, resume : Nat, toggle : Nat]
      /\ req \in [Ws -> [op : {"none", "create", "resume"}, paused : BOOLEAN, home : Vols]]
  BY DEF TypeOK
<1>1. ASSUME cr' = cr, comp' = comp
      PROVE  Granted' \subseteq Granted
  BY <1>1 DEF Granted
<1>2. ASSUME NEW w \in Ws, AdmitResume(w)
      PROVE  FALSE
  BY <1>2, <1>a DEF AdmitResume
<1>3. ASSUME NEW w \in Ws, Persist(w)
      PROVE  Granted' \subseteq Granted
  <2> SUFFICES ASSUME NEW x \in Ws, x \in Granted' PROVE x \in Granted
    BY DEF Granted
  <2>1. comp[x] # "none" /\ cr'[x].st = "live" /\ ~cr'[x].paused
    BY <1>3 DEF Granted, Persist
  <2>2. cr[x].st # "none"
    BY <2>1 DEF Provisioned, Lagging
  <2>3. x # w \/ (req[w].op # "create" /\ req[w].op # "resume" /\ req[w].op # "none")
    BY <1>3, <1>b, <2>2 DEF Pending, Persist
  <2>4. x # w
    BY <1>a, <2>3
  <2>5. cr'[x] = cr[x]
    BY <1>3, <1>a, <2>4 DEF Persist
  <2>6. QED
    BY <2>1, <2>5 DEF Granted
<1>4. ASSUME NEW w \in Ws, Pause(w)
      PROVE  Granted' \subseteq Granted
  <2>1. cr' = [cr EXCEPT ![w] = [cr[w] EXCEPT !.paused = TRUE]] /\ comp' = comp
    BY <1>4 DEF Pause
  <2>2. \A x \in Ws : x # w => cr'[x] = cr[x]
    BY <1>a, <2>1
  <2>3. cr'[w].paused
    BY <1>a, <2>1, PausedState
  <2>4. QED
    BY <2>1, <2>2, <2>3 DEF Granted
<1>5. ASSUME NEW w \in Ws, Delete(w)
      PROVE  Granted' \subseteq Granted
  <2>1. cr' = [cr EXCEPT ![w] = [cr[w] EXCEPT !.st = "deleting"]] /\ comp' = comp
    BY <1>5 DEF Delete
  <2>2. \A x \in Ws : x # w => cr'[x] = cr[x]
    BY <1>a, <2>1
  <2>3. cr'[w].st = "deleting"
    BY <1>a, <2>1 DEF CrStates
  <2>4. QED
    BY <2>1, <2>2, <2>3 DEF Granted
<1>6. ASSUME NEW w \in Ws, NEW keep \in BOOLEAN, Finalize(w, keep)
      PROVE  Granted' \subseteq Granted
  <2>1. cr' = [cr EXCEPT ![w] = [cr[w] EXCEPT !.st = "gone"]]
    BY <1>6 DEF Finalize
  <2>2. \A x \in Ws : x # w => cr'[x] = cr[x] /\ comp'[x] = comp[x]
    BY <1>6, <1>a, <2>1 DEF Finalize
  <2>3. cr'[w].st = "gone"
    BY <1>a, <2>1 DEF CrStates
  <2>4. QED
    BY <2>2, <2>3 DEF Granted
<1>7. CASE ApplyTemplate
  <2>1. \A x \in Ws : comp'[x] = "none"
    BY <1>7 DEF ApplyTemplate, Provisioned
  <2>2. Granted' = {}
    BY <2>1 DEF Granted
  <2>3. QED
    BY <2>2
<1>8. ASSUME NEW w \in Ws, Reconcile(w)
      PROVE  \/ Granted' \subseteq Granted
             \/ /\ EvaluateGovernance(w)
                /\ Granted' \subseteq
                     {x \in Ws : x # w /\ seen[x].st = "live" /\ ~seen[x].paused} \cup {w}
  <2>1. cr' = cr /\ \A x \in Ws : x # w => comp'[x] = comp[x]
    BY <1>8, <1>a DEF Reconcile, Refuse, Provision
  <2>2. CASE comp'[w] = "none" \/ comp[w] # "none"
    BY <2>1, <2>2 DEF Granted
  <2>3. CASE comp[w] = "none" /\ comp'[w] # "none" /\ seen[w].paused
    <3>1. cr[w].paused
      BY <1>8, <1>b, <2>3 DEF Lagging, Reconcile, Due
    <3>2. QED
      BY <2>1, <3>1 DEF Granted
  <2>4. CASE comp[w] = "none" /\ comp'[w] # "none" /\ ~seen[w].paused
    <3>1. Gated(w) /\ ~Refuse(w)
      BY <2>4 DEF Gated, Refuse
    <3>2. EvaluateGovernance(w)
      BY <1>8, <3>1 DEF Reconcile
    <3>3. ASSUME NEW x \in Ws, x \in Granted', x # w
          PROVE  seen[x].st = "live" /\ ~seen[x].paused
      <4>1. comp[x] # "none" /\ cr[x].st = "live" /\ ~cr[x].paused
        BY <2>1, <3>3 DEF Granted
      <4>2. seen[x].st = "live"
        BY <4>1 DEF Provisioned
      <4>3. QED
        BY <1>b, <4>1, <4>2 DEF Lagging
    <3>4. Granted' \subseteq Ws
      BY DEF Granted
    <3>5. QED
      BY <3>2, <3>3, <3>4
  <2>5. QED
    BY <2>2, <2>3, <2>4
<1>9. QED
  BY Steps, <1>1, <1>2, <1>3, <1>4, <1>5, <1>6, <1>7, <1>8
     DEF AdmitCreate, Persist, Pause, Delete, DeleteVolume, Deliver, DeliverClaim, Reconcile, Finalize,
         ToggleImage, vars

\* The invariant holds at the start.
LEMMA InitInv == Init => IInv
<1> SUFFICES ASSUME Init PROVE IInv
  OBVIOUS
<1>1. TypeOK
  <2>1. \A w \in Ws : /\ NoCr(w) \in CrStates
                     /\ NoReq(w) \in [op : {"none", "create", "resume"}, paused : BOOLEAN,
                                       home : Vols]
    BY DEF NoCr, NoReq, CrStates, Vols
  <2>2. cr \in [Ws -> CrStates] /\ seen \in [Ws -> CrStates]
    BY <2>1 DEF Init
  <2>3. req \in [Ws -> [op : {"none", "create", "resume"}, paused : BOOLEAN, home : Vols]]
    BY <2>1 DEF Init
  <2>4. NoVol \in VolStates /\ \A size \in Nat : Retained(size) \in VolStates
    BY DEF NoVol, Retained, VolStates
  <2>5. \A v \in Vols : (IF v \in Kept THEN Retained(KeptSize[v]) ELSE NoVol) \in VolStates
    BY <2>4, SizesAssumption
  <2>6. vol \in [Vols -> VolStates] /\ seenVol \in [Vols -> VolStates]
    BY <2>5 DEF Init
  <2>7. used \in [pause : Nat, resume : Nat, toggle : Nat]
    BY DEF Init
  <2>8. limits \in Policies /\ tpl \in BOOLEAN /\ img \in BOOLEAN /\ refused \subseteq Ws
    BY DEF Init
  <2>9. comp \in [Ws -> {"none", "down", "up"}]
    BY DEF Init
  <2>10. QED
    BY <2>2, <2>3, <2>6, <2>7, <2>8, <2>9 DEF TypeOK
<1>2. Pending /\ Lagging /\ Provisioned
  BY DEF Init, Pending, Lagging, Provisioned, NoCr, NoReq
<1>3. GrantedWithinQuota
  <2>1. Granted = {}
    BY DEF Init, Granted
  <2>2. Capped(Granted)
    BY <1>1, <2>1, EmptyCapped
  <2>3. QED
    BY <2>2 DEF GrantedWithinQuota, ConcurrencyCapped, Capped
<1>4. QED
  BY <1>1, <1>2, <1>3 DEF IInv

\* Every step keeps the caps as long as nobody resumes.
LEMMA QuotaStep ==
  ASSUME IInv, [Next]_vars
  PROVE  GrantedWithinQuota'
<1> SUFFICES ASSUME used'.resume = 0 PROVE ConcurrencyCapped'
  BY DEF GrantedWithinQuota
<1>1. TypeOK /\ Pending /\ Lagging /\ Provisioned /\ GrantedWithinQuota
  BY DEF IInv
<1>2. TypeOK'
  BY <1>1, TypeStep
<1>3. Capped(Granted)
  BY <1>1, ResumesCount DEF GrantedWithinQuota, ConcurrencyCapped, Capped
<1>4. ASSUME NEW S \in SUBSET Ws, Capped(S), Granted' \subseteq S, tpl' = tpl
      PROVE  ConcurrencyCapped'
  <2>1. Capped(Granted')
    BY <1>1, <1>4, CappedPart
  <2>2. Cpu' = Cpu /\ limits' = limits
    BY <1>4, PolicyStays DEF Cpu
  <2>3. QED
    BY <2>1, <2>2 DEF ConcurrencyCapped, Capped
<1>5. CASE Granted' \subseteq Granted /\ tpl' = tpl
  <2>1. Granted \in SUBSET Ws
    BY DEF Granted
  <2>2. QED
    BY <1>3, <1>4, <1>5, <2>1
<1>6. CASE Granted' = {}
  <2>1. Cardinality({}) = 0 /\ IsFiniteSet({})
    BY FS_EmptySet
  <2>2. Total(Cpu', {}) = 0
    BY <2>1, TotalStep
  <2>3. limits.running \in Nat \cup {Unlimited} /\ limits.cpu \in Nat \cup {Unlimited}
    BY <1>1, PolicyNat
  <2>4. QED
    BY <1>6, <2>1, <2>2, <2>3, PolicyStays DEF ConcurrencyCapped, Within
<1>7. ASSUME NEW w \in Ws, EvaluateGovernance(w), tpl' = tpl,
             Granted' \subseteq
               {x \in Ws : x # w /\ seen[x].st = "live" /\ ~seen[x].paused} \cup {w}
      PROVE  ConcurrencyCapped'
  <2> DEFINE S == {x \in Ws : x # w /\ seen[x].st = "live" /\ ~seen[x].paused} \cup {w}
  <2>1. S \in SUBSET Ws /\ Granted' \subseteq S
    BY <1>7
  <2>2. Capped(S)
    BY <1>1, <1>7, RoomForOne
  <2> HIDE DEF S
  <2>3. QED
    BY <1>4, <1>7, <2>1, <2>2
<1>8. QED
  BY <1>1, <1>5, <1>6, <1>7, GrantStep

\* Every step keeps the invariant.
LEMMA NextInv == IInv /\ [Next]_vars => IInv'
<1> SUFFICES ASSUME IInv, [Next]_vars PROVE IInv'
  OBVIOUS
<1>1. TypeOK /\ Pending /\ Lagging /\ Provisioned
  BY DEF IInv
<1>2. TypeOK'
  BY <1>1, TypeStep
<1>3. Pending' /\ Lagging' /\ Provisioned'
  BY <1>1, ShapeStep
<1>4. QED
  BY <1>2, <1>3, QuotaStep DEF IInv

\* The inductive invariant holds throughout.
LEMMA InvHolds == Spec => []IInv
<1>1. QED
  BY InitInv, NextInv, PTL DEF Spec

\* Type correctness of workspaces, requests, caches, compute and volumes: a
\* request in flight and what the reconciler has seen are values the API
\* server may hold.
THEOREM TypesHold == Spec => []TypeOK
<1>1. IInv => TypeOK
  BY DEF IInv
<1>2. QED
  BY InvHolds, <1>1, PTL

\* siblingLoads ("of two creates racing through admission only one may get
\* compute"): whatever the order of admissions, stores, cache deliveries and
\* reconciles, however many workspaces the owner has and whatever the policy,
\* the number and the compute of the workspaces that were granted
\* stay within the caps as long as nobody resumes one.
THEOREM CreatesWithinQuota == Spec => []GrantedWithinQuota
<1>1. IInv => GrantedWithinQuota
  BY DEF IInv
<1>2. QED
  BY InvHolds, <1>1, PTL

-----------------------------------------------------------------------------
(* The storage cap.                                                        *)

\* Smaller sizes weigh no more.
LEMMA TotalSmaller ==
  ASSUME NEW W, IsFiniteSet(W), NEW size \in [W -> Nat], NEW kept \in [W -> Nat],
         \A v \in W : size[v] <= kept[v]
  PROVE  Total(size, W) <= Total(kept, W)
<1> DEFINE P == {U \in SUBSET W : Total(size, U) <= Total(kept, U)}
<1>1. \A U \in SUBSET W : (\A V \in SUBSET U : V # U => V \in P) => U \in P
  <2> SUFFICES ASSUME NEW U \in SUBSET W, \A V \in SUBSET U : V # U => V \in P
               PROVE  Total(size, U) <= Total(kept, U)
    OBVIOUS
  <2>0. IsFiniteSet(U)
    BY FS_Subset
  <2>1. CASE U = {}
    <3>1. Total(size, U) = 0 /\ Total(kept, U) = 0
      BY <2>0, <2>1, TotalStep
    <3>2. QED
      BY <3>1
  <2>2. CASE U # {}
    <3> DEFINE u == Pick(U)
               V == U \ {u}
    <3>1. u \in W /\ V \in SUBSET U /\ V # U /\ V \in SUBSET W
      BY <2>2, PickIn
    <3>2. Total(size, U) = size[u] + Total(size, V)
      BY <2>0, <2>2, TotalStep
    <3>3. Total(kept, U) = kept[u] + Total(kept, V)
      BY <2>0, <2>2, TotalStep
    <3>4. Total(size, V) <= Total(kept, V)
      BY <3>1
    <3> HIDE DEF u, V
    <3>5. Total(size, V) \in Nat /\ Total(kept, V) \in Nat
      BY <3>1, TotalNat
    <3>6. size[u] \in Nat /\ kept[u] \in Nat /\ size[u] <= kept[u]
      BY <3>1
    <3>7. QED
      BY <3>2, <3>3, <3>4, <3>5, <3>6
  <2>3. QED
    BY <2>1, <2>2
<1> HIDE DEF P
<1>2. \A U \in SUBSET W : U \in P
  BY <1>1, SubsetInduction
<1>3. W \in P
  BY <1>2
<1>4. QED
  BY <1>3 DEF P

\* A sum over W is covered by the weights of the images of H, which f tells
\* apart, and by the sizes counted for R, when nothing else weighs anything.
LEMMA TotalCovered ==
  ASSUME NEW W, IsFiniteSet(W), NEW X, IsFiniteSet(X),
         NEW size \in [W -> Nat], NEW weight \in [X -> Nat], NEW kept \in [W -> Nat],
         NEW H \in SUBSET W, NEW R \in SUBSET W, H \cap R = {},
         NEW f \in [H -> X], \A u, v \in H : f[u] = f[v] => u = v,
         \A v \in H : size[v] <= weight[f[v]],
         \A v \in R : size[v] <= kept[v],
         \A v \in W : v \notin H /\ v \notin R => size[v] = 0
  PROVE  Total(size, W) <= Total(weight, {f[v] : v \in H}) + Total(kept, R)
<1> DEFINE Im(U) == {f[v] : v \in H \cap U}
           P == {U \in SUBSET W : Total(size, U) <= Total(weight, Im(U)) + Total(kept, R \cap U)}
<1>0. \A U \in SUBSET W :
        /\ Im(U) \in SUBSET X /\ R \cap U \in SUBSET W
        /\ Total(size, U) \in Nat /\ Total(weight, Im(U)) \in Nat
        /\ Total(kept, R \cap U) \in Nat
  <2> TAKE U \in SUBSET W
  <2>1. Im(U) \in SUBSET X /\ R \cap U \in SUBSET W
    OBVIOUS
  <2> HIDE DEF Im
  <2>2. Total(size, U) \in Nat
    BY TotalNat
  <2>3. Total(weight, Im(U)) \in Nat
    BY <2>1, TotalNat
  <2>4. Total(kept, R \cap U) \in Nat
    BY <2>1, TotalNat
  <2>5. QED
    BY <2>1, <2>2, <2>3, <2>4
<1>1. \A U \in SUBSET W : (\A V \in SUBSET U : V # U => V \in P) => U \in P
  <2> SUFFICES ASSUME NEW U \in SUBSET W, \A V \in SUBSET U : V # U => V \in P
               PROVE  Total(size, U) <= Total(weight, Im(U)) + Total(kept, R \cap U)
    OBVIOUS
  <2>1. CASE U = {}
    <3>1. Total(size, U) = 0
      BY <2>1, FS_EmptySet, TotalStep
    <3>2. QED
      BY <1>0, <3>1
  <2>2. CASE U # {}
    <3>1. PICK u \in U : TRUE
      BY <2>2
    <3> DEFINE V == U \ {u}
    <3>2. V \in SUBSET W /\ V \in SUBSET U /\ V # U /\ u \in W /\ u \notin V /\ U = V \cup {u}
      OBVIOUS
    <3>3. Total(size, V) <= Total(weight, Im(V)) + Total(kept, R \cap V)
      BY <3>2
    <3>4. \/ u \in H /\ Im(U) = Im(V) \cup {f[u]} /\ f[u] \notin Im(V) /\ R \cap U = R \cap V
          \/ u \in R /\ Im(U) = Im(V) /\ R \cap U = (R \cap V) \cup {u} /\ u \notin R \cap V
          \/ u \notin H /\ u \notin R /\ Im(U) = Im(V) /\ R \cap U = R \cap V
      <4>1. CASE u \in H
        <5>1. Im(U) = Im(V) \cup {f[u]}
          BY <3>2, <4>1
        <5>2. f[u] \notin Im(V)
          BY <3>2, <4>1
        <5>3. R \cap U = R \cap V
          BY <3>2, <4>1
        <5>4. QED
          BY <4>1, <5>1, <5>2, <5>3
      <4>2. CASE u \notin H
        <5>1. H \cap U = H \cap V
          BY <3>2, <4>2
        <5>2. Im(U) = Im(V)
          BY <5>1
        <5>3. CASE u \in R
          <6>1. R \cap U = (R \cap V) \cup {u} /\ u \notin R \cap V
            BY <5>3
          <6>2. QED
            BY <5>2, <5>3, <6>1
        <5>4. CASE u \notin R
          <6>1. R \cap U = R \cap V
            BY <5>4
          <6>2. QED
            BY <4>2, <5>2, <5>4, <6>1
        <5>5. QED
          BY <5>3, <5>4
      <4>3. QED
        BY <4>1, <4>2
    <3>5. /\ Im(V) \in SUBSET X /\ R \cap V \in SUBSET W
          /\ Total(size, V) \in Nat /\ Total(weight, Im(V)) \in Nat
          /\ Total(kept, R \cap V) \in Nat
      BY <1>0, <3>2
    <3> HIDE DEF V, Im
    <3>6. Total(size, U) = Total(size, V) + size[u] /\ size[u] \in Nat
      BY <3>2, TotalAdd
    <3>7. CASE u \in H /\ Im(U) = Im(V) \cup {f[u]} /\ f[u] \notin Im(V) /\ R \cap U = R \cap V
      <4>1. f[u] \in X /\ weight[f[u]] \in Nat /\ size[u] <= weight[f[u]]
        BY <3>7
      <4>2. Total(weight, Im(U)) = Total(weight, Im(V)) + weight[f[u]]
        BY <3>5, <3>7, <4>1, TotalAdd
      <4>3. Total(kept, R \cap U) = Total(kept, R \cap V)
        BY <3>7
      <4>4. QED
        BY <3>3, <3>5, <3>6, <4>1, <4>2, <4>3
    <3>8. CASE u \in R /\ Im(U) = Im(V) /\ R \cap U = (R \cap V) \cup {u} /\ u \notin R \cap V
      <4>1. kept[u] \in Nat /\ size[u] <= kept[u]
        BY <3>2, <3>8
      <4>2. Total(kept, R \cap U) = Total(kept, R \cap V) + kept[u]
        BY <3>2, <3>5, <3>8, TotalAdd
      <4>3. Total(weight, Im(U)) = Total(weight, Im(V))
        BY <3>8
      <4>4. QED
        BY <3>3, <3>5, <3>6, <4>1, <4>2, <4>3
    <3>9. CASE u \notin H /\ u \notin R /\ Im(U) = Im(V) /\ R \cap U = R \cap V
      <4>1. size[u] = 0
        BY <3>2, <3>9
      <4>2. Total(weight, Im(U)) = Total(weight, Im(V))
        BY <3>9
      <4>3. Total(kept, R \cap U) = Total(kept, R \cap V)
        BY <3>9
      <4>4. QED
        BY <3>3, <3>5, <3>6, <4>1, <4>2, <4>3
    <3>10. QED
      BY <3>4, <3>7, <3>8, <3>9
  <2>3. QED
    BY <2>1, <2>2
<1> HIDE DEF P
<1>2. W \in P
  <2>1. \A U \in SUBSET W : U \in P
    BY <1>1, SubsetInduction
  <2>2. W \in SUBSET W
    OBVIOUS
  <2>3. QED
    BY <2>1, <2>2
<1> USE DEF P
<1>3. Total(size, W) <= Total(weight, Im(W)) + Total(kept, R \cap W)
  BY <1>2
<1>4. Im(W) = {f[v] : v \in H} /\ R \cap W = R
  OBVIOUS
<1>5. QED
  BY <1>3, <1>4

\* What the operator knows of the owner's volumes while workspaces are only
\* created: retained volumes as they are, homes as homes, and every workspace
\* with compute has one.
VolumesKnown ==
  /\ \A v \in Vols : vol[v].st = "none" => vol[v].size = 0
  /\ \A v \in Vols : seenVol[v].of # {} => seenVol[v].st = "home"
  /\ \A v \in Vols : vol[v].of # {} => vol[v].st = "home"
  /\ \A w \in Ws : seen[w].st # "none" => seen[w].home = cr[w].home
  /\ OnlyCreated =>
       /\ \A v \in Vols : vol[v].st = "retained" => seenVol[v] = vol[v]
       /\ \A v \in Vols : seenVol[v].st = "home" => vol[v].st = "home"
       /\ \A w \in Ws : comp[w] # "none" => vol[cr[w].home].st = "home"

SInv == IInv /\ VolumesKnown /\ HomesWithinQuota

\* Once a workspace was paused, resumed or deleted it stays so.
LEMMA OnlyCreatedBefore ==
  ASSUME IInv, [Next]_vars, OnlyCreated'
  PROVE  OnlyCreated
<1>a. TypeOK /\ Pending
  BY DEF IInv
<1>b. /\ cr \in [Ws -> CrStates] /\ used.resume = 0
      /\ req \in [Ws -> [op : {"none", "create", "resume"}, paused : BOOLEAN, home : Vols]]
  BY <1>a, ResumesCount DEF TypeOK, OnlyCreated
<1>1. SUFFICES ASSUME NEW x \in Ws, cr[x].st # "none"
               PROVE  cr[x].st = "live" /\ ~cr[x].paused
  BY <1>b DEF OnlyCreated
<1>c. cr'[x].st # "none" => cr'[x].st = "live" /\ ~cr'[x].paused
  BY DEF OnlyCreated
<1>2. CASE cr'[x] = cr[x]
  BY <1>1, <1>2, <1>c
<1>3. ASSUME NEW w \in Ws, Persist(w), cr'[x] # cr[x]
      PROVE  FALSE
  <2>1. x = w
    BY <1>3, <1>b DEF Persist
  <2>2. req[x].op \in {"create", "resume"}
    BY <1>3, <1>a, <1>b, <2>1 DEF Persist, Pending
  <2>3. QED
    BY <1>1, <1>a, <1>b, <2>1, <2>2 DEF Pending
<1>4. ASSUME NEW w \in Ws, Pause(w), cr'[x] # cr[x]
      PROVE  FALSE
  <2>1. cr' = [cr EXCEPT ![w] = [cr[w] EXCEPT !.paused = TRUE]]
    BY <1>4 DEF Pause
  <2>2. x = w /\ cr'[x].paused /\ cr'[x].st = "live"
    BY <1>4, <1>b, <2>1, PausedState DEF Pause
  <2>3. QED
    BY <1>c, <2>2
<1>5. ASSUME NEW w \in Ws, Delete(w), cr'[x] # cr[x]
      PROVE  FALSE
  <2>1. x = w /\ cr'[x].st = "deleting"
    BY <1>5, <1>b DEF Delete, CrStates
  <2>2. QED
    BY <1>c, <2>1
<1>6. ASSUME NEW w \in Ws, NEW keep \in BOOLEAN, Finalize(w, keep), cr'[x] # cr[x]
      PROVE  FALSE
  <2>1. x = w /\ cr'[x].st = "gone"
    BY <1>6, <1>b DEF Finalize, CrStates
  <2>2. QED
    BY <1>c, <2>1
<1>7. QED
  BY Steps, <1>2, <1>3, <1>4, <1>5, <1>6
     DEF AdmitCreate, AdmitResume, DeleteVolume, Deliver, DeliverClaim, Reconcile,
         ApplyTemplate, ToggleImage, vars

\* A workspace that exists keeps its home for good.
LEMMA HomeStays ==
  ASSUME IInv, [Next]_vars, NEW x \in Ws, cr[x].st # "none"
  PROVE  cr'[x].home = cr[x].home /\ cr'[x].st # "none"
<1>a. TypeOK /\ Pending
  BY DEF IInv
<1>b. /\ cr \in [Ws -> CrStates]
      /\ req \in [Ws -> [op : {"none", "create", "resume"}, paused : BOOLEAN, home : Vols]]
  BY <1>a DEF TypeOK
<1>1. CASE cr'[x] = cr[x]
  BY <1>1
<1>3. ASSUME NEW w \in Ws, Persist(w), cr'[x] # cr[x]
      PROVE  cr'[x].home = cr[x].home /\ cr'[x].st # "none"
  <2>1. x = w /\ cr'[x] = [st |-> "live", paused |-> req[w].paused, home |-> req[w].home]
    BY <1>3, <1>b DEF Persist
  <2>2. req[x].op = "resume"
    BY <1>3, <1>a, <1>b, <2>1 DEF Persist, Pending
  <2>3. req[x].home = cr[x].home
    BY <1>a, <2>2 DEF Pending
  <2>4. QED
    BY <2>1, <2>3
<1>4. ASSUME NEW w \in Ws, Pause(w)
      PROVE  cr'[x].home = cr[x].home /\ cr'[x].st # "none"
  BY <1>4, <1>b DEF Pause, CrStates
<1>5. ASSUME NEW w \in Ws, Delete(w)
      PROVE  cr'[x].home = cr[x].home /\ cr'[x].st # "none"
  BY <1>5, <1>b DEF Delete, CrStates
<1>6. ASSUME NEW w \in Ws, NEW keep \in BOOLEAN, Finalize(w, keep)
      PROVE  cr'[x].home = cr[x].home /\ cr'[x].st # "none"
  BY <1>6, <1>b DEF Finalize, CrStates
<1>7. QED
  BY Steps, <1>1, <1>3, <1>4, <1>5, <1>6
     DEF AdmitCreate, AdmitResume, DeleteVolume, Deliver, DeliverClaim, Reconcile,
         ApplyTemplate, ToggleImage, vars

\* The claims, volume by volume.
VolAt(v) ==
  /\ vol[v].st = "none" => vol[v].size = 0
  /\ seenVol[v].of # {} => seenVol[v].st = "home"
  /\ vol[v].of # {} => vol[v].st = "home"
  /\ OnlyCreated => /\ vol[v].st = "retained" => seenVol[v] = vol[v]
                    /\ seenVol[v].st = "home" => vol[v].st = "home"

\* ensureHomePVC leaves the workspace with a home, the one that was there or a
\* new one of its template's size.
LEMMA HomeEnsured ==
  ASSUME TypeOK, VolumesKnown, NEW w \in Ws, Due(w),
         MustRelabel(w) => seenVol[seen[w].home] = vol[seen[w].home]
  PROVE  LET now == vol[seen[w].home]
         IN /\ EnsuredHome(w).of # {} => EnsuredHome(w).st = "home"
            /\ EnsuredHome(w).st = "none" => EnsuredHome(w).size = 0
            /\ now.st = "home" => EnsuredHome(w).st = "home"
            /\ now.st # "none" => EnsuredHome(w).size = now.size
            /\ now.st = "none" => EnsuredHome(w).size \in {0, Home[w]}
            /\ EnsuredHome(w).st = "retained" => EnsuredHome(w) = now
            /\ OnlyCreated => EnsuredHome(w).st = "home"
<1> DEFINE h == seen[w].home
<1>a. h \in Vols /\ vol[h] \in VolStates /\ seenVol[h] \in VolStates
  BY DEF TypeOK, CrStates
<1>b. VolAt(h)
  BY <1>a DEF VolumesKnown, VolAt
<1> HIDE DEF h
<1>1. CASE MustRelabel(w)
  <2>0. seenVol[h].st # "none"
    BY <1>1 DEF MustRelabel, h
  <2>1. EnsuredHome(w) = HomeOf(w, vol[h].size)
    BY <1>1, <2>0 DEF EnsuredHome, h
  <2>2. vol[h].st # "none"
    BY <1>1 DEF MustRelabel, h
  <2>3. QED
    BY <2>1, <2>2 DEF HomeOf, h
<1>2. CASE ~MustRelabel(w) /\ seenVol[h].st = "none" /\ vol[h].st = "none"
  <2>1. EnsuredHome(w) = HomeOf(w, Home[w])
    BY <1>2 DEF EnsuredHome, h
  <2>2. QED
    BY <1>2, <2>1 DEF HomeOf, h
<1>3. CASE ~MustRelabel(w) /\ ~(seenVol[h].st = "none" /\ vol[h].st = "none")
  <2>1. EnsuredHome(w) = vol[h]
    BY <1>3 DEF EnsuredHome, h
  <2>2. OnlyCreated => vol[h].st = "home"
    <3>1. CASE seenVol[h].st = "none"
      <4>1. vol[h].st \in {"home", "retained"}
        BY <1>3, <1>a, <3>1 DEF VolStates
      <4>2. OnlyCreated => vol[h].st # "retained"
        BY <1>b, <3>1 DEF VolAt
      <4>3. QED
        BY <4>1, <4>2
    <3>2. CASE seenVol[h].st # "none"
      <4>1. seenVol[h].of = {w}
        BY <1>3, <3>2 DEF MustRelabel, h
      <4>2. seenVol[h].st = "home"
        BY <1>b, <4>1 DEF VolAt
      <4>3. QED
        BY <1>b, <4>2 DEF VolAt
    <3>3. QED
      BY <3>1, <3>2
  <2>3. QED
    BY <1>b, <2>1, <2>2 DEF VolAt, h
<1>4. QED
  BY <1>1, <1>2, <1>3

\* Every step keeps what is known of each volume.
LEMMA VolAtStep ==
  ASSUME IInv, VolumesKnown, [Next]_vars, NEW v \in Vols
  PROVE  VolAt(v)'
<1>a. /\ TypeOK /\ VolAt(v)
      /\ vol \in [Vols -> VolStates] /\ seenVol \in [Vols -> VolStates]
      /\ seen \in [Ws -> CrStates] /\ cr \in [Ws -> CrStates]
  BY DEF IInv, VolumesKnown, VolAt, TypeOK
<1>b. OnlyCreated' => OnlyCreated
  BY OnlyCreatedBefore
<1>1. CASE vol'[v] = vol[v] /\ seenVol'[v] = seenVol[v]
  BY <1>1, <1>a, <1>b DEF VolAt
<1>2. CASE vol'[v] = vol[v] /\ seenVol'[v] = vol[v]
  BY <1>2, <1>a, <1>b DEF VolAt
<1>3. ASSUME NEW x \in Vols, DeleteVolume(x), vol'[v] # vol[v]
      PROVE  VolAt(v)'
  <2>1. x = v /\ vol'[v] = NoVol /\ seenVol' = seenVol
    BY <1>3, <1>a DEF DeleteVolume
  <2>2. OnlyCreated => seenVol[v].st = "retained"
    BY <1>3, <1>a, <2>1 DEF DeleteVolume, VolAt
  <2>3. QED
    BY <1>a, <1>b, <2>1, <2>2 DEF VolAt, NoVol
<1>4. ASSUME NEW w \in Ws, Reconcile(w), vol'[v] # vol[v]
      PROVE  VolAt(v)'
  <2>1. /\ Due(w) /\ v = seen[w].home /\ vol'[v] = EnsuredHome(w) /\ seenVol' = seenVol
        /\ MustRelabel(w) => seenVol[seen[w].home] = vol[seen[w].home]
    BY <1>4, <1>a DEF Reconcile, Refuse, Provision
  <2>2. /\ EnsuredHome(w).of # {} => EnsuredHome(w).st = "home"
        /\ EnsuredHome(w).st = "none" => EnsuredHome(w).size = 0
        /\ EnsuredHome(w).st = "retained" => EnsuredHome(w) = vol[v]
        /\ OnlyCreated => EnsuredHome(w).st = "home"
    BY <1>a, <2>1, HomeEnsured
  <2>3. QED
    BY <1>4, <1>a, <1>b, <2>1, <2>2 DEF VolAt
<1>5. ASSUME NEW w \in Ws, NEW keep \in BOOLEAN, Finalize(w, keep), vol'[v] # vol[v]
      PROVE  VolAt(v)'
  <2>1. vol'[v] \in {Retained(vol[v].size), NoVol} /\ seenVol' = seenVol
    BY <1>5, <1>a DEF Finalize
  <2>2. cr'[w].st = "gone"
    BY <1>5, <1>a DEF Finalize, CrStates
  <2>3. ~OnlyCreated'
    BY <2>2 DEF OnlyCreated
  <2>4. QED
    BY <1>a, <2>1, <2>3 DEF VolAt, Retained, NoVol
<1>6. QED
  BY Steps, <1>a, <1>1, <1>2, <1>3, <1>4, <1>5
     DEF AdmitCreate, AdmitResume, Persist, Pause, Delete, DeleteVolume, Deliver,
         DeliverClaim, Reconcile, Finalize, ApplyTemplate, ToggleImage, vars

\* Every step keeps VolumesKnown.
LEMMA VolumesStep ==
  ASSUME IInv, VolumesKnown, [Next]_vars
  PROVE  VolumesKnown'
<1>a. /\ TypeOK /\ Lagging /\ Provisioned
      /\ vol \in [Vols -> VolStates] /\ seenVol \in [Vols -> VolStates]
      /\ seen \in [Ws -> CrStates] /\ cr \in [Ws -> CrStates]
      /\ comp \in [Ws -> {"none", "down", "up"}]
  BY DEF IInv, TypeOK
<1>1. \A v \in Vols : VolAt(v)'
  BY VolAtStep
<1>2. ASSUME NEW w \in Ws, seen'[w].st # "none"
      PROVE  seen'[w].home = cr'[w].home
  <2>1. CASE seen'[w] = seen[w]
    <3>1. cr[w].st # "none" /\ seen[w].home = cr[w].home
      BY <1>2, <1>a, <2>1 DEF Lagging, VolumesKnown
    <3>2. QED
      BY <2>1, <3>1, HomeStays
  <2>2. ASSUME NEW x \in Ws, Deliver(x), seen'[w] # seen[w]
        PROVE  seen'[w].home = cr'[w].home
    BY <2>2, <1>a DEF Deliver
  <2>3. QED
    BY Steps, <2>1, <2>2
       DEF AdmitCreate, AdmitResume, Persist, Pause, Delete, DeleteVolume, DeliverClaim,
           Reconcile, Finalize, ApplyTemplate, ToggleImage, vars
<1>3. ASSUME OnlyCreated', NEW w \in Ws, comp'[w] # "none"
      PROVE  vol'[cr'[w].home].st = "home"
  <2>1. OnlyCreated
    BY <1>3, OnlyCreatedBefore
  <2>2. \A v \in Vols : vol[v].st = "home" => vol'[v].st = "home"
    <3> SUFFICES ASSUME NEW v \in Vols, vol[v].st = "home" PROVE vol'[v].st = "home"
      OBVIOUS
    <3>1. ASSUME NEW x \in Vols, DeleteVolume(x)
          PROVE  vol'[v].st = "home"
      BY <1>a, <3>1 DEF DeleteVolume
    <3>2. ASSUME NEW x \in Ws, Reconcile(x), vol'[v] # vol[v]
          PROVE  vol'[v].st = "home"
      <4>1. /\ Due(x) /\ v = seen[x].home /\ vol'[v] = EnsuredHome(x)
            /\ MustRelabel(x) => seenVol[seen[x].home] = vol[seen[x].home]
        BY <3>2, <1>a DEF Reconcile, Refuse, Provision
      <4>2. QED
        BY <1>a, <2>1, <4>1, HomeEnsured
    <3>3. ASSUME NEW x \in Ws, NEW keep \in BOOLEAN, Finalize(x, keep)
          PROVE  FALSE
      <4>1. cr'[x].st = "gone"
        BY <3>3, <1>a DEF Finalize, CrStates
      <4>2. QED
        BY <1>3, <4>1 DEF OnlyCreated
    <3>4. QED
      BY Steps, <3>1, <3>2, <3>3
         DEF AdmitCreate, AdmitResume, Persist, Pause, Delete, Deliver, DeliverClaim,
             Reconcile, ApplyTemplate, ToggleImage, vars
  <2>3. CASE comp[w] # "none"
    <3>1. cr[w].st # "none"
      BY <1>a, <2>3 DEF Provisioned, Lagging
    <3>2. cr'[w].home = cr[w].home
      BY <3>1, HomeStays
    <3>3. vol[cr[w].home].st = "home" /\ cr[w].home \in Vols
      BY <1>a, <2>1, <2>3 DEF VolumesKnown, CrStates
    <3>4. QED
      BY <2>2, <3>2, <3>3
  <2>4. CASE comp[w] = "none"
    <3>1. Reconcile(w)
      <4>1. ASSUME NEW x \in Ws, Reconcile(x)
            PROVE  x = w
        BY <1>3, <1>a, <2>4, <4>1 DEF Reconcile, Refuse, Provision
      <4>2. ASSUME NEW x \in Ws, NEW keep \in BOOLEAN, Finalize(x, keep)
            PROVE  FALSE
        BY <1>3, <1>a, <2>4, <4>2 DEF Finalize
      <4>3. QED
        BY Steps, <1>3, <2>4, <4>1, <4>2
           DEF AdmitCreate, AdmitResume, Persist, Pause, Delete, DeleteVolume, Deliver,
               DeliverClaim, ApplyTemplate, ToggleImage, vars
    <3>2. /\ Due(w) /\ vol' = [vol EXCEPT ![seen[w].home] = EnsuredHome(w)] /\ cr' = cr
          /\ MustRelabel(w) => seenVol[seen[w].home] = vol[seen[w].home]
      BY <1>3, <2>4, <3>1 DEF Reconcile, Refuse, Provision
    <3>3. seen[w].home = cr[w].home /\ cr[w].home \in Vols
      BY <1>a, <3>2 DEF Due, VolumesKnown, CrStates
    <3>4. EnsuredHome(w).st = "home"
      BY <1>a, <2>1, <3>2, HomeEnsured
    <3>5. QED
      BY <1>a, <3>2, <3>3, <3>4
  <2>5. QED
    BY <2>3, <2>4
<1>4. QED
  BY <1>1, <1>2, <1>3 DEF VolumesKnown, VolAt

\* What a grant leaves of homes and of retained volumes is what the gate
\* weighed: the workspaces the operator sees alive and the retained claims.
LEMMA GrantFits ==
  ASSUME IInv, VolumesKnown, NEW w \in Ws, Reconcile(w), Provision(w, FALSE) \/ Provision(w, TRUE),
         MustRelabel(w) => seenVol[seen[w].home] = vol[seen[w].home],
         EvaluateGovernance(w), OnlyCreated, OnlyCreated', HomesAsTemplated', TypeOK'
  PROVE  Within(Total(SizeIn(vol'), Vols), limits'.storage)
<1>a. /\ TypeOK /\ Lagging /\ Provisioned
      /\ vol \in [Vols -> VolStates] /\ seenVol \in [Vols -> VolStates]
      /\ vol' \in [Vols -> VolStates]
      /\ seen \in [Ws -> CrStates] /\ cr \in [Ws -> CrStates]
      /\ comp \in [Ws -> {"none", "down", "up"}]
  BY DEF IInv, TypeOK
<1>b. /\ Due(w) /\ cr' = cr /\ seenVol' = seenVol /\ limits' = limits /\ tpl
      /\ vol' = [vol EXCEPT ![seen[w].home] = EnsuredHome(w)]
      /\ \A x \in Ws : x # w => comp'[x] = comp[x]
  BY <1>a DEF Reconcile, Provision, Due
<1>c. /\ seen[w].home = cr[w].home /\ seen[w].home \in Vols
      /\ \A v \in Vols : vol[v].st = "none" => vol[v].size = 0
      /\ \A v \in Vols : vol[v].st = "retained" => seenVol[v] = vol[v]
  BY <1>a, <1>b DEF Due, VolumesKnown, CrStates
<1>d. EnsuredHome(w).st = "home" /\ (EnsuredHome(w).st = "none" => EnsuredHome(w).size = 0)
  BY <1>a, <1>b, HomeEnsured
<1> DEFINE others == OwnerLoads(seen, {w})
           kept == RetainedVolumeLoads(seenVol, w, seen[w].home)
           H == {v \in Vols : vol'[v].st = "home"}
           R == {v \in Vols : vol'[v].st = "retained"}
           f == [v \in H |-> CHOOSE x \in Ws : comp'[x] # "none" /\ cr[x].home = v
                                               /\ vol'[v].size <= Home[x]]
           S == SizeIn(vol')
           K == SizeIn(seenVol)
<1>1. Within(Total(Storage, others) + Total(K, kept) + Home[w], limits.storage)
  BY DEF EvaluateGovernance, Allowed, CheckLimits
<1>2. /\ S \in [Vols -> Nat] /\ K \in [Vols -> Nat] /\ Storage \in [Ws -> Nat]
      /\ \A x \in Ws : Storage[x] = Home[x]
  <2>1. S \in [Vols -> Nat]
    BY <1>a DEF SizeIn, VolStates
  <2>2. K \in [Vols -> Nat]
    BY <1>a DEF SizeIn, VolStates
  <2>3. Storage \in [Ws -> Nat] /\ \A x \in Ws : Storage[x] = Home[x]
    BY <1>b, SizesAssumption DEF Storage
  <2>4. QED
    BY <2>1, <2>2, <2>3
<1>3. others \in SUBSET Ws /\ w \notin others /\ kept \in SUBSET Vols
  BY DEF OwnerLoads, RetainedVolumeLoads
<1>4. IsFiniteSet(Vols) /\ IsFiniteSet(Ws)
  BY SizesAssumption, ScheduledAssumption, FS_Union DEF Vols
<1>5. \A v \in H : /\ f[v] \in others \cup {w} /\ cr[f[v]].home = v
                  /\ S[v] <= Storage[f[v]]
  <2> SUFFICES ASSUME NEW v \in H
               PROVE  f[v] \in others \cup {w} /\ cr[f[v]].home = v /\ S[v] <= Storage[f[v]]
    OBVIOUS
  <2>1. \E x \in Ws : comp'[x] # "none" /\ cr[x].home = v /\ vol'[v].size <= Home[x]
    BY <1>b DEF HomesAsTemplated
  <2>2. f[v] \in Ws /\ comp'[f[v]] # "none" /\ cr[f[v]].home = v /\ vol'[v].size <= Home[f[v]]
    BY <2>1
  <2>3. S[v] = vol'[v].size
    BY DEF SizeIn
  <2> DEFINE x == f[v]
  <2> HIDE DEF f
  <2>4. CASE x = w
    BY <1>2, <2>2, <2>3, <2>4
  <2>5. CASE x # w
    <3>1. comp[x] # "none"
      BY <1>b, <2>2, <2>5
    <3>2. cr[x].st = "live"
      BY <1>a, <2>2, <3>1 DEF Provisioned, Lagging, OnlyCreated
    <3>3. seen[x].st = "live"
      BY <1>a, <2>2, <3>1, <3>2 DEF Provisioned
    <3>4. x \in others
      BY <2>2, <2>5, <3>3 DEF OwnerLoads
    <3>5. QED
      BY <1>2, <2>2, <2>3, <3>4
  <2>6. QED
    BY <2>4, <2>5
<1>6. \A v \in R : v \in kept /\ S[v] = K[v]
  <2> SUFFICES ASSUME NEW v \in R PROVE v \in kept /\ S[v] = K[v]
    OBVIOUS
  <2>1. v # seen[w].home
    BY <1>a, <1>b, <1>c, <1>d
  <2>2. vol'[v] = vol[v]
    BY <1>a, <1>b, <2>1
  <2>3. seenVol[v] = vol'[v] /\ seenVol[v].st = "retained"
    BY <1>c, <2>2
  <2>4. QED
    BY <2>1, <2>3 DEF SizeIn, RetainedVolumeLoads, Adopted
<1>7. \A v \in Vols : v \notin H /\ v \notin R => S[v] = 0
  <2> SUFFICES ASSUME NEW v \in Vols, v \notin H, v \notin R PROVE S[v] = 0
    OBVIOUS
  <2>1. vol'[v].st = "none"
    BY <1>a DEF VolStates
  <2>2. v # seen[w].home
    BY <1>a, <1>b, <1>c, <1>d, <2>1
  <2>3. vol'[v] = vol[v]
    BY <1>a, <1>b, <2>2
  <2>4. vol'[v].size = 0
    BY <1>c, <2>1, <2>3
  <2>5. QED
    BY <2>4 DEF SizeIn
<1>8. H \in SUBSET Vols /\ R \in SUBSET Vols /\ H \cap R = {}
  OBVIOUS
<1>9. f = [v \in H |-> f[v]]
  OBVIOUS
<1>0. \A v \in H : f[v] \in others \cup {w} /\ cr[f[v]].home = v
  BY <1>5
<1>10. \A v \in H : S[v] <= Storage[f[v]]
  BY <1>5
<1>11. \A v \in R : S[v] <= K[v]
  BY <1>2, <1>6, <1>8
<1>13. R \in SUBSET kept
  BY <1>6
<1> HIDE DEF H, R, f, S, K, others, kept
<1>12. {f[v] : v \in H} \in SUBSET (others \cup {w})
  BY <1>0
<1>22. f \in [H -> Ws] /\ \A u, v \in H : f[u] = f[v] => u = v
  <2>1. \A v \in H : f[v] \in Ws
    BY <1>0, <1>3
  <2>2. f \in [H -> Ws]
    BY <1>9, <2>1
  <2>3. QED
    BY <1>0, <2>2
<1>14. Total(S, Vols) <= Total(Storage, {f[v] : v \in H}) + Total(K, R)
  BY <1>2, <1>4, <1>7, <1>8, <1>10, <1>11, <1>22, TotalCovered
<1>15. Total(Storage, {f[v] : v \in H}) <= Total(Storage, others \cup {w})
  <2>1. others \cup {w} \in SUBSET Ws
    BY <1>3
  <2>2. QED
    BY <1>2, <1>4, <1>12, <2>1, TotalMonotone
<1>16. Total(Storage, others \cup {w}) = Total(Storage, others) + Home[w]
  <2>1. Total(Storage, others \cup {w}) = Total(Storage, others) + Storage[w]
    BY <1>2, <1>3, <1>4, TotalAdd
  <2>2. QED
    BY <1>2, <2>1
<1>17. Total(K, R) <= Total(K, kept)
  BY <1>2, <1>3, <1>4, <1>13, TotalMonotone
<1>18. /\ Total(S, Vols) \in Nat /\ Total(K, R) \in Nat /\ Total(K, kept) \in Nat
       /\ Total(Storage, others) \in Nat /\ Total(Storage, {f[v] : v \in H}) \in Nat
       /\ Home[w] \in Nat
  <2>1. Total(S, Vols) \in Nat
    BY <1>2, <1>4, TotalNat
  <2>2. Total(K, R) \in Nat
    BY <1>2, <1>4, <1>8, TotalNat
  <2>3. Total(K, kept) \in Nat
    BY <1>2, <1>3, <1>4, TotalNat
  <2>4. Total(Storage, others) \in Nat
    BY <1>2, <1>3, <1>4, TotalNat
  <2>5. {f[v] : v \in H} \in SUBSET Ws
    BY <1>3, <1>12
  <2>6. Total(Storage, {f[v] : v \in H}) \in Nat
    BY <1>2, <1>4, <2>5, TotalNat
  <2>7. QED
    BY <2>1, <2>2, <2>3, <2>4, <2>6, SizesAssumption
<1>19. Total(S, Vols) <= Total(Storage, others) + Total(K, kept) + Home[w]
  BY <1>14, <1>15, <1>16, <1>17, <1>18
<1>20. Within(Total(S, Vols), limits.storage)
  BY <1>1, <1>18, <1>19, <1>a, PolicyNat DEF Within
<1>21. QED
  BY <1>b, <1>20 DEF S

\* Every step keeps the storage cap while workspaces are only created.
LEMMA StorageStep ==
  ASSUME SInv, [Next]_vars
  PROVE  HomesWithinQuota'
<1> SUFFICES ASSUME HomesAsTemplated', OnlyCreated', NEW y \in Ws, comp'[y] # "none"
             PROVE  Within(Total(SizeIn(vol'), Vols), limits'.storage)
  BY DEF HomesWithinQuota, VolumesWithinQuota, SizeIn
<1>a. /\ IInv /\ TypeOK /\ Lagging /\ Provisioned /\ VolumesKnown /\ HomesWithinQuota
      /\ vol \in [Vols -> VolStates] /\ seenVol \in [Vols -> VolStates]
      /\ seen \in [Ws -> CrStates] /\ cr \in [Ws -> CrStates]
      /\ comp \in [Ws -> {"none", "down", "up"}]
  BY DEF SInv, IInv, TypeOK
<1>b. TypeOK' /\ OnlyCreated /\ limits' = limits
  BY <1>a, TypeStep, OnlyCreatedBefore, PolicyStays
<1>c. vol' \in [Vols -> VolStates]
  BY <1>b DEF TypeOK
\* A step that grants nothing and makes no home larger.
<1>1. ASSUME \A x \in Ws : comp'[x] # "none" => comp[x] # "none",
             \A v \in Vols : vol'[v].size <= vol[v].size,
             \A v \in Vols : vol[v].st = "home" => vol'[v].st = "home"
                                                  /\ vol'[v].size = vol[v].size
      PROVE  Within(Total(SizeIn(vol'), Vols), limits'.storage)
  <2>1. HomesAsTemplated
    <3> SUFFICES ASSUME NEW v \in Vols, vol[v].st = "home"
                 PROVE  \E x \in Ws : comp[x] # "none" /\ cr[x].home = v
                                       /\ vol[v].size <= Home[x]
      BY DEF HomesAsTemplated
    <3>1. PICK x \in Ws : comp'[x] # "none" /\ cr'[x].home = v /\ vol'[v].size <= Home[x]
      BY <1>1 DEF HomesAsTemplated
    <3>2. comp[x] # "none" /\ cr[x].st # "none"
      BY <1>1, <1>a, <3>1 DEF Provisioned, Lagging
    <3>3. cr[x].home = v
      BY <1>a, <3>1, <3>2, HomeStays
    <3>4. QED
      BY <1>1, <3>1, <3>2, <3>3
  <2>2. Within(Total(SizeIn(vol), Vols), limits.storage)
    BY <1>1, <1>a, <1>b, <2>1 DEF HomesWithinQuota, VolumesWithinQuota
  <2> DEFINE S == SizeIn(vol')
             K == SizeIn(vol)
  <2>3. S \in [Vols -> Nat] /\ K \in [Vols -> Nat] /\ \A v \in Vols : S[v] <= K[v]
    <3>1. S \in [Vols -> Nat]
      BY <1>c DEF SizeIn, VolStates
    <3>2. K \in [Vols -> Nat]
      BY <1>a DEF SizeIn, VolStates
    <3>3. \A v \in Vols : S[v] <= K[v]
      BY <1>1 DEF SizeIn
    <3>4. QED
      BY <3>1, <3>2, <3>3
  <2>4. IsFiniteSet(Vols)
    BY SizesAssumption, ScheduledAssumption, FS_Union DEF Vols
  <2>6. Within(Total(K, Vols), limits.storage)
    BY <2>2
  <2> HIDE DEF S, K
  <2>7. Total(S, Vols) <= Total(K, Vols)
    BY <2>3, <2>4, TotalSmaller
  <2>9. Total(S, Vols) \in Nat /\ Total(K, Vols) \in Nat
    BY <2>3, <2>4, TotalNat
  <2>10. Within(Total(S, Vols), limits.storage)
    BY <1>a, <2>6, <2>7, <2>9, PolicyNat DEF Within
  <2>11. QED
    BY <1>b, <2>10 DEF S
<1>2. ASSUME vol' = vol, comp' = comp
      PROVE  Within(Total(SizeIn(vol'), Vols), limits'.storage)
  <2>1. \A v \in Vols : vol'[v].size <= vol[v].size
    BY <1>2, <1>a DEF VolStates
  <2>2. QED
    BY <1>1, <1>2, <2>1
<1>3. ASSUME NEW v \in Vols, DeleteVolume(v)
      PROVE  Within(Total(SizeIn(vol'), Vols), limits'.storage)
  <2>1. comp' = comp /\ vol[v].st = "retained" /\ vol' = [vol EXCEPT ![v] = NoVol]
    BY <1>3 DEF DeleteVolume
  <2>2. \A x \in Vols : vol'[x] = vol[x] \/ (x = v /\ vol'[x] = NoVol)
    BY <1>a, <2>1
  <2>3. \A x \in Vols : vol[x].size \in Nat
    BY <1>a DEF VolStates
  <2>4. \A x \in Vols : vol'[x].size <= vol[x].size
    BY <2>2, <2>3 DEF NoVol
  <2>5. \A x \in Vols : vol[x].st = "home" => vol'[x] = vol[x]
    BY <2>1, <2>2
  <2>6. QED
    BY <1>1, <2>1, <2>4, <2>5
<1>4. ASSUME NEW w \in Ws, NEW keep \in BOOLEAN, Finalize(w, keep)
      PROVE  FALSE
  <2>1. cr'[w].st = "gone"
    BY <1>4, <1>a DEF Finalize, CrStates
  <2>2. QED
    BY <2>1 DEF OnlyCreated
<1>5. ASSUME NEW w \in Ws, Reconcile(w)
      PROVE  Within(Total(SizeIn(vol'), Vols), limits'.storage)
  <2>1. CASE Refuse(w)
    BY <1>2, <2>1 DEF Refuse
  <2>2. CASE ~Refuse(w) /\ comp[w] # "none"
    <3>1. /\ Due(w) /\ vol' = [vol EXCEPT ![seen[w].home] = EnsuredHome(w)]
          /\ \A x \in Ws : x # w => comp'[x] = comp[x]
          /\ MustRelabel(w) => seenVol[seen[w].home] = vol[seen[w].home]
      BY <1>5, <1>a, <2>2 DEF Reconcile, Provision
    <3> DEFINE h == seen[w].home
    <3>2. h = cr[w].home /\ h \in Vols /\ vol[h].st = "home"
      BY <1>a, <1>b, <2>2, <3>1 DEF Due, VolumesKnown, CrStates
    <3>3. EnsuredHome(w).st = "home" /\ EnsuredHome(w).size = vol[h].size
      BY <1>a, <3>1, <3>2, HomeEnsured
    <3>4. \A v \in Vols : vol'[v] = vol[v] \/ (v = h /\ vol'[v] = EnsuredHome(w))
      BY <1>a, <3>1
    <3>5. \A v \in Vols : vol[v].size \in Nat
      BY <1>a DEF VolStates
    <3> HIDE DEF h
    <3>6. \A v \in Vols : vol'[v].size <= vol[v].size
      BY <3>3, <3>4, <3>5
    <3>7. \A v \in Vols : vol[v].st = "home" => vol'[v].st = "home" /\ vol'[v].size = vol[v].size
      BY <3>3, <3>4
    <3>8. \A x \in Ws : comp'[x] # "none" => comp[x] # "none"
      BY <2>2, <3>1
    <3>9. QED
      BY <1>1, <3>6, <3>7, <3>8
  <2>3. CASE ~Refuse(w) /\ comp[w] = "none"
    <3>1. seen[w].st = "live" /\ cr[w].st # "none"
      BY <1>5, <1>a DEF Reconcile, Due, Lagging
    <3>2. ~seen[w].paused
      BY <1>a, <1>b, <3>1 DEF OnlyCreated, Lagging
    <3>3. Gated(w)
      BY <2>3, <3>2 DEF Gated
    <3>4. EvaluateGovernance(w)
      BY <1>5, <2>3, <3>3 DEF Reconcile
    <3>5. /\ MustRelabel(w) => seenVol[seen[w].home] = vol[seen[w].home]
          /\ Provision(w, FALSE) \/ Provision(w, TRUE)
      <4>1. seen[w].paused \in BOOLEAN
        BY <1>a DEF CrStates
      <4>2. /\ MustRelabel(w) => seenVol[seen[w].home] = vol[seen[w].home]
            /\ \E down \in BOOLEAN : Provision(w, down)
        BY <1>5, <2>3, <3>4, <4>1 DEF Reconcile
      <4>3. \A down \in BOOLEAN : down = FALSE \/ down = TRUE
        OBVIOUS
      <4>4. Provision(w, FALSE) \/ Provision(w, TRUE)
        BY <4>2, <4>3, Zenon
      <4>5. QED
        BY <4>2, <4>4
    <3>6. QED
      BY <1>5, <1>a, <1>b, <3>4, <3>5, GrantFits
  <2>4. QED
    BY <2>1, <2>2, <2>3
<1>6. QED
  BY Steps, <1>2, <1>3, <1>4, <1>5
     DEF AdmitCreate, AdmitResume, Persist, Pause, Delete, Deliver, DeliverClaim,
         ApplyTemplate, ToggleImage, vars

\* The claims and the storage cap hold at the start.
LEMMA InitStorage == Init => VolumesKnown /\ HomesWithinQuota
<1> SUFFICES ASSUME Init PROVE VolumesKnown /\ HomesWithinQuota
  OBVIOUS
<1>1. \A v \in Vols : vol[v] \in {NoVol, Retained(KeptSize[v])} /\ seenVol[v] = vol[v]
  BY DEF Init
<1>2. \A w \in Ws : comp[w] = "none" /\ seen[w].st = "none"
  BY DEF Init, NoCr
<1>3. VolumesKnown
  BY <1>1, <1>2 DEF VolumesKnown, NoVol, Retained
<1>4. HomesWithinQuota
  BY <1>2 DEF HomesWithinQuota, VolumesWithinQuota
<1>5. QED
  BY <1>3, <1>4

\* docs/volumes.md ("retained volumes count against the aggregate storage
\* cap"): for every number of workspaces and of kept volumes, whatever their
\* sizes and the policy, and whichever creations and adoptions race on stale
\* caches, the volumes of the owner fit the storage cap once compute was
\* granted, while no workspace is paused, resumed or deleted and homes have
\* the size their templates say.
THEOREM CreatesWithinStorage == Spec => []HomesWithinQuota
<1>1. Init => SInv
  BY InitInv, InitStorage DEF SInv
<1>2. SInv /\ [Next]_vars => SInv'
  BY NextInv, VolumesStep, StorageStep DEF SInv
<1>3. SInv => HomesWithinQuota
  BY DEF SInv
<1>4. QED
  BY <1>1, <1>2, <1>3, PTL DEF Spec
=============================================================================
