-------------------------- MODULE HomeVolumeProofs --------------------------
(***************************************************************************)
(* Proofs about the homes, one by one and in their namespace.              *)
(*                                                                         *)
(* About HomeVolume: for any set of workspaces, claim names, owners and    *)
(* bounds, with and without the Serial restriction, which only             *)
(* LiveHomesSafe needs.                                                    *)
(*                                                                         *)
(* About Tenancy: for any number of workspaces in the namespace and any    *)
(* number of edits, takeovers, failed calls and restarts.                  *)
(***************************************************************************)
EXTENDS HomeVolume, Tenancy, TLAPS

-----------------------------------------------------------------------------
(* HomeVolume.                                                             *)

\* A claim that is in use, neither retained nor on its way out.
InUse(n) == pvc[n].st = "bound" /\ ~pvc[n].retained

\* A claim in use is labelled with the workspace that names it, and the
\* teardown finalizer holds that workspace.
HomeHeld ==
  \A n \in Names : InUse(n) =>
    /\ pvc[n].ws \in Ws
    /\ Exists(pvc[n].ws)
    /\ Vol(pvc[n].ws) = n
    /\ cr[pvc[n].ws].finalizer

\* finalizeHomeVolume has run to its end: no claim in use is left with the
\* workspace about to go.
ReleaseClear ==
  rc.pc = "release" => \A n \in Names : InUse(n) => pvc[n].ws # rc.ws

IInv == TypeOK /\ HomeHeld /\ ReleaseClear

-----------------------------------------------------------------------------
(* What the building blocks of the actions do to a record.                 *)

\* A deletion request changes the state of a CR and nothing else.
LEMMA DoomedFacts ==
  ASSUME NEW c \in CRs
  PROVE  /\ Doomed(c) \in CRs
         /\ Doomed(c).vol = c.vol /\ Doomed(c).finalizer = c.finalizer
         /\ c.finalizer => Doomed(c).st = "deleting"
  BY DEF Doomed, CRs

\* A claim labelled for a workspace is in the state it was in.
LEMMA LabelledFacts ==
  ASSUME NEW c \in Claims, NEW w \in Ws
  PROVE  /\ Labelled(c, w) \in Claims
         /\ Labelled(c, w).ws = w /\ Labelled(c, w).id = c.id
  BY OwnerAssumption DEF Labelled, Claims

\* A retained claim is still a claim, and out of use.
LEMMA RetainFacts ==
  ASSUME NEW c \in Claims
  PROVE  Retain(c) \in Claims /\ Retain(c).retained
  BY DEF Retain, Claims

\* The absence of a claim is a claim value.
LEMMA NoClaimType == NoClaim \in Claims /\ NoClaim.st = "none"
  BY DEF NoClaim, Claims

\* A claim just created is a claim.
LEMMA FreshType ==
  ASSUME NEW i \in Nat
  PROVE  [NoClaim EXCEPT !.st = "bound", !.id = i] \in Claims
  BY DEF NoClaim, Claims

\* A deletion by name leaves no claim in use under it, and changes no
\* other claim.
LEMMA DestroyFacts ==
  ASSUME TypeOK, NEW n \in Names, NEW by \in Ws \cup {"api"},
         NEW why \in {"choice", "ttl", "volume"}, Destroy(n, by, why)
  PROVE  /\ pvc' \in [Names -> Claims]
         /\ destroyed' \subseteq Losses
         /\ \A m \in Names : m # n => pvc'[m] = pvc[m]
         /\ pvc'[n].st # "bound"
<1>1. CASE pvc[n].st = "bound"
  <2> DEFINE c == [pvc[n] EXCEPT !.st = "terminating"]
  <2>1. c \in Claims /\ c.st = "terminating" /\ pvc[n].id \in Nat
    BY DEF TypeOK, Claims
  <2>2. pvc' = [pvc EXCEPT ![n] = c]
    BY <1>1 DEF Destroy
  <2>3. [id |-> pvc[n].id, by |-> by, why |-> why] \in Losses
    BY <2>1 DEF Losses
  <2>4. destroyed' \subseteq Losses
    BY <1>1, <2>3 DEF Destroy, TypeOK
  <2> HIDE DEF c
  <2>5. QED
    BY <2>1, <2>2, <2>4 DEF TypeOK
<1>2. CASE pvc[n].st # "bound"
  BY <1>2 DEF Destroy, TypeOK
<1>3. QED
  BY <1>1, <1>2

\* The idle worker is a job.
LEMMA IdleType == Idle \in Jobs /\ Idle.pc = "idle"
  BY DEF Idle, Jobs

-----------------------------------------------------------------------------
(* The inductive invariant.                                                *)

\* The initial state satisfies the inductive invariant.
LEMMA InitIInv == Init => IInv
<1> SUFFICES ASSUME Init PROVE IInv
  OBVIOUS
<1>1. cr \in [Ws -> CRs]
  BY DerivedAssumption DEF Init, CRs
<1>2. pvc \in [Names -> Claims] /\ \A n \in Names : pvc[n].st = "none"
  BY NoClaimType DEF Init
<1>3. TypeOK
  BY <1>1, <1>2, IdleType DEF Init, TypeOK
<1>4. HomeHeld /\ ReleaseClear
  BY <1>2 DEF HomeHeld, ReleaseClear, InUse
<1>5. QED
  BY <1>3, <1>4 DEF IInv

\* Writing a CR keeps the claims in use held when the volume and the
\* finalizer stay and the workspace does not go.
LEMMA CrWrite ==
  ASSUME IInv, NEW w \in Ws, NEW c \in CRs, cr' = [cr EXCEPT ![w] = c],
         \A n \in Names : InUse(n) /\ pvc[n].ws = w =>
           /\ c.vol = cr[w].vol /\ c.finalizer = cr[w].finalizer
           /\ c.st \in {"live", "deleting"},
         pvc' = pvc
  PROVE  cr' \in [Ws -> CRs] /\ HomeHeld'
<1>1. cr' \in [Ws -> CRs]
  BY DEF IInv, TypeOK
<1>2. ASSUME NEW n \in Names, InUse(n)
      PROVE  /\ pvc[n].ws \in Ws /\ Exists(pvc[n].ws)'
             /\ cr'[pvc[n].ws].vol = n /\ cr'[pvc[n].ws].finalizer
  BY <1>2 DEF IInv, TypeOK, HomeHeld, Exists, Vol
<1>3. QED
  BY <1>1, <1>2 DEF HomeHeld, InUse, Exists, Vol

\* Every step preserves the inductive invariant.
LEMMA StepIInv == IInv /\ [Next]_vars => IInv'
<1> SUFFICES ASSUME IInv, [Next]_vars PROVE IInv'
  OBVIOUS
<1> USE DEF IInv
<1>1. ASSUME NEW w \in Ws, NEW n \in Names, Created(w, n) PROVE IInv'
  <2> DEFINE c == [cr[w] EXCEPT !.st = "live", !.vol = n]
  <2>1. c \in CRs
    BY DEF TypeOK, CRs
  <2>2. cr' = [cr EXCEPT ![w] = c] /\ cr[w].st = "none" /\ pvc' = pvc
    BY <1>1 DEF Created
  <2>3. \A m \in Names : InUse(m) => pvc[m].ws # w
    BY <2>2 DEF HomeHeld, Exists
  <2> HIDE DEF c
  <2>4. cr' \in [Ws -> CRs] /\ HomeHeld'
    BY <2>1, <2>2, <2>3, CrWrite
  <2>5. QED
    BY <1>1, <2>4 DEF Created, TypeOK, ReleaseClear, InUse
<1>2. ASSUME NEW w \in Ws, cr' = [cr EXCEPT ![w] = Doomed(@)], pvc' = pvc
      PROVE  cr' \in [Ws -> CRs] /\ HomeHeld'
  <2>1. cr[w] \in CRs
    BY DEF TypeOK
  <2>2. \A n \in Names : InUse(n) /\ pvc[n].ws = w => cr[w].finalizer
    BY DEF HomeHeld
  <2>3. QED
    BY <1>2, <2>1, <2>2, DoomedFacts, CrWrite
<1>3. ASSUME NEW w \in Ws, DeleteKeeping(w) PROVE IInv'
  BY <1>2, <1>3 DEF DeleteKeeping, TypeOK, ReleaseClear, InUse
<1>4. ASSUME NEW w \in Ws, StampDeleteHome(w) PROVE IInv'
  <2> DEFINE c == [cr[w] EXCEPT !.deleteHome = TRUE]
  <2>1. /\ c \in CRs /\ c.vol = cr[w].vol /\ c.finalizer = cr[w].finalizer
        /\ c.st = cr[w].st
    BY DEF TypeOK, CRs
  <2>2. cr' = [cr EXCEPT ![w] = c] /\ Exists(w) /\ pvc' = pvc
    BY <1>4 DEF StampDeleteHome
  <2> HIDE DEF c
  <2>3. cr' \in [Ws -> CRs] /\ HomeHeld'
    BY <2>1, <2>2, CrWrite DEF Exists
  <2>4. QED
    BY <1>4, <2>3 DEF StampDeleteHome, TypeOK, ReleaseClear, InUse
<1>5. ASSUME NEW w \in Ws, DeleteStamped(w) PROVE IInv'
  <2>1. cr' \in [Ws -> CRs] /\ HomeHeld'
    BY <1>2, <1>5 DEF DeleteStamped, TypeOK, HomeHeld, InUse, Exists, Vol
  <2>2. QED
    BY <1>5, <2>1 DEF DeleteStamped, TypeOK, ReleaseClear, InUse
<1>6. ASSUME NEW w \in Ws, DeleteFails(w) PROVE IInv'
  <2>1. used' \in [api : Nat, rec : Nat, vol : Nat]
    BY <1>6 DEF DeleteFails, TypeOK
  <2>2. QED
    BY <1>6, <2>1
    DEF DeleteFails, TypeOK, HomeHeld, ReleaseClear, InUse, Exists, Vol
<1>7. ASSUME NEW w \in Ws, Expire(w) PROVE IInv'
  BY <1>7 DEF Expire, TypeOK, HomeHeld, ReleaseClear, InUse, Exists, Vol
<1>8. ASSUME NEW w \in Ws, AddFinalizer(w) PROVE IInv'
  <2> DEFINE c == [cr[w] EXCEPT !.finalizer = TRUE]
  <2>1. c \in CRs
    BY DEF TypeOK, CRs
  <2>2. cr' = [cr EXCEPT ![w] = c] /\ ~cr[w].finalizer /\ pvc' = pvc
    BY <1>8 DEF AddFinalizer
  <2>3. \A n \in Names : InUse(n) => pvc[n].ws # w
    BY <2>2 DEF HomeHeld
  <2> HIDE DEF c
  <2>4. cr' \in [Ws -> CRs] /\ HomeHeld'
    BY <2>1, <2>2, <2>3, CrWrite
  <2>5. QED
    BY <1>8, <2>4 DEF AddFinalizer, TypeOK, ReleaseClear, InUse
<1>9. ASSUME NEW n \in Names, NEW by \in Ws \cup {"api"},
             NEW why \in {"choice", "ttl", "volume"}, Destroy(n, by, why), cr' = cr
      PROVE  /\ pvc' \in [Names -> Claims] /\ destroyed' \subseteq Losses
             /\ HomeHeld'
             /\ \A m \in Names : InUse(m)' => m # n /\ InUse(m) /\ pvc'[m] = pvc[m]
  <2>1. /\ pvc' \in [Names -> Claims] /\ destroyed' \subseteq Losses
        /\ \A m \in Names : m # n => pvc'[m] = pvc[m]
        /\ pvc'[n].st # "bound"
    BY <1>9, DestroyFacts
  <2>2. \A m \in Names : InUse(m)' => m # n /\ InUse(m) /\ pvc'[m] = pvc[m]
    BY <2>1 DEF InUse
  <2>3. HomeHeld'
    BY <1>9, <2>2 DEF HomeHeld, Exists, Vol
  <2>4. QED
    BY <2>1, <2>2, <2>3
<1>10. ASSUME NEW w \in Ws PROVE Vol(w) \in Names
  BY DEF TypeOK, CRs, Vol
<1>11. ASSUME NEW w \in Ws, ExpireHome(w) PROVE IInv'
  <2>1. rc' \in Jobs /\ rc'.pc = "expire"
    BY <1>11 DEF ExpireHome, Jobs
  <2>2. QED
    BY <1>9, <1>10, <1>11, <2>1 DEF ExpireHome, TypeOK, ReleaseClear
<1>12. ASSUME NEW w \in Ws, ExpireWorkspace(w) PROVE IInv'
  <2>1. cr' \in [Ws -> CRs] /\ HomeHeld'
    BY <1>2, <1>12 DEF ExpireWorkspace, TypeOK, HomeHeld, InUse, Exists, Vol
  <2>2. QED
    BY <1>12, <2>1, IdleType DEF ExpireWorkspace, TypeOK, ReleaseClear
<1>13. ASSUME NEW w \in Ws, EnsureHome(w) PROVE IInv'
  <2> DEFINE n == Vol(w)
  <2>1. PICK c \in Claims : pvc' = [pvc EXCEPT ![n] = Labelled(c, w)]
    <3> DEFINE f == [NoClaim EXCEPT !.st = "bound", !.id = born']
    <3>1. CASE pvc' = [pvc EXCEPT ![n] = Labelled(f, w)] /\ born' = born + 1
      <4>1. born' \in Nat
        BY <3>1 DEF TypeOK
      <4>2. f \in Claims
        BY <4>1, FreshType
      <4>3. QED
        BY <3>1, <4>2
    <3>2. CASE pvc' = [pvc EXCEPT ![n] = Labelled(pvc[n], w)]
      BY <3>2, <1>10 DEF TypeOK
    <3>3. QED
      BY <1>13, <3>1, <3>2 DEF EnsureHome
  <2>2. /\ pvc' \in [Names -> Claims]
        /\ pvc'[n].ws = w
        /\ \A m \in Names : m # n => pvc'[m] = pvc[m]
    BY <1>10, <2>1, LabelledFacts DEF TypeOK
  <2>3. home' \in [Ws -> Nat] /\ born' \in Nat
    <3>1. pvc'[n].id \in Nat
      BY <1>10, <2>2 DEF Claims
    <3>2. QED
      BY <1>13, <3>1 DEF EnsureHome, TypeOK
  <2>4. /\ cr[w].st = "live" /\ cr[w].finalizer /\ rc.pc = "idle"
        /\ UNCHANGED <<cr, rc>>
    BY <1>13, IdleType DEF EnsureHome, Reconcilable
  <2>5. HomeHeld'
    BY <2>2, <2>4 DEF HomeHeld, InUse, Exists, Vol
  <2>6. ReleaseClear'
    BY <2>4 DEF ReleaseClear
  <2>7. QED
    BY <1>13, <2>2, <2>3, <2>5, <2>6 DEF EnsureHome, TypeOK
<1>14. ASSUME NEW w \in Ws, FinalizeHome(w) PROVE IInv'
  <2> DEFINE n == Vol(w)
  <2>1. rc' \in Jobs /\ rc'.ws = w /\ rc'.pc \in {"release", "destroy"}
    BY <1>14 DEF FinalizeHome, Jobs
  <2>2. \/ pvc' = [pvc EXCEPT ![n] = Retain(pvc[n])]
        \/ pvc' = pvc /\ (rc'.pc = "release" => ~StillHome(w))
    BY <1>14 DEF FinalizeHome
  <2>3. /\ pvc' \in [Names -> Claims]
        /\ \A m \in Names : InUse(m)' => InUse(m) /\ pvc'[m] = pvc[m]
    BY <1>10, <2>2, RetainFacts DEF TypeOK, InUse
  <2>4. \A m \in Names : rc'.pc = "release" /\ InUse(m)' => pvc'[m].ws # w
    BY <1>10, <2>2, <2>3, RetainFacts
    DEF HomeHeld, InUse, Vol, StillHome, TypeOK
  <2>5. HomeHeld'
    BY <1>14, <2>3 DEF FinalizeHome, HomeHeld, Exists, Vol
  <2>6. QED
    BY <1>14, <2>1, <2>3, <2>4, <2>5 DEF FinalizeHome, TypeOK, ReleaseClear
<1>15. ASSUME NEW w \in Ws, DestroyHome(w) PROVE IInv'
  <2>1. rc' \in Jobs /\ rc'.ws = w
    BY <1>15 DEF DestroyHome, Jobs
  <2>2. \A m \in Names : InUse(m) /\ pvc[m].ws = w => m = Vol(w)
    BY DEF HomeHeld
  <2>3. Destroy(Vol(w), w, "choice") /\ Vol(w) \in Names
    BY <1>10, <1>15 DEF DestroyHome
  <2>4. UNCHANGED <<cr, api, vapi, expired, born, used, home, consent>>
    BY <1>15 DEF DestroyHome
  <2>5. /\ pvc' \in [Names -> Claims] /\ destroyed' \subseteq Losses /\ HomeHeld'
        /\ \A m \in Names : InUse(m)' => m # Vol(w) /\ InUse(m) /\ pvc'[m] = pvc[m]
    BY <1>9, <2>3, <2>4
  <2>6. ReleaseClear'
    BY <2>1, <2>2, <2>5 DEF ReleaseClear
  <2>7. TypeOK'
    BY <2>1, <2>4, <2>5 DEF TypeOK
  <2>8. QED
    BY <2>5, <2>6, <2>7
<1>16. ASSUME NEW w \in Ws, Release(w) PROVE IInv'
  <2> DEFINE c == [cr[w] EXCEPT !.st = "gone", !.vol = Derived[w],
                               !.deleteHome = FALSE]
  <2>1. c \in CRs
    <3>1. cr[w] \in CRs
      BY DEF TypeOK
    <3>2. Derived[w] \in Names
      BY DerivedAssumption
    <3>3. QED
      BY <3>1, <3>2 DEF CRs
  <2>2. cr' = [cr EXCEPT ![w] = c] /\ pvc' = pvc /\ rc.ws = w /\ rc.pc = "release"
    BY <1>16 DEF Release
  <2>3. \A m \in Names : InUse(m) => pvc[m].ws # w
    BY <2>2 DEF ReleaseClear
  <2> HIDE DEF c
  <2>4. cr' \in [Ws -> CRs] /\ HomeHeld'
    BY <2>1, <2>2, <2>3, CrWrite
  <2>5. QED
    BY <1>16, <2>4, IdleType DEF Release, TypeOK, ReleaseClear
<1>17. ASSUME NEW n \in Names, ClaimReleased(n) PROVE IInv'
  <2>1. /\ pvc' \in [Names -> Claims]
        /\ \A m \in Names : InUse(m)' => InUse(m) /\ pvc'[m] = pvc[m]
    BY <1>17, NoClaimType DEF ClaimReleased, TypeOK, InUse
  <2>2. QED
    BY <1>17, <2>1 DEF ClaimReleased, TypeOK, HomeHeld, ReleaseClear, Exists, Vol
<1>18. ASSUME NEW n \in Names, CheckRetained(n) PROVE IInv'
  <2>1. used' \in [api : Nat, rec : Nat, vol : Nat]
    BY <1>18 DEF CheckRetained, TypeOK
  <2>2. QED
    BY <1>18, <2>1
    DEF CheckRetained, TypeOK, HomeHeld, ReleaseClear, InUse, Exists, Vol
<1>19. ASSUME NEW n \in Names, DeleteRetained(n) PROVE IInv'
  BY <1>9, <1>19 DEF DeleteRetained, TypeOK, ReleaseClear
<1>20. CASE ReconcileFails
  <2>1. used' \in [api : Nat, rec : Nat, vol : Nat]
    BY <1>20 DEF ReconcileFails, TypeOK
  <2>2. QED
    BY <1>20, <2>1, IdleType
    DEF ReconcileFails, TypeOK, HomeHeld, ReleaseClear, InUse, Exists, Vol
<1>21. CASE UNCHANGED vars
  BY <1>21 DEF vars, TypeOK, HomeHeld, ReleaseClear, InUse, Exists, Vol
<1> HIDE DEF IInv
<1>22. ASSUME NEW w \in Ws, NEW viaApi \in BOOLEAN, CreateFresh(w, viaApi)
       PROVE  IInv'
  BY <1>1, <1>22, DerivedAssumption DEF CreateFresh
<1>23. ASSUME NEW w \in Ws, NEW n \in Names, CreateAdopting(w, n)
       PROVE  IInv'
  BY <1>1, <1>23 DEF CreateAdopting
<1>24. ASSUME NEW w \in Ws, Operator(w) PROVE IInv'
  BY <1>8, <1>11, <1>12, <1>13, <1>14, <1>15, <1>16, <1>24 DEF Operator
<1>25. QED
  BY <1>3, <1>4, <1>5, <1>6, <1>7, <1>17, <1>18, <1>19, <1>20, <1>21, <1>22,
     <1>23, <1>24
  DEF Next

\* Every volume ends up somewhere the user can find it: whatever the order
\* of creations, adoptions, deletions, expiries, failures and restarts, a
\* bound home volume belongs to an existing workspace that names it or is
\* retained (ensureHomePVC, finalizeHomeVolume, the teardown finalizer).
THEOREM NoOrphans == Spec => []NoOrphanVolume
<1>1. Init => IInv
  BY InitIInv
<1>2. IInv /\ [Next]_vars => IInv'
  BY StepIInv
<1>3. IInv => NoOrphanVolume
  BY DEF IInv, HomeHeld, InUse, NoOrphanVolume
<1>4. QED
  BY <1>1, <1>2, <1>3, PTL DEF Spec

(* The state variables keep their types: a claim's label names a workspace *)
(* and a CR's volume a name, for every set of them.                        *)
THEOREM TypesHold == Spec => []TypeOK
<1>1. IInv => TypeOK
  BY DEF IInv
<1>2. QED
  BY InitIInv, StepIInv, <1>1, PTL DEF Spec

-----------------------------------------------------------------------------
(* The user's choice.                                                      *)

\* As long as no Delete call has failed between its writes, an annotation, a
\* deletion the worker has decided and a deletion done are all consented to.
Consented ==
  used.api = 0 =>
    /\ \A w \in Ws : cr[w].deleteHome => w \in consent
    /\ rc.pc = "destroy" => rc.ws \in consent
    /\ \A x \in destroyed : x.why = "choice" => x.by \in consent

\* A deletion request never adds the annotation.
LEMMA DoomedChoice == ASSUME NEW c \in CRs PROVE Doomed(c).deleteHome => c.deleteHome
  BY DEF Doomed, CRs

\* Every step keeps the choices consented to.
LEMMA StepConsented == ASSUME IInv, Consented, [Next]_vars PROVE Consented'
<1>1. /\ cr \in [Ws -> CRs] /\ rc \in Jobs /\ used \in [api : Nat, rec : Nat, vol : Nat]
      /\ \A w \in Ws : cr[w] \in CRs
  BY DEF IInv, TypeOK
<1>2. ASSUME UNCHANGED <<used, consent, destroyed>>, rc' = rc \/ rc'.pc # "destroy",
             \A w \in Ws : cr'[w].deleteHome => cr[w].deleteHome
      PROVE  Consented'
  BY <1>2 DEF Consented
<1>3. ASSUME NEW w \in Ws, cr' = [cr EXCEPT ![w] = Doomed(cr[w])]
      PROVE  \A v \in Ws : cr'[v].deleteHome => cr[v].deleteHome
  BY <1>1, <1>3, DoomedChoice
<1>4. ASSUME NEW w \in Ws, NEW n \in Names, Created(w, n) PROVE Consented'
  <2> DEFINE c == [cr[w] EXCEPT !.st = "live", !.vol = n]
  <2>1. cr' = [cr EXCEPT ![w] = c] /\ UNCHANGED <<used, consent, destroyed>> /\ rc' = rc
    BY <1>4 DEF Created
  <2>2. c.deleteHome = cr[w].deleteHome
    BY <1>1 DEF CRs
  <2> HIDE DEF c
  <2>3. QED
    BY <1>1, <1>2, <2>1, <2>2
<1>5. ASSUME NEW w \in Ws, DeleteKeeping(w) PROVE Consented'
  BY <1>2, <1>3, <1>5 DEF DeleteKeeping
<1>6. ASSUME NEW w \in Ws, StampDeleteHome(w) PROVE Consented'
  <2> DEFINE c == [cr[w] EXCEPT !.deleteHome = TRUE]
  <2>1. /\ cr' = [cr EXCEPT ![w] = c] /\ consent' = consent \cup {w}
        /\ UNCHANGED <<used, destroyed>> /\ rc' = rc
    BY <1>6 DEF StampDeleteHome
  <2> HIDE DEF c
  <2>2. QED
    BY <1>1, <2>1 DEF Consented
<1>7. ASSUME NEW w \in Ws, DeleteStamped(w) PROVE Consented'
  BY <1>2, <1>3, <1>7 DEF DeleteStamped
<1>8. ASSUME NEW w \in Ws, DeleteFails(w) PROVE Consented'
  <2>1. used'.api # 0
    BY <1>1, <1>8 DEF DeleteFails
  <2>2. QED
    BY <2>1 DEF Consented
<1>9. ASSUME NEW w \in Ws, Expire(w) PROVE Consented'
  BY <1>2, <1>9 DEF Expire
<1>10. ASSUME NEW w \in Ws, AddFinalizer(w) PROVE Consented'
  <2> DEFINE c == [cr[w] EXCEPT !.finalizer = TRUE]
  <2>1. cr' = [cr EXCEPT ![w] = c] /\ UNCHANGED <<used, consent, destroyed>> /\ rc' = rc
    BY <1>10 DEF AddFinalizer
  <2>2. c.deleteHome = cr[w].deleteHome
    BY <1>1 DEF CRs
  <2> HIDE DEF c
  <2>3. QED
    BY <1>1, <1>2, <2>1, <2>2
<1>11. ASSUME NEW n, NEW by, NEW why, Destroy(n, by, why), UNCHANGED <<cr, used, consent>>,
              rc' = rc \/ rc'.pc # "destroy", used.api = 0 /\ why = "choice" => by \in consent
       PROVE  Consented'
  <2>1. \A x \in destroyed' : x \in destroyed \/ (x.by = by /\ x.why = why)
    BY <1>11 DEF Destroy
  <2>2. QED
    BY <1>11, <2>1 DEF Consented
<1>12. ASSUME NEW w \in Ws, ExpireHome(w) PROVE Consented'
  BY <1>11, <1>12 DEF ExpireHome
<1>13. ASSUME NEW w \in Ws, ExpireWorkspace(w) PROVE Consented'
  BY <1>2, <1>3, <1>13, IdleType DEF ExpireWorkspace
<1>14. ASSUME NEW w \in Ws, EnsureHome(w) PROVE Consented'
  BY <1>2, <1>14 DEF EnsureHome
<1>15. ASSUME NEW w \in Ws, FinalizeHome(w) PROVE Consented'
  <2>1. UNCHANGED <<cr, used, consent, destroyed>>
    BY <1>15 DEF FinalizeHome
  <2>2. rc'.ws = w /\ (rc'.pc = "destroy" => cr[w].deleteHome)
    BY <1>15 DEF FinalizeHome, DeletesHome
  <2>3. QED
    BY <2>1, <2>2 DEF Consented
<1>16. ASSUME NEW w \in Ws, DestroyHome(w) PROVE Consented'
  <2>1. /\ Destroy(Vol(w), w, "choice") /\ UNCHANGED <<cr, used, consent>>
        /\ rc'.pc # "destroy" /\ rc.pc = "destroy" /\ rc.ws = w
    BY <1>16 DEF DestroyHome
  <2>2. used.api = 0 => w \in consent
    BY <2>1 DEF Consented
  <2>3. QED
    BY <1>11, <2>1, <2>2
<1>17. ASSUME NEW w \in Ws, Release(w) PROVE Consented'
  <2> DEFINE c == [cr[w] EXCEPT !.st = "gone", !.vol = Derived[w], !.deleteHome = FALSE]
  <2>1. cr' = [cr EXCEPT ![w] = c] /\ UNCHANGED <<used, consent, destroyed>> /\ rc' = Idle
    BY <1>17 DEF Release
  <2>2. ~c.deleteHome
    BY <1>1 DEF CRs
  <2> HIDE DEF c
  <2>3. QED
    BY <1>1, <1>2, <2>1, <2>2, IdleType
<1>18. ASSUME NEW n \in Names, ClaimReleased(n) PROVE Consented'
  BY <1>2, <1>18 DEF ClaimReleased
<1>19. ASSUME NEW n \in Names, CheckRetained(n) PROVE Consented'
  <2>1. used'.api = used.api
    BY <1>1, <1>19 DEF CheckRetained
  <2>2. QED
    BY <1>19, <2>1 DEF CheckRetained, Consented
<1>20. ASSUME NEW n \in Names, DeleteRetained(n) PROVE Consented'
  BY <1>11, <1>20 DEF DeleteRetained
<1>21. CASE ReconcileFails
  <2>1. used'.api = used.api
    BY <1>1, <1>21 DEF ReconcileFails
  <2>2. QED
    BY <1>21, <2>1, IdleType DEF ReconcileFails, Consented
<1>22. CASE UNCHANGED vars
  BY <1>2, <1>22 DEF vars
<1>23. ASSUME NEW w \in Ws, (\E viaApi \in BOOLEAN : CreateFresh(w, viaApi)) \/ \E n \in Names : CreateAdopting(w, n)
       PROVE  Consented'
  BY <1>4, <1>23, DerivedAssumption DEF CreateFresh, CreateAdopting
<1>24. ASSUME NEW w \in Ws, Operator(w) PROVE Consented'
  BY <1>10, <1>12, <1>13, <1>14, <1>15, <1>16, <1>17, <1>24 DEF Operator
<1>25. QED
  BY <1>5, <1>6, <1>7, <1>8, <1>9, <1>18, <1>19, <1>20, <1>21, <1>22, <1>23, <1>24 DEF Next

\* A volume is deleted for the user's choice only where a Delete call with
\* keepVolume=false made it, whatever else happens, as long as no such call
\* fails between its two writes.
THEOREM ConsentNeeded == Spec => []NoLossWithoutConsent
<1>1. Init => Consented
  BY IdleType DEF Init, Consented
<1>2. IInv /\ Consented /\ [Next]_vars => Consented'
  BY StepConsented
<1>3. Consented => NoLossWithoutConsent
  BY DEF Consented, NoLossWithoutConsent, LossNeedsConsent
<1>4. QED
  BY <1>1, <1>2, <1>3, InitIInv, StepIInv, PTL DEF Spec

-----------------------------------------------------------------------------
(* Whose data a deletion destroys, as long as nobody asks for the volume   *)
(* of a live workspace (Serial).                                           *)

Live(w) == cr[w].st = "live"

\* No two live workspaces, nor one and a volume deletion, name the same claim.
NamedOnce ==
  /\ \A v, w \in Ws : Live(v) /\ Live(w) /\ Vol(v) = Vol(w) => v = w
  /\ \A w \in Ws : Live(w) => vapi # Vol(w)

\* An identity is handed out once, and what was destroyed is in no bound claim.
Identities ==
  /\ \A n \in Names : pvc[n].st # "none" => pvc[n].id \in 1..born
  /\ \A n, m \in Names : pvc[n].st # "none" /\ pvc[m].st # "none" /\ pvc[n].id = pvc[m].id => n = m
  /\ \A x \in destroyed : x.id \in 1..born /\ \A n \in Names : pvc[n].st = "bound" => pvc[n].id # x.id
  /\ \A w \in Ws : home[w] \in 0..born /\ (cr[w].st = "none" => home[w] = 0)

\* The bound claim with the data of a live workspace is the one it names, under its label.
HomeNamed ==
  \A w \in Ws, n \in Names :
    Live(w) /\ pvc[n].st = "bound" /\ home[w] = pvc[n].id => Vol(w) = n /\ pvc[n].ws = w

\* The claim the worker is about to delete by name still has the label it was decided on.
Decided ==
  rc.pc = "destroy" =>
    /\ rc.ws \in Ws /\ cr[rc.ws].st = "deleting"
    /\ pvc[Vol(rc.ws)].st = "bound" => pvc[Vol(rc.ws)].ws = rc.ws

Safe == NamedOnce /\ Identities /\ HomeNamed /\ Decided /\ LiveHomeSafe

\* A step after which no more workspaces are live, and the live ones have what they had.
LEMMA FewerLive ==
  ASSUME IInv, Safe, UNCHANGED <<pvc, born, destroyed>>,
         \A w \in Ws : /\ Live(w)' => Live(w) /\ Vol(w)' = Vol(w) /\ home'[w] = home[w] /\ vapi' # Vol(w)
                       /\ home'[w] \in {0, home[w]} /\ (cr'[w].st = "none" => cr[w].st = "none"),
         \/ rc'.pc # "destroy"
         \/ rc' = rc /\ (rc.pc = "destroy" => cr'[rc.ws].st = cr[rc.ws].st /\ Vol(rc.ws)' = Vol(rc.ws))
  PROVE  Safe'
<1>1. NamedOnce'
  BY DEF Safe, NamedOnce
<1>2. Identities'
  <2>1. born \in Nat /\ \A w \in Ws : home[w] \in 0..born
    BY DEF IInv, TypeOK, Safe, Identities
  <2>2. \A w \in Ws : home'[w] \in 0..born' /\ (cr'[w].st = "none" => home'[w] = 0)
    BY <2>1 DEF Safe, Identities
  <2>3. QED
    BY <2>2 DEF Safe, Identities
<1>3. HomeNamed'
  BY DEF Safe, HomeNamed
<1>4. Decided'
  BY DEF Safe, Decided
<1>5. LiveHomeSafe'
  BY DEF Safe, LiveHomeSafe, Live
<1>6. QED
  BY <1>1, <1>2, <1>3, <1>4, <1>5 DEF Safe

\* A step of the claims alone, in which claims only go or change their label.
LEMMA FewerClaims ==
  ASSUME IInv, Safe, UNCHANGED <<cr, born, destroyed, home>>,
         \A n \in Names : /\ pvc'[n].st # "none" => pvc[n].st # "none" /\ pvc'[n].id = pvc[n].id
                          /\ pvc'[n].st = "bound" => pvc[n].st = "bound"
                          /\ pvc'[n].st = "bound" /\ pvc'[n].ws # pvc[n].ws => ~Live(pvc[n].ws) \/ pvc[n].ws \notin Ws,
         vapi' \in {vapi, "none"}, Decided'
  PROVE  Safe'
<1>1. NamedOnce'
  <2>1. \A w \in Ws : Vol(w) \in Names /\ Vol(w)' = Vol(w) /\ Live(w)' = Live(w)
    BY DEF IInv, TypeOK, CRs, Vol, Live
  <2>2. QED
    BY <2>1, NoWsAssumption DEF Safe, NamedOnce
<1>2. Identities'
  BY DEF Safe, Identities
<1>3. HomeNamed'
  BY DEF Safe, HomeNamed, Live, Vol
<1>4. LiveHomeSafe'
  BY DEF Safe, LiveHomeSafe
<1>5. QED
  BY <1>1, <1>2, <1>3, <1>4 DEF Safe

\* A deletion by name, for somebody who owns what a live workspace has there, if one has it.
LEMMA DestroySafe ==
  ASSUME IInv, Safe, NEW n \in Names, NEW by \in Ws \cup {"api"}, NEW why \in {"choice", "ttl", "volume"},
         Destroy(n, by, why), UNCHANGED <<cr, born, home>>, vapi' \in {vapi, "none"}, rc'.pc # "destroy" \/ rc' = rc,
         pvc[n].st = "bound" => \A w \in Ws : Live(w) /\ home[w] = pvc[n].id => w = by
  PROVE  Safe'
<1>1. TypeOK
  BY DEF IInv
<1>2. /\ \A m \in Names : m # n => pvc'[m] = pvc[m]
      /\ pvc'[n].st # "bound"
  BY <1>1, DestroyFacts
<1>3. CASE pvc[n].st # "bound"
  <2>1. UNCHANGED <<pvc, destroyed>>
    BY <1>3 DEF Destroy
  <2>2. Decided'
    BY <2>1 DEF Safe, Decided, Vol
  <2>3. QED
    BY <2>1, <2>2, FewerClaims
<1>4. CASE pvc[n].st = "bound"
  <2> DEFINE x == [id |-> pvc[n].id, by |-> by, why |-> why]
             c == [pvc[n] EXCEPT !.st = "terminating"]
  <2>1. /\ c.id = pvc[n].id /\ c.ws = pvc[n].ws /\ c.st = "terminating"
        /\ x.id = pvc[n].id /\ x.by = by
    BY <1>1 DEF TypeOK, Claims
  <2>2. pvc' = [pvc EXCEPT ![n] = c] /\ destroyed' = destroyed \cup {x}
    BY <1>4 DEF Destroy
  <2> HIDE DEF c, x
  <2>3. pvc'[n] = c
    BY <1>1, <2>2 DEF TypeOK
  <2>4. NamedOnce'
    <3>1. \A w \in Ws : Vol(w) \in Names /\ Vol(w)' = Vol(w) /\ Live(w)' = Live(w)
      BY <1>1 DEF TypeOK, CRs, Vol, Live
    <3>2. QED
      BY <3>1, NoWsAssumption DEF Safe, NamedOnce
  <2>5. Identities'
    <3>1. \A m \in Names : /\ pvc'[m].st # "none" => pvc[m].st # "none" /\ pvc'[m].id = pvc[m].id
                           /\ pvc'[m].st = "bound" => pvc[m].st = "bound" /\ m # n
      BY <1>2, <1>4, <2>1, <2>3
    <3>2. x.id \in 1..born /\ \A m \in Names : pvc'[m].st = "bound" => pvc'[m].id # x.id
      BY <1>2, <1>4, <2>1, <3>1 DEF Safe, Identities
    <3>3. QED
      BY <2>2, <3>1, <3>2 DEF Safe, Identities
  <2>6. HomeNamed'
    BY <1>2 DEF Safe, HomeNamed, Live, Vol
  <2>7. Decided'
    <3>1. rc.ws \in Ws => cr[rc.ws].vol \in Names
      BY <1>1 DEF TypeOK, CRs
    <3>2. QED
      BY <1>2, <3>1 DEF Safe, Decided, Vol
  <2>8. LiveHomeSafe'
    BY <1>4, <2>1, <2>2 DEF Safe, LiveHomeSafe, Live
  <2>9. QED
    BY <2>4, <2>5, <2>6, <2>7, <2>8 DEF Safe
<1>5. QED
  BY <1>3, <1>4

\* ensureHomePVC gives a live workspace a new claim, or one nobody else that lives has.
LEMMA EnsureSafe == ASSUME IInv, Safe, NEW w \in Ws, EnsureHome(w) PROVE Safe'
<1> DEFINE n == Vol(w)
           c == pvc'[n]
<1>1. /\ cr \in [Ws -> CRs] /\ pvc \in [Names -> Claims] /\ born \in Nat /\ home \in [Ws -> Nat]
      /\ n \in Names
  BY DEF IInv, TypeOK, CRs, Vol
<1>2. /\ Live(w) /\ rc.pc = "idle" /\ UNCHANGED <<cr, rc, vapi, destroyed>>
      /\ home' = [home EXCEPT ![w] = c.id]
  BY IdleType DEF EnsureHome, Reconcilable, Live
<1>3. \/ pvc[n].st = "none" /\ born' = born + 1 /\ c.id = born'
      \/ pvc[n].st = "bound" /\ born' = born /\ c.id = pvc[n].id
  <2>1. CASE pvc[n].st = "none" /\ born' = born + 1
             /\ pvc' = [pvc EXCEPT ![n] = Labelled([NoClaim EXCEPT !.st = "bound", !.id = born'], w)]
    <3> DEFINE f == [NoClaim EXCEPT !.st = "bound", !.id = born']
    <3>1. born' \in Nat
      BY <1>1, <2>1
    <3>2. f \in Claims /\ f.id = born'
      BY <3>1, FreshType DEF NoClaim
    <3> HIDE DEF f
    <3>3. c = Labelled(f, w)
      BY <1>1, <2>1 DEF f
    <3>4. QED
      BY <2>1, <3>2, <3>3, LabelledFacts
  <2>2. CASE Usable(pvc[n], w) /\ born' = born /\ pvc' = [pvc EXCEPT ![n] = Labelled(pvc[n], w)]
    BY <1>1, <2>2, LabelledFacts DEF Usable
  <2>3. QED
    BY <2>1, <2>2 DEF EnsureHome
<1>4. c.ws = w /\ \A m \in Names : m # n => pvc'[m] = pvc[m]
  <2>1. PICK d \in Claims : pvc' = [pvc EXCEPT ![n] = Labelled(d, w)]
    <3>1. CASE born' = born + 1 /\ pvc' = [pvc EXCEPT ![n] = Labelled([NoClaim EXCEPT !.st = "bound", !.id = born'], w)]
      <4>1. born' \in Nat
        BY <1>1, <3>1
      <4>2. QED
        BY <3>1, <4>1, FreshType
    <3>2. CASE pvc' = [pvc EXCEPT ![n] = Labelled(pvc[n], w)]
      BY <1>1, <3>2
    <3>3. QED
      BY <3>1, <3>2 DEF EnsureHome
  <2>2. QED
    BY <1>1, <2>1, LabelledFacts
<1> HIDE DEF c
<1>5. /\ c.id \in 1..born' /\ born' \in Nat /\ born <= born' /\ home'[w] = c.id
      /\ \A v \in Ws : v # w => home'[v] = home[v]
  BY <1>1, <1>2, <1>3 DEF Safe, Identities
<1>6. \A v \in Ws : Live(v)' = Live(v) /\ Vol(v)' = Vol(v)
  BY <1>2 DEF Live, Vol
<1>7. NamedOnce'
  BY <1>2, <1>6 DEF Safe, NamedOnce
<1>8. ASSUME NEW v \in Ws, v # w, Live(v) PROVE home[v] # c.id
  <2>1. home[v] \in 0..born
    BY DEF Safe, Identities
  <2>2. CASE pvc[n].st = "none" /\ born' = born + 1 /\ c.id = born'
    BY <1>1, <2>1, <2>2
  <2>3. CASE pvc[n].st = "bound" /\ c.id = pvc[n].id
    <3>1. home[v] = pvc[n].id => Vol(v) = n
      BY <1>1, <1>8, <2>3 DEF Safe, HomeNamed
    <3>2. QED
      BY <1>2, <1>8, <2>3, <3>1 DEF Safe, NamedOnce
  <2>4. QED
    BY <1>3, <2>2, <2>3
<1>9. \A m \in Names \ {n} : pvc[m].st # "none" => pvc[m].id # c.id
  BY <1>1, <1>3 DEF Safe, Identities
<1>10. \A x \in destroyed : x.id # c.id
  BY <1>1, <1>3 DEF Safe, Identities
<1>11. Identities'
  <2>1. \A m \in Names : pvc'[m].st # "none" => pvc'[m].id \in 1..born'
    BY <1>1, <1>4, <1>5 DEF Safe, Identities, c
  <2>2. ASSUME NEW m \in Names, NEW k \in Names, pvc'[m].st # "none", pvc'[k].st # "none", pvc'[m].id = pvc'[k].id
        PROVE  m = k
    BY <1>4, <1>9, <2>2 DEF Safe, Identities, c
  <2>3. \A x \in destroyed' : x.id \in 1..born' /\ \A m \in Names : pvc'[m].st = "bound" => pvc'[m].id # x.id
    BY <1>1, <1>2, <1>4, <1>5, <1>10 DEF Safe, Identities, c
  <2>4. \A v \in Ws : home'[v] \in 0..born' /\ (cr'[v].st = "none" => home'[v] = 0)
    BY <1>1, <1>2, <1>5 DEF Safe, Identities, Live
  <2>5. QED
    BY <2>1, <2>2, <2>3, <2>4 DEF Identities
<1>12. HomeNamed'
  <2> SUFFICES ASSUME NEW v \in Ws, NEW m \in Names, Live(v), pvc'[m].st = "bound", home'[v] = pvc'[m].id
               PROVE  Vol(v) = m /\ pvc'[m].ws = v
    BY <1>6 DEF HomeNamed
  <2>1. CASE v = w
    BY <1>4, <1>5, <1>9, <2>1 DEF c
  <2>2. CASE v # w
    BY <1>4, <1>5, <1>8, <2>2 DEF c, Safe, HomeNamed
  <2>3. QED
    BY <2>1, <2>2
<1>13. Decided'
  BY <1>2 DEF Decided
<1>14. LiveHomeSafe'
  BY <1>2, <1>5, <1>10 DEF Safe, LiveHomeSafe
<1>15. QED
  BY <1>7, <1>11, <1>12, <1>13, <1>14 DEF Safe

\* Every step, when nobody asks for the volume of a live workspace.
LEMMA StepSafe == ASSUME Serial, IInv, Safe, [Next]_vars PROVE Safe'
<1>1. /\ cr \in [Ws -> CRs] /\ rc \in Jobs /\ pvc \in [Names -> Claims]
      /\ \A w \in Ws : cr[w] \in CRs /\ Vol(w) \in Names
      /\ \A w \in Ws : Live(w) => vapi # Vol(w)
  BY DEF IInv, TypeOK, CRs, Vol, Safe, NamedOnce
<1>2. ASSUME NEW w \in Ws, NEW c \in CRs, cr' = [cr EXCEPT ![w] = c], c.vol = cr[w].vol,
             c.st = cr[w].st \/ (cr[w].st = "live" /\ c.st \in {"deleting", "gone"}),
             UNCHANGED <<pvc, born, destroyed, home, vapi>>, rc' = rc \/ rc'.pc # "destroy"
      PROVE  Safe'
  <2>1. \A v \in Ws : /\ Vol(v)' = Vol(v) /\ (Live(v)' => Live(v)) /\ (cr'[v].st = "none" => cr[v].st = "none")
                      /\ cr[v].st = "deleting" => cr'[v].st = "deleting"
    BY <1>1, <1>2 DEF Vol, Live
  <2>2. rc.pc = "destroy" => rc.ws \in Ws /\ cr[rc.ws].st = "deleting"
    BY DEF Safe, Decided
  <2>3. QED
    BY <1>1, <1>2, <2>1, <2>2, FewerLive
<1>3. ASSUME NEW w \in Ws, cr[w].st = "live", cr' = [cr EXCEPT ![w] = Doomed(cr[w])],
             UNCHANGED <<pvc, born, destroyed, home, vapi>>, rc' = rc \/ rc'.pc # "destroy"
      PROVE  Safe'
  <2>1. Doomed(cr[w]) \in CRs /\ Doomed(cr[w]).vol = cr[w].vol /\ Doomed(cr[w]).st \in {"deleting", "gone"}
    BY <1>1, DoomedFacts DEF Doomed, CRs
  <2>2. QED
    BY <1>2, <1>3, <2>1
<1>4. ASSUME UNCHANGED <<cr, pvc, born, destroyed, home, vapi>>, rc' = rc \/ rc'.pc # "destroy"
      PROVE  Safe'
  BY <1>1, <1>4, FewerLive DEF Live, Vol
<1>5. ASSUME NEW w \in Ws, NEW n \in Names, Created(w, n) PROVE Safe'
  <2> DEFINE c == [cr[w] EXCEPT !.st = "live", !.vol = n]
  <2>1. /\ cr' = [cr EXCEPT ![w] = c] /\ cr[w].st = "none" /\ ~Claimed(n)
        /\ UNCHANGED <<pvc, vapi, rc, born, home, destroyed>>
    BY <1>5 DEF Created
  <2>2. c.st = "live" /\ c.vol = n
    BY <1>1 DEF CRs
  <2> HIDE DEF c
  <2>3. /\ cr'[w].st = "live" /\ cr'[w].vol = n
        /\ \A v \in Ws : v # w => cr'[v] = cr[v]
    BY <1>1, <2>1, <2>2
  <2>4. NamedOnce'
    BY <2>1, <2>3 DEF Safe, NamedOnce, Claimed, Live, Vol
  <2>5. Identities' /\ home[w] = 0
    BY <2>1, <2>3 DEF Safe, Identities
  <2>6. /\ \A m \in Names : pvc[m].st # "none" => pvc[m].id # 0
        /\ \A x \in destroyed : x.id # 0
    BY DEF Safe, Identities, IInv, TypeOK
  <2>7. HomeNamed'
    BY <2>1, <2>3, <2>5, <2>6 DEF Safe, HomeNamed, Live, Vol
  <2>8. LiveHomeSafe'
    BY <2>1, <2>3, <2>5, <2>6 DEF Safe, LiveHomeSafe
  <2>9. Decided'
    BY <2>1, <2>3 DEF Safe, Decided, Vol
  <2>10. QED
    BY <2>4, <2>5, <2>7, <2>8, <2>9 DEF Safe
<1>6. ASSUME NEW w \in Ws, DeleteKeeping(w) PROVE Safe'
  BY <1>3, <1>6 DEF DeleteKeeping
<1>7. ASSUME NEW w \in Ws, StampDeleteHome(w) PROVE Safe'
  <2> DEFINE c == [cr[w] EXCEPT !.deleteHome = TRUE]
  <2>1. c \in CRs /\ c.vol = cr[w].vol /\ c.st = cr[w].st
    BY <1>1 DEF CRs
  <2>2. cr' = [cr EXCEPT ![w] = c]
    BY <1>7 DEF StampDeleteHome
  <2> HIDE DEF c
  <2>3. QED
    BY <1>2, <1>7, <2>1, <2>2 DEF StampDeleteHome
<1>8. ASSUME NEW w \in Ws, DeleteStamped(w) PROVE Safe'
  BY <1>3, <1>4, <1>8 DEF DeleteStamped
<1>9. ASSUME NEW w \in Ws, DeleteFails(w) \/ Expire(w) PROVE Safe'
  BY <1>4, <1>9 DEF DeleteFails, Expire
<1>10. ASSUME NEW w \in Ws, AddFinalizer(w) PROVE Safe'
  <2> DEFINE c == [cr[w] EXCEPT !.finalizer = TRUE]
  <2>1. c \in CRs /\ c.vol = cr[w].vol /\ c.st = cr[w].st
    BY <1>1 DEF CRs
  <2>2. cr' = [cr EXCEPT ![w] = c]
    BY <1>10 DEF AddFinalizer
  <2> HIDE DEF c
  <2>3. QED
    BY <1>2, <1>10, <2>1, <2>2 DEF AddFinalizer
<1>11. ASSUME NEW w \in Ws, ExpireHome(w) PROVE Safe'
  <2>1. /\ Live(w) /\ Destroy(Vol(w), w, "ttl") /\ rc'.pc = "expire"
        /\ UNCHANGED <<cr, born, home, vapi>>
    BY <1>11 DEF ExpireHome, Reconcilable, Live
  <2>2. pvc[Vol(w)].st = "bound" => \A v \in Ws : Live(v) /\ home[v] = pvc[Vol(w)].id => v = w
    BY <1>1, <2>1 DEF Safe, NamedOnce, HomeNamed
  <2>3. QED
    BY <1>1, <2>1, <2>2, DestroySafe
<1>12. ASSUME NEW w \in Ws, ExpireWorkspace(w) PROVE Safe'
  BY <1>3, <1>4, <1>12, IdleType DEF ExpireWorkspace
<1>13. ASSUME NEW w \in Ws, FinalizeHome(w) PROVE Safe'
  <2> DEFINE n == Vol(w)
  <2>1. /\ UNCHANGED <<cr, vapi, born, home, destroyed>> /\ cr[w].st = "deleting"
        /\ rc'.ws = w /\ n \in Names
    BY <1>1, <1>13 DEF FinalizeHome
  <2>2. CASE ~StillHome(w) /\ rc' = [ws |-> w, pc |-> "release"] /\ pvc' = pvc
    BY <1>4, <2>1, <2>2
  <2>3. CASE StillHome(w) /\ rc' = [ws |-> w, pc |-> "destroy"] /\ pvc' = pvc
    <3>1. Decided'
      BY <2>1, <2>3 DEF Decided, StillHome, Vol
    <3>2. QED
      BY <2>1, <2>3, <3>1, FewerClaims
  <2>4. CASE StillHome(w) /\ rc' = [ws |-> w, pc |-> "release"] /\ pvc' = [pvc EXCEPT ![n] = Retain(pvc[n])]
    <3>1. /\ Retain(pvc[n]).id = pvc[n].id /\ Retain(pvc[n]).st = pvc[n].st
          /\ pvc[n].ws = w /\ ~Live(w)
      BY <1>1, <2>1, <2>4 DEF Retain, Claims, StillHome, Live
    <3>2. /\ pvc'[n] = Retain(pvc[n])
          /\ \A m \in Names : m # n => pvc'[m] = pvc[m]
      BY <1>1, <2>1, <2>4
    <3>3. Decided'
      BY <2>4 DEF Decided
    <3>4. QED
      BY <2>1, <3>1, <3>2, <3>3, FewerClaims
  <2>5. QED
    BY <1>13, <2>2, <2>3, <2>4 DEF FinalizeHome
<1>14. ASSUME NEW w \in Ws, DestroyHome(w) PROVE Safe'
  <2>1. /\ rc.pc = "destroy" /\ rc.ws = w /\ Destroy(Vol(w), w, "choice") /\ rc'.pc = "release"
        /\ UNCHANGED <<cr, born, home, vapi>>
    BY <1>14 DEF DestroyHome
  <2>2. pvc[Vol(w)].st = "bound" => \A v \in Ws : Live(v) /\ home[v] = pvc[Vol(w)].id => v = w
    BY <1>1, <2>1 DEF Safe, HomeNamed, Decided
  <2>3. QED
    BY <1>1, <2>1, <2>2, DestroySafe
<1>15. ASSUME NEW w \in Ws, Release(w) PROVE Safe'
  <2> DEFINE c == [cr[w] EXCEPT !.st = "gone", !.vol = Derived[w], !.deleteHome = FALSE]
  <2>1. /\ cr' = [cr EXCEPT ![w] = c] /\ rc' = Idle /\ home' = [home EXCEPT ![w] = 0]
        /\ UNCHANGED <<pvc, born, destroyed, vapi>>
    BY <1>15 DEF Release
  <2>2. c.st = "gone"
    BY <1>1 DEF CRs
  <2> HIDE DEF c
  <2>3. /\ cr'[w].st = "gone" /\ \A v \in Ws : v # w => cr'[v] = cr[v] /\ home'[v] = home[v]
        /\ home'[w] = 0
    BY <1>1, <2>1, <2>2 DEF IInv, TypeOK
  <2>4. QED
    BY <1>1, <2>1, <2>3, IdleType, FewerLive DEF Live, Vol
<1>16. ASSUME NEW n \in Names, ClaimReleased(n) PROVE Safe'
  <2>1. /\ pvc'[n] = NoClaim /\ \A m \in Names : m # n => pvc'[m] = pvc[m]
        /\ UNCHANGED <<cr, born, destroyed, home, vapi, rc>>
    BY <1>1, <1>16 DEF ClaimReleased
  <2>2. Decided'
    BY <1>1, <2>1, NoClaimType DEF Safe, Decided, Vol
  <2>3. QED
    BY <2>1, <2>2, NoClaimType, FewerClaims
<1>17. ASSUME NEW n \in Names, CheckRetained(n) PROVE Safe'
  <2>1. ~Claimed(n) /\ vapi' = n /\ UNCHANGED <<cr, pvc, born, destroyed, home, rc>>
    BY <1>17 DEF CheckRetained
  <2>2. QED
    BY <2>1, FewerLive DEF Claimed, Live, Vol
<1>18. ASSUME NEW n \in Names, DeleteRetained(n) PROVE Safe'
  <2>1. vapi = n /\ vapi' = "none" /\ Destroy(n, "api", "volume") /\ UNCHANGED <<cr, born, home, rc>>
    BY <1>18 DEF DeleteRetained
  <2>2. pvc[n].st = "bound" => \A v \in Ws : Live(v) => home[v] # pvc[n].id
    BY <1>1, <2>1 DEF Safe, HomeNamed
  <2>3. QED
    BY <2>1, <2>2, DestroySafe
<1>19. CASE ReconcileFails \/ UNCHANGED vars
  BY <1>4, <1>19, IdleType DEF ReconcileFails, vars
<1>20. ASSUME NEW w \in Ws, (\E viaApi \in BOOLEAN : CreateFresh(w, viaApi)) \/ \E n \in Names : CreateAdopting(w, n)
       PROVE  Safe'
  BY <1>5, <1>20, DerivedAssumption DEF CreateFresh, CreateAdopting
<1>21. ASSUME NEW w \in Ws, Operator(w) PROVE Safe'
  BY <1>10, <1>11, <1>12, <1>13, <1>14, <1>15, <1>21, EnsureSafe DEF Operator
<1>22. QED
  BY <1>6, <1>7, <1>8, <1>9, <1>16, <1>17, <1>18, <1>19, <1>20, <1>21 DEF Next

\* The data a live workspace was given is never deleted on behalf of anyone else, for any number
\* of workspaces, names and owners and any order of adoptions, teardowns and expiries, provided
\* nobody asks for the volume of a live workspace: the ownership guard of finalizeHomeVolume is
\* evaluated by the one worker that also hands volumes out.
THEOREM LiveHomesSafe == ASSUME Serial PROVE Spec => []LiveHomeSafe
<1>1. Init => Safe
  <2> SUFFICES ASSUME Init PROVE Safe
    OBVIOUS
  <2>1. \A w \in Ws : cr[w].st = "none" /\ home[w] = 0
    BY DEF Init
  <2>2. \A n \in Names : pvc[n].st = "none"
    BY NoClaimType DEF Init
  <2>3. QED
    BY <2>1, <2>2, IdleType DEF Init, Safe, NamedOnce, Identities, HomeNamed, Decided, LiveHomeSafe, Live
<1>2. IInv /\ Safe /\ [Next]_vars => Safe'
  BY StepSafe
<1>3. Safe => LiveHomeSafe
  BY DEF Safe
<1>4. QED
  BY <1>1, <1>2, <1>3, InitIInv, StepIInv, PTL DEF Spec

-----------------------------------------------------------------------------
(* Tenancy.                                                                *)
(* The namespace around the homes: types first, for any number of          *)
(* workspaces and any number of edits, faults and restarts.                *)

PassSteps == {"finalizer", "namespace", "bootstrap", "policy", "claim", "files", "workload",
              "home volume", "sweep", "release"}

\* The steps that place a workspace, and those that let it go.
PlacingSteps == {"namespace", "bootstrap", "policy", "claim", "files", "workload"}
LeavingSteps == {"home volume", "sweep", "release"}

Namespaces == [st : {"none", "active", "terminating"}, managed : BOOLEAN,
               cleanup : Policies \cup {"unset"}]

\* The namespace and its cached copy; one that is gone leaves nothing behind.
NamespaceTyped == ns \in Namespaces /\ nsSeen \in Namespaces /\ (ns.st = "none" => ns = NoNs)

\* What is kept once per namespace.
SharedTyped ==
    /\ netpol \in {"none", "current", "old", "taken"}
    /\ quota \in BOOLEAN /\ pull \in BOOLEAN
    /\ todo \subseteq Tenants /\ jtodo \in BOOLEAN
    /\ jan \in {"idle", "loads", "claims", "files", "delete"}
    /\ cleanup \in Policies
    /\ late \subseteq Tenants

\* What is kept per workspace.
TenantsTyped ==
    /\ ws \in [Tenants -> {"none", "new", "live", "deleting", "gone"}]
    /\ claim \in [Tenants -> {"none", "bound", "retained", "terminating"}]
    /\ load \in [Tenants -> {"none", "up", "stopping"}]
    /\ files \in [Tenants -> BOOLEAN]

PassTyped == rec = NoPass \/ rec \in [ws : Tenants, pc : PassSteps]

\* A pass is at a step that the CR it works on calls for, and before the
\* finalizer goes the sweep has been.
PassFits ==
    \A w \in Tenants : rec.ws = w =>
        /\ rec.pc \in PlacingSteps => ws[w] \in {"live", "deleting"}
        /\ rec.pc \in LeavingSteps => ws[w] = "deleting"
        /\ rec.pc = "release" => load[w] # "up" /\ ~files[w]

\* Without the finalizer a workspace has nothing but a home.
NothingElse ==
    \A w \in Tenants : ws[w] \in {"none", "new", "gone"} => load[w] # "up" /\ ~files[w]

TenancyInv ==
    NamespaceTyped /\ SharedTyped /\ TenantsTyped /\ PassTyped /\ PassFits /\ NothingElse

\* A pass that goes on placing a live or deleted workspace, or ends, fits it.
LEMMA TurnFits ==
  ASSUME NEW w \in Tenants, NEW p \in PlacingSteps,
         ws'[w] \in {"live", "deleting"} \/ rec' = NoPass,
         rec' = NoPass \/ rec' = [ws |-> w, pc |-> p]
  PROVE  PassTyped' /\ PassFits'
<1>1. CASE rec' = NoPass
  <2>1. rec'.pc = "idle"
    BY <1>1 DEF NoPass
  <2> QED BY <1>1, <2>1 DEF PassTyped, PassFits, PlacingSteps, LeavingSteps
<1>2. CASE rec' = [ws |-> w, pc |-> p] /\ ws'[w] \in {"live", "deleting"}
  <2>1. p \in PassSteps /\ p \notin LeavingSteps
    BY DEF PassSteps, PlacingSteps, LeavingSteps
  <2>2. rec' \in [ws : Tenants, pc : PassSteps]
    BY <1>2, <2>1
  <2>3. rec'.ws = w /\ rec'.pc = p
    BY <1>2
  <2>4. p # "release"
    BY DEF PlacingSteps
  <2> QED BY <1>2, <2>1, <2>2, <2>3, <2>4 DEF PassTyped, PassFits
<1> QED BY <1>1, <1>2

\* Users and the cluster, about one workspace: a workspace without a finalizer goes at once.
LEMMA TenantTypes ==
  ASSUME TenancyInv, NEW w \in Tenants, People(w) \/ Cluster(w)
  PROVE  TenancyInv'
<1>1. CASE CreateWorkspace(w)
  <2>1. NamespaceTyped' /\ TenantsTyped'
    BY <1>1 DEF TenancyInv, NamespaceTyped, TenantsTyped, CreateWorkspace, content
  <2>2. SharedTyped'
    BY <1>1 DEF TenancyInv, NamespaceTyped, SharedTyped, CreateWorkspace, Watched
  <2>3. PassTyped' /\ PassFits' /\ NothingElse'
    BY <1>1 DEF TenancyInv, TenantsTyped, PassTyped, PassFits, NothingElse, CreateWorkspace,
       content, PlacingSteps, LeavingSteps
  <2> QED BY <2>1, <2>2, <2>3 DEF TenancyInv
<1>2. CASE DeleteWorkspace(w)
  <2>1. NamespaceTyped' /\ TenantsTyped'
    BY <1>2 DEF TenancyInv, NamespaceTyped, TenantsTyped, DeleteWorkspace, content
  <2>2. SharedTyped'
    BY <1>2 DEF TenancyInv, NamespaceTyped, SharedTyped, DeleteWorkspace, Watched
  <2>3. PassTyped' /\ PassFits' /\ NothingElse'
    BY <1>2 DEF TenancyInv, TenantsTyped, PassTyped, PassFits, NothingElse, DeleteWorkspace,
       content, PlacingSteps, LeavingSteps
  <2> QED BY <2>1, <2>2, <2>3 DEF TenancyInv
<1>3. CASE DeleteRetainedVolume(w)
  <2>1. NamespaceTyped' /\ TenantsTyped'
    BY <1>3 DEF TenancyInv, NamespaceTyped, TenantsTyped, DeleteRetainedVolume
  <2>2. SharedTyped'
    BY <1>3 DEF TenancyInv, NamespaceTyped, SharedTyped, DeleteRetainedVolume
  <2>3. PassTyped' /\ PassFits' /\ NothingElse'
    BY <1>3 DEF TenancyInv, TenantsTyped, PassTyped, PassFits, NothingElse, DeleteRetainedVolume,
       PlacingSteps, LeavingSteps
  <2> QED BY <2>1, <2>2, <2>3 DEF TenancyInv
<1>4. CASE WorkloadGone(w)
  <2>1. NamespaceTyped' /\ TenantsTyped'
    BY <1>4 DEF TenancyInv, NamespaceTyped, TenantsTyped, WorkloadGone
  <2>2. SharedTyped'
    BY <1>4 DEF TenancyInv, NamespaceTyped, SharedTyped, WorkloadGone, Watched
  <2>3. PassTyped' /\ PassFits' /\ NothingElse'
    BY <1>4 DEF TenancyInv, TenantsTyped, PassTyped, PassFits, NothingElse, WorkloadGone,
       PlacingSteps, LeavingSteps
  <2> QED BY <2>1, <2>2, <2>3 DEF TenancyInv
<1>5. CASE HomeGone(w)
  <2>1. NamespaceTyped' /\ TenantsTyped'
    BY <1>5 DEF TenancyInv, NamespaceTyped, TenantsTyped, HomeGone
  <2>2. SharedTyped'
    BY <1>5 DEF TenancyInv, NamespaceTyped, SharedTyped, HomeGone
  <2>3. PassTyped' /\ PassFits' /\ NothingElse'
    BY <1>5 DEF TenancyInv, TenantsTyped, PassTyped, PassFits, NothingElse, HomeGone,
       PlacingSteps, LeavingSteps
  <2> QED BY <2>1, <2>2, <2>3 DEF TenancyInv
<1> QED BY <1>1, <1>2, <1>3, <1>4, <1>5 DEF People, Cluster

\* Administrators, a restart, the caches and the cascade: none of them goes on with a pass.
LEMMA AmbientTypes ==
  ASSUME TenancyInv,
         EditTemplate \/ TakeOver \/ Restart \/ DeliverNamespace \/ RestGone \/ NamespaceGone
  PROVE  TenancyInv'
<1>1. CASE EditTemplate
  <2>1. NamespaceTyped' /\ TenantsTyped'
    BY <1>1 DEF TenancyInv, NamespaceTyped, TenantsTyped, EditTemplate, content, NoNs, Namespaces
  <2>2. SharedTyped'
    BY <1>1 DEF TenancyInv, NamespaceTyped, SharedTyped, EditTemplate, Policies, Namespaces
  <2>3. PassTyped' /\ PassFits' /\ NothingElse'
    BY <1>1 DEF TenancyInv, TenantsTyped, PassTyped, PassFits, NothingElse, EditTemplate, content,
       NoPass, PlacingSteps, LeavingSteps
  <2> QED BY <2>1, <2>2, <2>3 DEF TenancyInv
<1>2. CASE TakeOver
  <2>1. NamespaceTyped' /\ TenantsTyped'
    BY <1>2 DEF TenancyInv, NamespaceTyped, TenantsTyped, TakeOver, content, NoNs, Namespaces
  <2>2. SharedTyped'
    BY <1>2 DEF TenancyInv, NamespaceTyped, SharedTyped, TakeOver, Policies, Namespaces
  <2>3. PassTyped' /\ PassFits' /\ NothingElse'
    BY <1>2 DEF TenancyInv, TenantsTyped, PassTyped, PassFits, NothingElse, TakeOver, content,
       NoPass, PlacingSteps, LeavingSteps
  <2> QED BY <2>1, <2>2, <2>3 DEF TenancyInv
<1>3. CASE Restart
  <2>1. NamespaceTyped' /\ TenantsTyped'
    BY <1>3 DEF TenancyInv, NamespaceTyped, TenantsTyped, Restart, content, NoPass, NoNs,
       Namespaces
  <2>2. SharedTyped'
    BY <1>3 DEF TenancyInv, NamespaceTyped, SharedTyped, Restart, Policies, Namespaces
  <2>3. PassTyped' /\ PassFits' /\ NothingElse'
    BY <1>3 DEF TenancyInv, TenantsTyped, PassTyped, PassFits, NothingElse, Restart, content,
       NoPass, PlacingSteps, LeavingSteps
  <2> QED BY <2>1, <2>2, <2>3 DEF TenancyInv
<1>4. CASE DeliverNamespace
  <2>1. NamespaceTyped' /\ TenantsTyped'
    BY <1>4 DEF TenancyInv, NamespaceTyped, TenantsTyped, DeliverNamespace, content, NoNs,
       Namespaces
  <2>2. SharedTyped'
    BY <1>4 DEF TenancyInv, NamespaceTyped, SharedTyped, DeliverNamespace, Policies, Namespaces
  <2>3. PassTyped' /\ PassFits' /\ NothingElse'
    BY <1>4 DEF TenancyInv, TenantsTyped, PassTyped, PassFits, NothingElse, DeliverNamespace,
       content, NoPass, PlacingSteps, LeavingSteps
  <2> QED BY <2>1, <2>2, <2>3 DEF TenancyInv
<1>5. CASE RestGone
  <2>1. NamespaceTyped' /\ TenantsTyped'
    BY <1>5 DEF TenancyInv, NamespaceTyped, TenantsTyped, RestGone, NoNs, Namespaces
  <2>2. SharedTyped'
    BY <1>5 DEF TenancyInv, NamespaceTyped, SharedTyped, RestGone, Policies, Namespaces
  <2>3. PassTyped' /\ PassFits' /\ NothingElse'
    BY <1>5 DEF TenancyInv, TenantsTyped, PassTyped, PassFits, NothingElse, RestGone, NoPass,
       PlacingSteps, LeavingSteps
  <2> QED BY <2>1, <2>2, <2>3 DEF TenancyInv
<1>6. CASE NamespaceGone
  <2>1. NamespaceTyped' /\ TenantsTyped'
    BY <1>6 DEF TenancyInv, NamespaceTyped, TenantsTyped, NamespaceGone, content, NoNs, Namespaces
  <2>2. SharedTyped'
    BY <1>6 DEF TenancyInv, NamespaceTyped, SharedTyped, NamespaceGone, Policies, Namespaces
  <2>3. PassTyped' /\ PassFits' /\ NothingElse'
    BY <1>6 DEF TenancyInv, TenantsTyped, PassTyped, PassFits, NothingElse, NamespaceGone,
       content, NoPass, NoNs, PlacingSteps, LeavingSteps
  <2> QED BY <2>1, <2>2, <2>3 DEF TenancyInv
<1> QED BY <1>1, <1>2, <1>3, <1>4, <1>5, <1>6

\* The janitor only looks, and marks the namespace for deletion.
LEMMA JanitorTypes ==
  ASSUME TenancyInv, Janitor \/ JanitorFails
  PROVE  TenancyInv'
<1>1. CASE JanitorBegin
  <2>1. NamespaceTyped' /\ TenantsTyped'
    BY <1>1 DEF TenancyInv, NamespaceTyped, TenantsTyped, JanitorBegin, janUnchanged, content,
       NoNs, Namespaces
  <2>2. SharedTyped'
    BY <1>1 DEF TenancyInv, NamespaceTyped, SharedTyped, JanitorBegin, janUnchanged
  <2>3. PassTyped' /\ PassFits' /\ NothingElse'
    BY <1>1 DEF TenancyInv, TenantsTyped, PassTyped, PassFits, NothingElse, JanitorBegin,
       janUnchanged, content, PlacingSteps, LeavingSteps
  <2> QED BY <2>1, <2>2, <2>3 DEF TenancyInv
<1>2. CASE JanitorList
  <2>1. NamespaceTyped' /\ TenantsTyped'
    BY <1>2 DEF TenancyInv, NamespaceTyped, TenantsTyped, JanitorList, janUnchanged, content,
       NoNs, Namespaces
  <2>2. SharedTyped'
    BY <1>2 DEF TenancyInv, NamespaceTyped, SharedTyped, JanitorList, janUnchanged, After
  <2>3. PassTyped' /\ PassFits' /\ NothingElse'
    BY <1>2 DEF TenancyInv, TenantsTyped, PassTyped, PassFits, NothingElse, JanitorList,
       janUnchanged, content, PlacingSteps, LeavingSteps
  <2> QED BY <2>1, <2>2, <2>3 DEF TenancyInv
<1>3. CASE JanitorDelete
  <2>1. NamespaceTyped' /\ TenantsTyped'
    BY <1>3 DEF TenancyInv, NamespaceTyped, TenantsTyped, JanitorDelete, janUnchanged, content,
       NoNs, Namespaces
  <2>2. SharedTyped'
    BY <1>3 DEF TenancyInv, NamespaceTyped, SharedTyped, JanitorDelete, janUnchanged
  <2>3. PassTyped' /\ PassFits' /\ NothingElse'
    BY <1>3 DEF TenancyInv, TenantsTyped, PassTyped, PassFits, NothingElse, JanitorDelete,
       janUnchanged, content, PlacingSteps, LeavingSteps
  <2> QED BY <2>1, <2>2, <2>3 DEF TenancyInv
<1>4. CASE JanitorFails
  <2>1. NamespaceTyped' /\ TenantsTyped'
    BY <1>4 DEF TenancyInv, NamespaceTyped, TenantsTyped, JanitorFails, content, NoNs, Namespaces
  <2>2. SharedTyped'
    BY <1>4 DEF TenancyInv, NamespaceTyped, SharedTyped, JanitorFails
  <2>3. PassTyped' /\ PassFits' /\ NothingElse'
    BY <1>4 DEF TenancyInv, TenantsTyped, PassTyped, PassFits, NothingElse, JanitorFails, content,
       PlacingSteps, LeavingSteps
  <2> QED BY <2>1, <2>2, <2>3 DEF TenancyInv
<1> QED BY <1>1, <1>2, <1>3, <1>4 DEF Janitor

\* A pass that places a workspace works on one that has its finalizer.
LEMMA PlacingTypes ==
  ASSUME TenancyInv, NEW w \in Tenants,
         \/ EnsureFinalizer(w) \/ CreateNamespace(w) \/ FindNamespace(w) \/ BootstrapNamespace(w)
         \/ ensureNamespacePolicy(w) \/ ensureHomePVC(w) \/ EnsureFiles(w) \/ EnsureWorkload(w)
  PROVE  TenancyInv'
<1>1. CASE EnsureFinalizer(w)
  <2>1. NamespaceTyped' /\ TenantsTyped'
    BY <1>1 DEF TenancyInv, NamespaceTyped, TenantsTyped, EnsureFinalizer, content
  <2>2. SharedTyped'
    BY <1>1 DEF TenancyInv, SharedTyped, EnsureFinalizer, Goto, Retry
  <2>3. rec' = NoPass \/ rec' = [ws |-> w, pc |-> "namespace"]
    BY <1>1 DEF EnsureFinalizer, Goto, Retry
  <2>4. ws'[w] = "live" \/ rec' = NoPass
    BY <1>1 DEF TenancyInv, TenantsTyped, EnsureFinalizer, Retry
  <2>5. PassTyped' /\ PassFits'
    BY <2>3, <2>4, TurnFits DEF PlacingSteps
  <2>6. NothingElse'
    BY <1>1 DEF TenancyInv, TenantsTyped, NothingElse, EnsureFinalizer, content
  <2> QED BY <2>1, <2>2, <2>5, <2>6 DEF TenancyInv
<1>2. CASE CreateNamespace(w)
  <2>1. NamespaceTyped' /\ TenantsTyped'
    <3>1. TenantsTyped'
      BY <1>2 DEF TenancyInv, TenantsTyped, CreateNamespace, content
    <3>2. ns \in Namespaces /\ cleanup \in Policies
      BY DEF TenancyInv, NamespaceTyped, SharedTyped
    <3>3. \/ ns' = ns
          \/ ns' = [st |-> "active", managed |-> TRUE, cleanup |-> cleanup]
      BY <1>2 DEF CreateNamespace
    <3>5. [st |-> "active", managed |-> TRUE, cleanup |-> cleanup] \in Namespaces
      BY <3>2 DEF Namespaces
    <3>6. [st |-> "active", managed |-> TRUE, cleanup |-> cleanup].st # "none"
      OBVIOUS
    <3>4. ns' \in Namespaces /\ (ns'.st = "none" => ns' = ns)
      BY <3>2, <3>3, <3>5, <3>6
    <3> QED BY <1>2, <3>1, <3>3, <3>4 DEF TenancyInv, NamespaceTyped, CreateNamespace
  <2>2. SharedTyped'
    BY <1>2 DEF TenancyInv, SharedTyped, CreateNamespace, Goto
  <2>3. rec' = NoPass \/ rec' = [ws |-> w, pc |-> "bootstrap"]
    BY <1>2 DEF CreateNamespace, Goto
  <2>4. ws'[w] \in {"live", "deleting"}
    <3>1. rec.ws = w /\ rec.pc = "namespace"
      BY <1>2 DEF CreateNamespace, At
    <3> QED BY <1>2, <3>1 DEF TenancyInv, PassFits, PlacingSteps, CreateNamespace
  <2>5. PassTyped' /\ PassFits'
    BY <2>3, <2>4, TurnFits DEF PlacingSteps
  <2>6. NothingElse'
    BY <1>2, <2>4 DEF TenancyInv, TenantsTyped, NothingElse, CreateNamespace, content
  <2> QED BY <2>1, <2>2, <2>5, <2>6 DEF TenancyInv
<1>3. CASE FindNamespace(w)
  <2>1. NamespaceTyped' /\ TenantsTyped'
    <3>1. TenantsTyped'
      BY <1>3 DEF TenancyInv, TenantsTyped, FindNamespace, content
    <3>2. ns \in Namespaces /\ cleanup \in Policies
      BY DEF TenancyInv, NamespaceTyped, SharedTyped
    <3>3. \/ ns' = ns
          \/ ns.st # "none" /\ ns' = [ns EXCEPT !.cleanup = cleanup]
      BY <1>3 DEF FindNamespace, cleanupLabel
    <3>4. ns' \in Namespaces /\ (ns'.st = "none" => ns' = ns)
      BY <3>2, <3>3 DEF Namespaces
    <3> QED BY <1>3, <3>1, <3>3, <3>4 DEF TenancyInv, NamespaceTyped, FindNamespace
  <2>2. SharedTyped'
    BY <1>3 DEF TenancyInv, SharedTyped, FindNamespace, Goto, Retry
  <2>3. rec' = NoPass \/ rec' = [ws |-> w, pc |-> "policy"]
    BY <1>3 DEF FindNamespace, Goto, Retry
  <2>4. ws'[w] \in {"live", "deleting"}
    <3>1. rec.ws = w /\ rec.pc = "namespace"
      BY <1>3 DEF FindNamespace, At
    <3> QED BY <1>3, <3>1 DEF TenancyInv, PassFits, PlacingSteps, FindNamespace
  <2>5. PassTyped' /\ PassFits'
    BY <2>3, <2>4, TurnFits DEF PlacingSteps
  <2>6. NothingElse'
    BY <1>3, <2>4 DEF TenancyInv, TenantsTyped, NothingElse, FindNamespace, content
  <2> QED BY <2>1, <2>2, <2>5, <2>6 DEF TenancyInv
<1>4. CASE BootstrapNamespace(w)
  <2>1. NamespaceTyped' /\ TenantsTyped'
    BY <1>4 DEF TenancyInv, NamespaceTyped, TenantsTyped, BootstrapNamespace, content
  <2>2. SharedTyped'
    BY <1>4 DEF TenancyInv, SharedTyped, BootstrapNamespace, Goto, Retry
  <2>3. rec' = NoPass \/ rec' = [ws |-> w, pc |-> "policy"]
    BY <1>4 DEF BootstrapNamespace, Goto, Retry
  <2>4. ws'[w] \in {"live", "deleting"}
    <3>1. rec.ws = w /\ rec.pc = "bootstrap"
      BY <1>4 DEF BootstrapNamespace, At
    <3> QED BY <1>4, <3>1 DEF TenancyInv, PassFits, PlacingSteps, BootstrapNamespace
  <2>5. PassTyped' /\ PassFits'
    BY <2>3, <2>4, TurnFits DEF PlacingSteps
  <2>6. NothingElse'
    BY <1>4, <2>4 DEF TenancyInv, TenantsTyped, NothingElse, BootstrapNamespace, content
  <2> QED BY <2>1, <2>2, <2>5, <2>6 DEF TenancyInv
<1>5. CASE ensureNamespacePolicy(w)
  <2>1. NamespaceTyped' /\ TenantsTyped'
    BY <1>5 DEF TenancyInv, NamespaceTyped, TenantsTyped, ensureNamespacePolicy, content
  <2>2. SharedTyped'
    BY <1>5 DEF TenancyInv, SharedTyped, ensureNamespacePolicy, Goto, Retry, Healed
  <2>3. rec' = NoPass \/ rec' = [ws |-> w, pc |-> "claim"]
    BY <1>5 DEF ensureNamespacePolicy, Goto, Retry
  <2>4. ws'[w] \in {"live", "deleting"}
    <3>1. rec.ws = w /\ rec.pc = "policy"
      BY <1>5 DEF ensureNamespacePolicy, At
    <3> QED BY <1>5, <3>1 DEF TenancyInv, PassFits, PlacingSteps, ensureNamespacePolicy
  <2>5. PassTyped' /\ PassFits'
    BY <2>3, <2>4, TurnFits DEF PlacingSteps
  <2>6. NothingElse'
    BY <1>5, <2>4 DEF TenancyInv, TenantsTyped, NothingElse, ensureNamespacePolicy, content
  <2> QED BY <2>1, <2>2, <2>5, <2>6 DEF TenancyInv
<1>6. CASE ensureHomePVC(w)
  <2>1. NamespaceTyped' /\ TenantsTyped'
    BY <1>6 DEF TenancyInv, NamespaceTyped, TenantsTyped, ensureHomePVC
  <2>2. SharedTyped'
    BY <1>6 DEF TenancyInv, SharedTyped, ensureHomePVC, Goto, Retry
  <2>3. rec' = NoPass \/ rec' = [ws |-> w, pc |-> "files"]
    BY <1>6 DEF ensureHomePVC, Goto, Retry
  <2>4. ws'[w] \in {"live", "deleting"}
    <3>1. rec.ws = w /\ rec.pc = "claim"
      BY <1>6 DEF ensureHomePVC, At
    <3> QED BY <1>6, <3>1 DEF TenancyInv, PassFits, PlacingSteps, ensureHomePVC
  <2>5. PassTyped' /\ PassFits'
    BY <2>3, <2>4, TurnFits DEF PlacingSteps
  <2>6. NothingElse'
    BY <1>6, <2>4 DEF TenancyInv, TenantsTyped, NothingElse, ensureHomePVC
  <2> QED BY <2>1, <2>2, <2>5, <2>6 DEF TenancyInv
<1>7. CASE EnsureFiles(w)
  <2>1. NamespaceTyped' /\ TenantsTyped'
    BY <1>7 DEF TenancyInv, NamespaceTyped, TenantsTyped, EnsureFiles
  <2>2. SharedTyped'
    BY <1>7 DEF TenancyInv, SharedTyped, EnsureFiles, Goto, Retry
  <2>3. rec' = NoPass \/ rec' = [ws |-> w, pc |-> "workload"]
    BY <1>7 DEF EnsureFiles, Goto, Retry
  <2>4. ws'[w] \in {"live", "deleting"}
    <3>1. rec.ws = w /\ rec.pc = "files"
      BY <1>7 DEF EnsureFiles, At
    <3> QED BY <1>7, <3>1 DEF TenancyInv, PassFits, PlacingSteps, EnsureFiles
  <2>5. PassTyped' /\ PassFits'
    BY <2>3, <2>4, TurnFits DEF PlacingSteps
  <2>6. NothingElse'
    BY <1>7, <2>4 DEF TenancyInv, TenantsTyped, NothingElse, EnsureFiles
  <2> QED BY <2>1, <2>2, <2>5, <2>6 DEF TenancyInv
<1>8. CASE EnsureWorkload(w)
  <2>1. NamespaceTyped' /\ TenantsTyped'
    BY <1>8 DEF TenancyInv, NamespaceTyped, TenantsTyped, EnsureWorkload
  <2>2. SharedTyped'
    BY <1>8 DEF TenancyInv, SharedTyped, EnsureWorkload, Done, Retry
  <2>3. rec' = NoPass \/ rec' = [ws |-> w, pc |-> "workload"]
    BY <1>8 DEF EnsureWorkload, Done, Retry
  <2>4. ws'[w] \in {"live", "deleting"}
    <3>1. rec.ws = w /\ rec.pc = "workload"
      BY <1>8 DEF EnsureWorkload, At
    <3> QED BY <1>8, <3>1 DEF TenancyInv, PassFits, PlacingSteps, EnsureWorkload
  <2>5. PassTyped' /\ PassFits'
    BY <2>3, <2>4, TurnFits DEF PlacingSteps
  <2>6. NothingElse'
    BY <1>8, <2>4 DEF TenancyInv, TenantsTyped, NothingElse, EnsureWorkload
  <2> QED BY <2>1, <2>2, <2>5, <2>6 DEF TenancyInv
<1> QED BY <1>1, <1>2, <1>3, <1>4, <1>5, <1>6, <1>7, <1>8

\* The rest of a pass: its beginning, its failure and the deletion branch.
LEMMA LeavingTypes ==
  ASSUME TenancyInv, NEW w \in Tenants,
         \/ Begin(w) \/ PassFails(w)
         \/ finalizeHomeVolume(w) \/ teardownPlacement(w) \/ RemoveFinalizer(w)
  PROVE  TenancyInv'
<1>1. CASE Begin(w)
  <2>1. NamespaceTyped' /\ TenantsTyped'
    BY <1>1 DEF TenancyInv, NamespaceTyped, TenantsTyped, Begin, NoPass, content
  <2>2. SharedTyped'
    BY <1>1 DEF TenancyInv, NamespaceTyped, SharedTyped, Begin
  <2>3. PassTyped' /\ PassFits' /\ NothingElse'
    BY <1>1 DEF TenancyInv, TenantsTyped, PassTyped, PassFits, NothingElse, Begin, NoPass,
       PassSteps, content, PlacingSteps, LeavingSteps
  <2> QED BY <2>1, <2>2, <2>3 DEF TenancyInv
<1>2. CASE PassFails(w)
  <2>1. NamespaceTyped' /\ TenantsTyped'
    BY <1>2 DEF TenancyInv, NamespaceTyped, TenantsTyped, PassFails, Retry, NoPass, content
  <2>2. SharedTyped'
    BY <1>2 DEF TenancyInv, NamespaceTyped, SharedTyped, PassFails, Retry
  <2>3. PassTyped' /\ PassFits' /\ NothingElse'
    BY <1>2 DEF TenancyInv, TenantsTyped, PassTyped, PassFits, NothingElse, PassFails, Retry,
       NoPass, PassSteps, content, PlacingSteps, LeavingSteps
  <2> QED BY <2>1, <2>2, <2>3 DEF TenancyInv
<1>3. CASE teardownPlacement(w)
  <2>1. NamespaceTyped' /\ TenantsTyped'
    BY <1>3 DEF TenancyInv, NamespaceTyped, TenantsTyped, teardownPlacement, Swept, Goto, At
  <2>2. SharedTyped'
    BY <1>3 DEF TenancyInv, NamespaceTyped, SharedTyped, teardownPlacement, Goto
  <2>3. PassTyped' /\ PassFits' /\ NothingElse'
    BY <1>3 DEF TenancyInv, TenantsTyped, PassTyped, PassFits, NothingElse, teardownPlacement,
       Swept, Goto, At, NoPass, PassSteps, PlacingSteps, LeavingSteps
  <2> QED BY <2>1, <2>2, <2>3 DEF TenancyInv
<1>4. CASE RemoveFinalizer(w)
  <2>1. NamespaceTyped' /\ TenantsTyped'
    BY <1>4 DEF TenancyInv, NamespaceTyped, TenantsTyped, RemoveFinalizer, At, NoPass, content
  <2>2. SharedTyped'
    BY <1>4 DEF TenancyInv, NamespaceTyped, SharedTyped, RemoveFinalizer, Watched
  <2>3. PassTyped' /\ PassFits' /\ NothingElse'
    BY <1>4 DEF TenancyInv, TenantsTyped, PassTyped, PassFits, NothingElse, RemoveFinalizer, At,
       NoPass, PassSteps, content, PlacingSteps, LeavingSteps
  <2> QED BY <2>1, <2>2, <2>3 DEF TenancyInv
<1>5. CASE finalizeHomeVolume(w)
  <2>1. NamespaceTyped' /\ SharedTyped'
    BY <1>5 DEF TenancyInv, NamespaceTyped, SharedTyped, finalizeHomeVolume, Goto
  <2>2. TenantsTyped'
    <3>1. PICK fate \in {"retained", "terminating"} :
              claim' = [claim EXCEPT ![w] = IF @ = "bound" THEN fate ELSE @]
      BY <1>5 DEF finalizeHomeVolume
    <3> QED BY <1>5, <3>1 DEF TenancyInv, TenantsTyped, finalizeHomeVolume
  <2>3. PassTyped' /\ PassFits' /\ NothingElse'
    BY <1>5 DEF TenancyInv, TenantsTyped, PassTyped, PassFits, NothingElse, finalizeHomeVolume,
       Goto, At, PassSteps, PlacingSteps, LeavingSteps
  <2> QED BY <2>1, <2>2, <2>3 DEF TenancyInv
<1> QED BY <1>1, <1>2, <1>3, <1>4, <1>5

\* Every step keeps the types and what they rest on.
LEMMA TenancyStep == TenancyInv /\ [TenancyNext]_tenancyVars => TenancyInv'
<1> SUFFICES ASSUME TenancyInv, [TenancyNext]_tenancyVars PROVE TenancyInv'
  OBVIOUS
<1>1. CASE UNCHANGED tenancyVars
  BY <1>1 DEF tenancyVars, content, TenancyInv, NamespaceTyped, SharedTyped, TenantsTyped,
     PassTyped, PassFits, NothingElse
<1>2. ASSUME NEW w \in Tenants, Begin(w) \/ Reconcile(w) \/ PassFails(w)
      PROVE  TenancyInv'
  BY <1>2, PlacingTypes, LeavingTypes DEF Reconcile
<1> QED BY <1>1, <1>2, TenantTypes, AmbientTypes, JanitorTypes DEF TenancyNext

\* The namespace exists or not, and holds nothing yet.
LEMMA TenancyStart == TenancyInit => TenancyInv
<1> SUFFICES ASSUME TenancyInit PROVE TenancyInv
  OBVIOUS
<1>1. NamespaceTyped
  <2>1. NoNs \in Namespaces /\ "unset" \in Policies \cup {"unset"}
    BY DEF Namespaces, NoNs
  <2>2. ASSUME NEW m \in BOOLEAN
        PROVE  [st |-> "active", managed |-> m, cleanup |-> "unset"] \in Namespaces
    BY <2>1 DEF Namespaces
  <2>3. ns \in Namespaces
    BY <2>1, <2>2 DEF TenancyInit
  <2>4. ns.st = "none" => ns = NoNs
    BY DEF TenancyInit, NoNs
  <2> QED BY <2>3, <2>4 DEF TenancyInit, NamespaceTyped
<1>2. SharedTyped /\ TenantsTyped
  BY DEF TenancyInit, SharedTyped, TenantsTyped
<1>3. PassTyped /\ PassFits /\ NothingElse
  BY DEF TenancyInit, PassTyped, PassFits, NothingElse, NoPass, PlacingSteps, LeavingSteps
<1> QED BY <1>1, <1>2, <1>3 DEF TenancyInv

\* Type correctness of Tenancy, and that nothing but a home outlives a
\* workspace (finalize, teardownPlacement): the invariant follows each pass.
THEOREM TenancyTypesHold == TenancySpec => []TenancyTypeOK
<1>1. TenancyInv => TenancyTypeOK
  BY DEF TenancyInv, NamespaceTyped, SharedTyped, TenantsTyped, PassTyped, NothingElse, PassSteps,
     Namespaces, TenancyTypeOK
<1> QED BY <1>1, TenancyStart, TenancyStep, PTL DEF TenancySpec

-----------------------------------------------------------------------------
(* OldHomesSafe.  Every home was made after the janitor last found no      *)
(* claim, or else the janitor is not past that look.                       *)

EveryHomeLate == \A w \in Tenants : claim[w] # "none" => w \in late

\* The janitor deletes on the strength of a list of claims that was empty.
HomesListed == jan \in {"files", "delete"} => EveryHomeLate

OldHomesInv == HomesListed /\ OldHomesSafe

\* Homes appear only in ensureHomePVC, which the history counts as late,
\* and the count starts again only where there are none.
LEMMA HomesStayLate ==
  ASSUME TenancyInv, [TenancyNext]_tenancyVars, EveryHomeLate
  PROVE  EveryHomeLate'
<1>1. ASSUME NEW w \in Tenants, ensureHomePVC(w) PROVE EveryHomeLate'
  BY <1>1 DEF TenancyInv, TenantsTyped, EveryHomeLate, ensureHomePVC
<1>2. ASSUME NEW w \in Tenants, finalizeHomeVolume(w) PROVE EveryHomeLate'
  BY <1>2 DEF TenancyInv, TenantsTyped, EveryHomeLate, finalizeHomeVolume
<1>3. ASSUME NEW w \in Tenants, DeleteRetainedVolume(w) \/ HomeGone(w) PROVE EveryHomeLate'
  BY <1>3 DEF TenancyInv, TenantsTyped, EveryHomeLate, DeleteRetainedVolume, HomeGone
<1>4. CASE NamespaceGone
  BY <1>4 DEF EveryHomeLate, NamespaceGone, content
<1>5. CASE JanitorList
  BY <1>5 DEF EveryHomeLate, JanitorList, Holds, janUnchanged, content
<1>6. CASE UNCHANGED <<claim, late>>
  BY <1>6 DEF EveryHomeLate
<1>7. ASSUME NEW w \in Tenants, CreateWorkspace(w) \/ DeleteWorkspace(w) \/ WorkloadGone(w)
      PROVE  UNCHANGED <<claim, late>>
  BY <1>7 DEF CreateWorkspace, DeleteWorkspace, WorkloadGone, content
<1>8. ASSUME NEW w \in Tenants,
             \/ Begin(w) \/ PassFails(w) \/ EnsureFinalizer(w) \/ CreateNamespace(w)
             \/ FindNamespace(w) \/ BootstrapNamespace(w)
      PROVE  UNCHANGED <<claim, late>>
  BY <1>8 DEF Begin, PassFails, EnsureFinalizer, CreateNamespace, FindNamespace,
     BootstrapNamespace, content
<1>9. ASSUME NEW w \in Tenants,
             \/ ensureNamespacePolicy(w) \/ EnsureFiles(w) \/ EnsureWorkload(w)
             \/ teardownPlacement(w) \/ RemoveFinalizer(w)
      PROVE  UNCHANGED <<claim, late>>
  BY <1>9 DEF ensureNamespacePolicy, EnsureFiles, EnsureWorkload, teardownPlacement,
     RemoveFinalizer, content
<1>10. CASE \/ EditTemplate \/ TakeOver \/ Restart \/ DeliverNamespace \/ RestGone
            \/ JanitorBegin \/ JanitorDelete \/ JanitorFails
  <2>1. UNCHANGED <<claim, late>>
    BY <1>10 DEF EditTemplate, TakeOver, Restart, DeliverNamespace, RestGone, JanitorBegin,
       JanitorDelete, JanitorFails, janUnchanged, content
  <2> QED BY <2>1, <1>6
<1>11. CASE UNCHANGED tenancyVars
  BY <1>6, <1>11 DEF tenancyVars, content
<1> QED BY <1>1, <1>2, <1>3, <1>4, <1>5, <1>6, <1>7, <1>8, <1>9, <1>10, <1>11 DEF TenancyNext,
        People, Cluster, Reconcile, Janitor

\* The janitor gets past the claims, and the namespace on its way out, only
\* where every home is late.
LEMMA OnlyLateHomes ==
  ASSUME TenancyInv, OldHomesInv, [TenancyNext]_tenancyVars,
         ~EveryHomeLate, ~EveryHomeLate'
  PROVE  OldHomesInv'
<1>1. jan \notin {"files", "delete"} /\ ns.st # "terminating"
  BY DEF OldHomesInv, HomesListed, OldHomesSafe, EveryHomeLate
<1>2. PICK v \in Tenants : claim[v] # "none"
  BY DEF EveryHomeLate
<1>3. jan' \notin {"files", "delete"} /\ ns'.st # "terminating"
  <2>1. ASSUME NEW w \in Tenants, People(w) \/ Cluster(w) PROVE UNCHANGED <<jan, ns>>
    BY <2>1 DEF People, Cluster, CreateWorkspace, DeleteWorkspace, DeleteRetainedVolume,
       WorkloadGone, HomeGone
  <2>2. ASSUME NEW w \in Tenants,
               \/ Begin(w) \/ PassFails(w) \/ EnsureFinalizer(w) \/ BootstrapNamespace(w)
               \/ ensureNamespacePolicy(w) \/ ensureHomePVC(w)
        PROVE  UNCHANGED <<jan, ns>>
    BY <2>2 DEF Begin, PassFails, EnsureFinalizer, BootstrapNamespace, ensureNamespacePolicy,
       ensureHomePVC
  <2>3. ASSUME NEW w \in Tenants,
               \/ EnsureFiles(w) \/ EnsureWorkload(w) \/ finalizeHomeVolume(w)
               \/ teardownPlacement(w) \/ RemoveFinalizer(w)
        PROVE  UNCHANGED <<jan, ns>>
    BY <2>3 DEF EnsureFiles, EnsureWorkload, finalizeHomeVolume, teardownPlacement,
       RemoveFinalizer
  <2>4. ASSUME NEW w \in Tenants, CreateNamespace(w) \/ FindNamespace(w)
        PROVE  UNCHANGED jan /\ ns'.st # "terminating"
    BY <1>1, <2>4 DEF TenancyInv, NamespaceTyped, Namespaces, CreateNamespace, FindNamespace,
       cleanupLabel
  <2>5. CASE \/ EditTemplate \/ TakeOver \/ DeliverNamespace \/ RestGone
             \/ UNCHANGED tenancyVars
    BY <1>1, <2>5 DEF EditTemplate, TakeOver, DeliverNamespace, RestGone, tenancyVars
  <2>6. CASE Restart \/ NamespaceGone \/ JanitorFails
    BY <1>1, <2>6 DEF Restart, NamespaceGone, JanitorFails
  <2>7. CASE JanitorBegin
    BY <1>1, <2>7 DEF JanitorBegin
  <2>8. CASE JanitorList
    BY <1>1, <1>2, <2>8 DEF JanitorList, Holds, After
  <2>9. CASE JanitorDelete
    BY <1>1, <2>9 DEF JanitorDelete
  <2> QED BY <1>1, <2>1, <2>2, <2>3, <2>4, <2>5, <2>6, <2>7, <2>8, <2>9 DEF TenancyNext,
          Reconcile, Janitor
<1> QED BY <1>3 DEF OldHomesInv, HomesListed, OldHomesSafe

\* Every volume that existed at the janitor's last look at the claims keeps its
\* namespace (isEmpty before the deletion), for any number of workspaces,
\* passes, restarts and faults in between.
THEOREM OldHomesStay == TenancySpec => []OldHomesSafe
<1>1. TenancyInit => OldHomesInv
  BY DEF TenancyInit, OldHomesInv, HomesListed, EveryHomeLate, OldHomesSafe, NoNs
<1>2. TenancyInv /\ OldHomesInv /\ [TenancyNext]_tenancyVars => OldHomesInv'
  <2> SUFFICES ASSUME TenancyInv, OldHomesInv, [TenancyNext]_tenancyVars PROVE OldHomesInv'
    OBVIOUS
  <2>1. EveryHomeLate' => OldHomesInv'
    BY DEF OldHomesInv, HomesListed, OldHomesSafe, EveryHomeLate
  <2> QED BY <2>1, HomesStayLate, OnlyLateHomes
<1>3. OldHomesInv => OldHomesSafe
  BY DEF OldHomesInv
<1> QED BY <1>1, <1>2, <1>3, TenancyStart, TenancyStep, PTL DEF TenancySpec
=============================================================================
