------------------------- MODULE TransferDeedsProofs -------------------------
(***************************************************************************)
(* The fees and the owners of TransferDeeds balance, for any users and any *)
(* finite number of transfers: every step of a transfer moves it in or out *)
(* of the sets that are counted exactly as it moves the fee or the owner.  *)
(***************************************************************************)
EXTENDS TransferDeeds, FiniteSetTheorems, TLAPS

States == {"none", "open", "given", "returned", "dropped"}

DeedsTypes ==
    /\ state \in [Transfers -> States]
    /\ from \in [Transfers -> Users] /\ to \in [Transfers -> Users]
    /\ owner \in Users /\ fees \in [Users -> Int]

\* The sets that are counted are finite.
LEMMA CountedSets ==
    ASSUME IsFiniteSet(Transfers), NEW u
    PROVE  /\ IsFiniteSet(Paid(u)) /\ IsFiniteSet(Parted(u)) /\ IsFiniteSet(Received(u))
           /\ Cardinality(Paid(u)) \in Nat
           /\ Cardinality(Parted(u)) \in Nat /\ Cardinality(Received(u)) \in Nat
<1>1. /\ Paid(u) \in SUBSET Transfers /\ Parted(u) \in SUBSET Transfers
      /\ Received(u) \in SUBSET Transfers
  BY DEF Paid, Parted, Received
<1>2. IsFiniteSet(Paid(u)) /\ IsFiniteSet(Parted(u)) /\ IsFiniteSet(Received(u))
  BY <1>1, FS_Subset
<1> QED
  BY <1>2, FS_CardinalityType

\* An offer is paid by its sender.
LEMMA OfferBalances ==
    ASSUME IsFiniteSet(Transfers), DeedsTypes, Balanced,
           NEW t \in Transfers, NEW a \in Users, NEW b \in Users, Offer(t, a, b)
    PROVE  DeedsTypes' /\ Balanced'
<1>1. /\ state[t] = "none" /\ state' = [state EXCEPT ![t] = "open"]
      /\ from' = [from EXCEPT ![t] = a] /\ to' = [to EXCEPT ![t] = b]
      /\ fees' = [fees EXCEPT ![a] = @ + 1] /\ owner' = owner
  BY DEF Offer, Move
<1>2. DeedsTypes'
  BY <1>1 DEF DeedsTypes, States
<1>3. ASSUME NEW u \in Users
      PROVE  /\ Parted(u)' = Parted(u) /\ Received(u)' = Received(u)
             /\ Paid(u)' = IF u = a THEN Paid(u) \cup {t} ELSE Paid(u)
  BY <1>1 DEF DeedsTypes, Parted, Received, Paid
<1>4. t \notin Paid(a)
  BY <1>1 DEF Paid
<1>5. Cardinality(Paid(a) \cup {t}) = Cardinality(Paid(a)) + 1
  BY <1>4, CountedSets, FS_AddElement
<1>6. ASSUME NEW u \in Users
      PROVE  /\ fees'[u] = Cardinality(Paid(u)')
             /\ Has(u, Seller) + Cardinality(Received(u)')
                  = Cardinality(Parted(u)') + Has(u, owner')
  BY <1>1, <1>3, <1>5 DEF DeedsTypes, Balanced
<1> QED
  BY <1>2, <1>6 DEF Balanced

\* The one who gives the instance had it; the one who receives it has it.
LEMMA GiveBalances ==
    ASSUME IsFiniteSet(Transfers), DeedsTypes, Balanced, NEW t \in Transfers, Give(t)
    PROVE  DeedsTypes' /\ Balanced'
<1> DEFINE a == from[t]
           b == to[t]
<1>1. /\ state[t] = "open" /\ state' = [state EXCEPT ![t] = "given"]
      /\ owner = a /\ owner' = b /\ UNCHANGED <<from, to, fees>>
      /\ a \in Users /\ b \in Users
  BY DEF Give, Move, DeedsTypes
<1>2. DeedsTypes'
  BY <1>1 DEF DeedsTypes, States
<1>3. ASSUME NEW u \in Users
      PROVE  /\ Paid(u)' = Paid(u)
             /\ Parted(u)' = IF u = a THEN Parted(u) \cup {t} ELSE Parted(u)
             /\ Received(u)' = IF u = b THEN Received(u) \cup {t} ELSE Received(u)
  BY <1>1 DEF DeedsTypes, Parted, Received, Paid
<1>4. t \notin Parted(a) /\ t \notin Received(b)
  BY <1>1 DEF Parted, Received
<1>5. /\ Cardinality(Parted(a) \cup {t}) = Cardinality(Parted(a)) + 1
      /\ Cardinality(Received(b) \cup {t}) = Cardinality(Received(b)) + 1
  BY <1>4, CountedSets, FS_AddElement
<1>6. ASSUME NEW u \in Users
      PROVE  /\ fees'[u] = Cardinality(Paid(u)')
             /\ Has(u, Seller) + Cardinality(Received(u)')
                  = Cardinality(Parted(u)') + Has(u, owner')
  <2>1. Cardinality(Parted(u)) \in Nat /\ Cardinality(Received(u)) \in Nat
    BY CountedSets
  <2>2. Cardinality(Parted(u)') = Cardinality(Parted(u)) + Has(u, a)
    BY <1>3, <1>5, <2>1 DEF Has
  <2>3. Cardinality(Received(u)') = Cardinality(Received(u)) + Has(u, b)
    <3>1. CASE u = b
      <4>1. Received(u)' = Received(b) \cup {t}
        BY <1>3, <3>1
      <4>2. Has(u, b) = 1
        BY <3>1 DEF Has
      <4> QED
        BY <1>5, <3>1, <4>1, <4>2
    <3>2. CASE u # b
      BY <1>3, <2>1, <3>2 DEF Has
    <3> QED
      BY <3>1, <3>2
  <2>4. /\ fees[u] = Cardinality(Paid(u))
        /\ Has(u, Seller) + Cardinality(Received(u)) = Cardinality(Parted(u)) + Has(u, a)
    BY <1>1 DEF Balanced
  <2>5. Has(u, Seller) \in Nat /\ Has(u, a) \in Nat /\ Has(u, b) \in Nat
    BY DEF Has
  <2> QED
    BY <1>1, <1>3, <2>1, <2>2, <2>3, <2>4, <2>5
<1> QED
  BY <1>2, <1>6 DEF Balanced

\* The fee of an offer that fails comes back to its sender.
LEMMA ReturnBalances ==
    ASSUME IsFiniteSet(Transfers), DeedsTypes, Balanced, NEW t \in Transfers, Return(t)
    PROVE  DeedsTypes' /\ Balanced'
<1> DEFINE a == from[t]
<1>1. /\ state[t] = "open" /\ state' = [state EXCEPT ![t] = "returned"]
      /\ fees' = [fees EXCEPT ![a] = @ - 1] /\ UNCHANGED <<from, to, owner>>
      /\ a \in Users
  BY DEF Return, Move, DeedsTypes
<1>2. DeedsTypes'
  BY <1>1 DEF DeedsTypes, States
<1>3. ASSUME NEW u \in Users
      PROVE  /\ Parted(u)' = Parted(u) /\ Received(u)' = Received(u)
             /\ Paid(u)' = IF u = a THEN Paid(u) \ {t} ELSE Paid(u)
  BY <1>1 DEF DeedsTypes, Parted, Received, Paid
<1>4. t \in Paid(a)
  BY <1>1 DEF Paid
<1>5. Cardinality(Paid(a) \ {t}) = Cardinality(Paid(a)) - 1
  BY <1>4, CountedSets, FS_RemoveElement
<1>6. ASSUME NEW u \in Users
      PROVE  /\ fees'[u] = Cardinality(Paid(u)')
             /\ Has(u, Seller) + Cardinality(Received(u)')
                  = Cardinality(Parted(u)') + Has(u, owner')
  BY <1>1, <1>3, <1>5 DEF DeedsTypes, Balanced
<1> QED
  BY <1>2, <1>6 DEF Balanced

\* A step that neither pays nor gives: a drop, or nothing.
LEMMA DropBalances ==
    ASSUME DeedsTypes, Balanced, (\E t \in Transfers : Drop(t)) \/ UNCHANGED deeds
    PROVE  DeedsTypes' /\ Balanced'
<1>1. /\ state' \in [Transfers -> States] /\ UNCHANGED <<from, to, owner, fees>>
      /\ \A t \in Transfers : \/ state'[t] = state[t]
                              \/ state[t] = "open" /\ state'[t] = "dropped"
  BY DEF DeedsTypes, Drop, Move, deeds, States
<1>2. ASSUME NEW u \in Users
      PROVE  /\ Paid(u)' = Paid(u)
             /\ Parted(u)' = Parted(u) /\ Received(u)' = Received(u)
  BY <1>1 DEF Paid, Parted, Received
<1> QED
  BY <1>1, <1>2 DEF DeedsTypes, Balanced

\* In TransferDeeds the fees and the owners always balance.
THEOREM DeedsBalanced ==
    ASSUME IsFiniteSet(Transfers), Seller \in Users
    PROVE  Spec => []Balanced
<1>1. Init => DeedsTypes /\ Balanced
  <2> SUFFICES ASSUME Init PROVE DeedsTypes /\ Balanced
    OBVIOUS
  <2>1. DeedsTypes
    BY DEF Init, DeedsTypes, States
  <2>2. ASSUME NEW u \in Users PROVE Paid(u) = {} /\ Parted(u) = {} /\ Received(u) = {}
    BY DEF Init, Paid, Parted, Received
  <2> QED
    BY <2>1, <2>2, FS_EmptySet DEF Init, Balanced, Has
<1>2. DeedsTypes /\ Balanced /\ [Next]_deeds => (DeedsTypes /\ Balanced)'
  BY OfferBalances, GiveBalances, ReturnBalances, DropBalances DEF Next
<1> QED
  BY <1>1, <1>2, PTL DEF Spec
==============================================================================
