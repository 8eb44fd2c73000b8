------------------------------ MODULE BagFacts ------------------------------
(* What the proofs about requests in flight need of bags: which elements a   *)
(* bag has after one more is put in and after one copy is taken out.         *)
EXTENDS Integers, Bags, TLAPS

(* A set is a bag with one copy of each of its elements. *)
LEMMA SetToBagFact ==
  ASSUME NEW S
  PROVE  IsABag(SetToBag(S)) /\ BagToSet(SetToBag(S)) = S
<1>1. DOMAIN SetToBag(S) = S BY DEF SetToBag
<1>2. \A e \in S : SetToBag(S)[e] = 1 BY DEF SetToBag
<1>3. SetToBag(S) \in [S -> {n \in Nat : n > 0}] BY DEF SetToBag
<1>4. QED BY <1>1, <1>3 DEF IsABag, BagToSet

LEMMA EmptyBagFact == IsABag(EmptyBag) /\ BagToSet(EmptyBag) = {}
BY SetToBagFact DEF EmptyBag

(* A sum has the elements of both. *)
LEMMA BagSum ==
  ASSUME NEW B, NEW C, IsABag(B), IsABag(C)
  PROVE  IsABag(B (+) C) /\ BagToSet(B (+) C) = BagToSet(B) \cup BagToSet(C)
<1> DEFINE f(e) == (IF e \in DOMAIN B THEN B[e] ELSE 0) + (IF e \in DOMAIN C THEN C[e] ELSE 0)
<1>1. B (+) C = [e \in (DOMAIN B) \cup (DOMAIN C) |-> f(e)] BY Zenon DEF (+)
<1>2. \A e \in (DOMAIN B) \cup (DOMAIN C) : f(e) \in {n \in Nat : n > 0}
  <2>1. \A e \in DOMAIN B : B[e] \in Nat /\ B[e] > 0 BY DEF IsABag
  <2>2. \A e \in DOMAIN C : C[e] \in Nat /\ C[e] > 0 BY DEF IsABag
  <2>3. QED BY <2>1, <2>2
<1> HIDE DEF f
<1>3. DOMAIN (B (+) C) = (DOMAIN B) \cup (DOMAIN C) BY <1>1
<1>4. B (+) C \in [(DOMAIN B) \cup (DOMAIN C) -> {n \in Nat : n > 0}] BY <1>1, <1>2
<1>5. QED BY <1>3, <1>4 DEF IsABag, BagToSet

(* One more copy. *)
LEMMA BagAddOne ==
  ASSUME NEW B, NEW r, IsABag(B)
  PROVE  IsABag(B (+) SetToBag({r})) /\ BagToSet(B (+) SetToBag({r})) = BagToSet(B) \cup {r}
BY BagSum, SetToBagFact

(* One copy less: no other element goes, and none appears. *)
LEMMA BagRemoveOne ==
  ASSUME NEW B, NEW r, IsABag(B)
  PROVE  /\ IsABag(B (-) SetToBag({r}))
         /\ BagToSet(B (-) SetToBag({r})) \subseteq BagToSet(B)
         /\ \A e \in BagToSet(B) : e # r => e \in BagToSet(B (-) SetToBag({r}))
<1> DEFINE C == SetToBag({r})
           D == [e \in DOMAIN B |-> IF e \in DOMAIN C THEN B[e] - C[e] ELSE B[e]]
           E == {d \in DOMAIN D : D[d] > 0}
<1>1. B (-) C = [e \in E |-> D[e]] BY Zenon DEF (-)
<1>2. DOMAIN C = {r} /\ C[r] = 1 BY DEF SetToBag
<1> HIDE DEF C
<1>3. \A e \in DOMAIN B : B[e] \in Nat /\ B[e] > 0 BY DEF IsABag
<1>4. DOMAIN D = DOMAIN B OBVIOUS
<1>5. \A e \in DOMAIN B : e # r => D[e] = B[e] BY <1>2
<1>6. \A e \in DOMAIN B : D[e] \in Int BY <1>2, <1>3
<1> HIDE DEF D
<1>7. \A e \in E : D[e] \in Nat /\ D[e] > 0 BY <1>4, <1>6
<1>8. E \subseteq DOMAIN B BY <1>4
<1>9. \A e \in DOMAIN B : e # r => e \in E BY <1>3, <1>4, <1>5
<1> HIDE DEF E
<1>10. DOMAIN (B (-) C) = E /\ B (-) C \in [E -> {n \in Nat : n > 0}] BY <1>1, <1>7
<1>11. QED BY <1>8, <1>9, <1>10 DEF IsABag, BagToSet, C
=============================================================================
