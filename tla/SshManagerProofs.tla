-------------------------- MODULE SshManagerProofs --------------------------
(* Proofs about SshManager, for every finite set of callers, every bound on  *)
(* calls and entries and every max_in_flight_global and _per_server.         *)
EXTENDS SshManager, TLAPS, FiniteSetTheorems

-----------------------------------------------------------------------------
(* The inductive invariant *)

(* What a caller's await says of its other locals. *)
InEntry(p) == p \in {"slot", "lock", "connecting", "running", "drain", "closeLock", "closing"}
CallerOK(c) ==
  /\ pc[c] # "idle" => op[c] \in Ops
  /\ ent[c] \in 0 .. built
  /\ InEntry(pc[c]) <=> ent[c] # NoEntry
  /\ pc[c] \in {"global", "slot"} => op[c] \in {"run", "acquire"}
  /\ pc[c] \in {"lock", "connecting"} => op[c] \in {"run", "acquire", "test"}
  /\ pc[c] = "running" => op[c] = "run"
  /\ drained[c] = 0 \/ Owner(c)
  /\ pc[c] = "drain" => drained[c] < MaxPerServer
  /\ pc[c] \in {"closeLock", "closing"} => drained[c] = MaxPerServer
CallersOK == \A c \in Callers : CallerOK(c)

(* One caller at a time retires the server's entry, which stays managed      *)
(* until all its permits are drained; a command past its check holds one.    *)
OwnerInv ==
  /\ \A c, d \in Callers : Owner(c) /\ Owner(d) => c = d
  /\ \A c \in Callers :
       /\ Owner(c) => retiring
       /\ pc[c] = "drain" => ent[c] = managed
       /\ pc[c] \in {"closeLock", "closing"} => managed = NoEntry
       /\ pc[c] \in {"lock", "connecting", "running"} /\ op[c] = "run" => ent[c] = managed

(* q holds the members of S, each once. *)
IsQueueOf(q, S) ==
  /\ q \in Seq(Callers)
  /\ \A i, j \in 1 .. Len(q) : q[i] = q[j] => i = j
  /\ \A c \in Callers : c \in S <=> \E i \in 1 .. Len(q) : q[i] = c

InSlotQ(e) == {c \in Callers : pc[c] \in {"slot", "drain"} /\ ent[c] = e}
InLockQ(e) == {c \in Callers : pc[c] \in {"lock", "closeLock"} /\ ent[c] = e}

IsLast(q, c) == q # <<>> /\ q[Len(q)] = c

(* The drain and the close come after everyone who got the entry before.     *)
QueueInv ==
  /\ \A e \in Entries : IsQueueOf(slotQ[e], InSlotQ(e)) /\ IsQueueOf(lockQ[e], InLockQ(e))
  /\ \A c \in Callers :
       /\ pc[c] = "drain" => IsLast(slotQ[ent[c]], c)
       /\ pc[c] = "closeLock" => IsLast(lockQ[ent[c]], c)

LockInv ==
  /\ \A c \in Callers : pc[c] = "connecting" => locked[ent[c]]
  /\ \A c, d \in Callers :
       pc[c] = "connecting" /\ pc[d] = "connecting" /\ ent[c] = ent[d] => c = d

(* Nobody can open an entry again once its owner has closed it. *)
BeingClosed(e) == \E c \in Callers : pc[c] = "closeLock" /\ ent[c] = e
ClosedInv ==
  \A e \in Entries \ {managed} :
    /\ \A c \in Callers : ent[c] = e => pc[c] # "slot"
    /\ e \notin stray /\ ~BeingClosed(e) =>
         /\ ~open[e]
         /\ \A c \in Callers : ent[c] = e => pc[c] \notin {"lock", "connecting"}

SshInv ==
  /\ TypeOK /\ CallersOK /\ PermitsAddUp /\ OwnerInv
  /\ QueueInv /\ LockInv /\ ClosedInv

-----------------------------------------------------------------------------
(* Permits *)

(* h[c] marks for every caller c. *)
Marks(h) == {p \in Callers \X (1 .. MaxPerServer) : p[2] <= h[p[1]]}

LEMMA OneTo == \A n \in Nat : IsFiniteSet(1 .. n) /\ Cardinality(1 .. n) = n
<1> TAKE n \in Nat
<1>1. 1 \in Int /\ n \in Int OBVIOUS
<1>2. /\ IsFiniteSet(1 .. n) /\ Cardinality(1 .. n) = IF 1 > n THEN 0 ELSE n - 1 + 1
  BY <1>1, FS_Interval
<1>3. QED BY <1>2

LEMMA MarksFinite ==
  ASSUME NEW h
  PROVE  IsFiniteSet(Marks(h)) /\ Cardinality(Marks(h)) \in Nat
<1>1. IsFiniteSet(Callers) /\ IsFiniteSet(1 .. MaxPerServer) BY OneTo, BoundAssumption
<1>2. IsFiniteSet(Callers \X (1 .. MaxPerServer)) BY <1>1, FS_Product
<1>3. Marks(h) \subseteq Callers \X (1 .. MaxPerServer) BY DEF Marks
<1>4. QED BY <1>2, <1>3, FS_Subset, FS_CardinalityType

(* The marks of c apart from those of the others. *)
LEMMA MarksOf ==
  ASSUME NEW h \in [Callers -> 0 .. MaxPerServer], NEW c \in Callers
  PROVE  Cardinality(Marks(h)) = Cardinality({p \in Marks(h) : p[1] # c}) + h[c]
<1> DEFINE rest == {p \in Marks(h) : p[1] # c}
           own == {c} \X (1 .. h[c])
<1>1. h[c] \in Nat /\ h[c] <= MaxPerServer /\ MaxPerServer \in Nat BY BoundAssumption
<1>2. Marks(h) = rest \cup own BY <1>1 DEF Marks
<1>3. rest \cap own = {} OBVIOUS
<1>4. IsFiniteSet(rest) /\ Cardinality(rest) \in Nat
  <2>1. rest \subseteq Marks(h) OBVIOUS
  <2>2. QED BY <2>1, MarksFinite, FS_Subset, FS_CardinalityType
<1>5. IsFiniteSet(own) /\ Cardinality(own) = h[c]
  <2>1. IsFiniteSet({c}) /\ Cardinality({c}) = 1 BY FS_Singleton
  <2>2. IsFiniteSet(1 .. h[c]) /\ Cardinality(1 .. h[c]) = h[c] BY <1>1, OneTo
  <2>3. IsFiniteSet(own) /\ Cardinality(own) = Cardinality({c}) * Cardinality(1 .. h[c])
    BY <2>1, <2>2, FS_Product
  <2>4. QED BY <1>1, <2>1, <2>2, <2>3
<1> HIDE DEF rest, own
<1>6. Cardinality(rest \cup own) = Cardinality(rest) + Cardinality(own) - Cardinality(rest \cap own)
  BY <1>4, <1>5, FS_Union
<1>7. Cardinality(rest \cap own) = 0 BY <1>3, FS_EmptySet
<1>8. Cardinality(Marks(h)) = Cardinality(rest) + h[c] - 0 BY <1>2, <1>5, <1>6, <1>7
<1>9. QED BY <1>1, <1>4, <1>8 DEF rest

LEMMA MarksChange ==
  ASSUME NEW g \in [Callers -> 0 .. MaxPerServer], NEW h \in [Callers -> 0 .. MaxPerServer],
         NEW c \in Callers, \A d \in Callers : d # c => g[d] = h[d]
  PROVE  Cardinality(Marks(g)) + h[c] = Cardinality(Marks(h)) + g[c]
<1> DEFINE others(f) == {p \in Marks(f) : p[1] # c}
<1>1. others(g) = others(h) BY DEF Marks
<1>2. /\ Cardinality(Marks(g)) = Cardinality(others(g)) + g[c]
      /\ Cardinality(Marks(h)) = Cardinality(others(h)) + h[c]
  BY MarksOf
<1>3. Cardinality(others(g)) \in Nat
  <2>1. others(g) \subseteq Marks(g) OBVIOUS
  <2>2. QED BY <2>1, MarksFinite, FS_Subset, FS_CardinalityType
<1>4. g[c] \in Nat /\ h[c] \in Nat BY BoundAssumption
<1> HIDE DEF others
<1>5. QED BY <1>1, <1>2, <1>3, <1>4

(* Two callers' marks are among all. *)
LEMMA TwoMarks ==
  ASSUME NEW h \in [Callers -> 0 .. MaxPerServer], NEW c \in Callers, NEW d \in Callers, c # d
  PROVE  h[c] + h[d] <= Cardinality(Marks(h))
<1> DEFINE g == [h EXCEPT ![c] = 0]
<1>1. /\ g \in [Callers -> 0 .. MaxPerServer] /\ g[c] = 0 /\ g[d] = h[d]
      /\ \A b \in Callers : b # c => g[b] = h[b]
  BY BoundAssumption
<1> HIDE DEF g
<1>2. Cardinality(Marks(g)) + h[c] = Cardinality(Marks(h)) + g[c] BY <1>1, MarksChange
<1>3. Cardinality(Marks(g)) = Cardinality({p \in Marks(g) : p[1] # d}) + g[d] BY <1>1, MarksOf
<1>4. /\ Cardinality({p \in Marks(g) : p[1] # d}) \in Nat
      /\ Cardinality(Marks(g)) \in Nat /\ Cardinality(Marks(h)) \in Nat
  <2>1. {p \in Marks(g) : p[1] # d} \subseteq Marks(g) OBVIOUS
  <2>2. QED BY <2>1, MarksFinite, FS_Subset, FS_CardinalityType
<1>5. h[c] \in Nat /\ h[d] \in Nat BY BoundAssumption
<1>6. QED BY <1>1, <1>2, <1>3, <1>4, <1>5

HeldAt(c, e) == IF ent[c] = e THEN Held(c) ELSE 0
HeldOf(e) == [c \in Callers |-> HeldAt(c, e)]

LEMMA HeldType ==
  ASSUME TypeOK
  PROVE  /\ \A c \in Callers : Held(c) \in 0 .. MaxPerServer
         /\ \A e \in Entries : HeldOf(e) \in [Callers -> 0 .. MaxPerServer]
<1>1. \A c \in Callers : Held(c) \in 0 .. MaxPerServer
  BY BoundAssumption DEF TypeOK, Held
<1>2. QED BY <1>1, BoundAssumption DEF HeldOf, HeldAt

LEMMA PermitsAreMarks ==
  ASSUME TypeOK, NEW e \in Entries
  PROVE  Permits(e) = Marks(HeldOf(e))
<1>1. \A p \in Callers \X (1 .. MaxPerServer) :
        (ent[p[1]] = e /\ p[2] <= Held(p[1])) <=> p[2] <= HeldOf(e)[p[1]]
  BY HeldType, BoundAssumption DEF HeldOf, HeldAt
<1>2. QED BY <1>1 DEF Permits, Marks

-----------------------------------------------------------------------------
(* One caller moves: the others stay where they are, or the retire event     *)
(* wakes them.                                                               *)
Others(c) ==
  \A d \in Callers : d # c =>
    /\ op'[d] = op[d] /\ ent'[d] = ent[d] /\ drained'[d] = drained[d]
    /\ pc'[d] = pc[d] \/ (pc[d] = "waitRetired" /\ pc'[d] = "retired")

(* What c gives back is free, and what it takes is not. *)
Exchanges(c) ==
  /\ free' \in [Entries -> Nat]
  /\ \A e \in Entries : free'[e] + HeldAt(c, e)' = free[e] + HeldAt(c, e)

LEMMA PermitsStep ==
  ASSUME TypeOK, PermitsAddUp, NEW c \in Callers, Others(c), Exchanges(c),
         ent' \in [Callers -> Entries \cup {NoEntry}],
         drained' \in [Callers -> 0 .. MaxPerServer]
  PROVE  PermitsAddUp' /\ free' \in [Entries -> 0 .. MaxPerServer]
<1>1. \A d \in Callers : Held(d)' \in 0 .. MaxPerServer
  BY BoundAssumption DEF Held
<1>2. ASSUME NEW e \in Entries
      PROVE  /\ free'[e] + Cardinality(Permits(e)') = MaxPerServer
             /\ free'[e] \in 0 .. MaxPerServer
  <2>1. /\ HeldOf(e) \in [Callers -> 0 .. MaxPerServer] /\ Permits(e) = Marks(HeldOf(e))
    BY HeldType, PermitsAreMarks
  <2> DEFINE g == [d \in Callers |-> HeldAt(d, e)']
             h == HeldOf(e)
  <2>2. g \in [Callers -> 0 .. MaxPerServer] BY <1>1, BoundAssumption DEF HeldAt
  <2>3. Permits(e)' = Marks(g)
    <3>1. \A p \in Callers \X (1 .. MaxPerServer) :
            (ent'[p[1]] = e /\ p[2] <= Held(p[1])') <=> p[2] <= g[p[1]]
      BY <1>1, BoundAssumption DEF HeldAt
    <3>2. QED BY <3>1 DEF Permits, Marks
  <2>4. \A d \in Callers : d # c => g[d] = h[d]
    BY DEF Others, HeldOf, HeldAt, Held, Owner
  <2>5. g[c] = HeldAt(c, e)' /\ h[c] = HeldAt(c, e) BY DEF HeldOf
  <2> HIDE DEF g, h
  <2>6. Cardinality(Marks(g)) + h[c] = Cardinality(Marks(h)) + g[c]
    BY <2>1, <2>2, <2>4, MarksChange DEF h
  <2>7. Cardinality(Marks(g)) \in Nat /\ Cardinality(Marks(h)) \in Nat BY MarksFinite
  <2>8. g[c] \in Nat /\ h[c] \in Nat /\ MaxPerServer \in Nat
    BY <2>1, <2>2, BoundAssumption DEF h
  <2>9. free[e] \in Nat /\ free'[e] \in Nat /\ free[e] + Cardinality(Marks(h)) = MaxPerServer
    BY <2>1, BoundAssumption DEF TypeOK, Exchanges, PermitsAddUp, h
  <2>10. free'[e] + g[c] = free[e] + h[c] BY <2>5 DEF Exchanges
  <2>11. free'[e] + Cardinality(Marks(g)) = MaxPerServer BY <2>6, <2>7, <2>8, <2>9, <2>10
  <2>12. QED BY <2>3, <2>7, <2>8, <2>9, <2>11
<1>3. QED BY <1>2 DEF PermitsAddUp, Exchanges

(* The last permit of a drain: nobody else holds one. *)
LEMMA AllDrained ==
  ASSUME TypeOK, PermitsAddUp, NEW c \in Callers, pc[c] = "drain", ent[c] \in Entries,
         free[ent[c]] > 0, drained[c] + 1 >= MaxPerServer,
         NEW d \in Callers, d # c, ent[d] = ent[c]
  PROVE  Held(d) = 0
<1> DEFINE e == ent[c]
           h == HeldOf(e)
<1>1. h \in [Callers -> 0 .. MaxPerServer] BY HeldType
<1>2. h[c] = drained[c] /\ h[d] = Held(d) BY DEF HeldOf, HeldAt, Held, Owner
<1>3. Permits(e) = Marks(h) BY PermitsAreMarks
<1>4. free[e] + Cardinality(Permits(e)) = MaxPerServer BY DEF PermitsAddUp
<1>5. free[e] \in Nat BY BoundAssumption DEF TypeOK
<1>6. drained[c] \in Nat /\ Held(d) \in Nat /\ MaxPerServer \in Nat
  BY HeldType, BoundAssumption DEF TypeOK
<1> HIDE DEF h
<1>7. h[c] + h[d] <= Cardinality(Marks(h)) BY <1>1, TwoMarks
<1>8. Cardinality(Marks(h)) \in Nat BY MarksFinite
<1>9. QED BY <1>2, <1>3, <1>4, <1>5, <1>6, <1>7, <1>8

-----------------------------------------------------------------------------
(* Queues *)

LEMMA QueueAppend ==
  ASSUME NEW q, NEW S, NEW c \in Callers, IsQueueOf(q, S), c \notin S
  PROVE  IsQueueOf(Append(q, c), S \cup {c}) /\ IsLast(Append(q, c), c)
<1>1. q \in Seq(Callers) /\ Len(q) \in Nat BY DEF IsQueueOf
<1>2. /\ Append(q, c) \in Seq(Callers) /\ Len(Append(q, c)) = Len(q) + 1
      /\ Append(q, c)[Len(q) + 1] = c
      /\ \A i \in 1 .. Len(q) : Append(q, c)[i] = q[i]
  BY <1>1
<1>3. \A i \in 1 .. Len(q) : q[i] # c BY DEF IsQueueOf
<1>4. \A i \in 1 .. Len(q) + 1 : i \in 1 .. Len(q) \/ i = Len(q) + 1 BY <1>1
<1>5. \A i \in 1 .. Len(q) : i \in 1 .. Len(q) + 1 BY <1>1
<1>6. Len(q) + 1 \in 1 .. Len(q) + 1 BY <1>1
<1>7. Append(q, c) # <<>> BY <1>1
<1>8. QED BY <1>1, <1>2, <1>3, <1>4, <1>5, <1>6, <1>7 DEF IsQueueOf, IsLast

LEMMA QueueTail ==
  ASSUME NEW q, NEW S, NEW c \in Callers, IsQueueOf(q, S), c \in S, Head(q) = c
  PROVE  /\ IsQueueOf(Tail(q), S \ {c})
         /\ \A d \in Callers : d # c /\ IsLast(q, d) => IsLast(Tail(q), d)
         /\ IsLast(q, c) => \A d \in Callers : d \in S => d = c
<1>1. q \in Seq(Callers) /\ Len(q) \in Nat BY DEF IsQueueOf
<1>2. Len(q) > 0 /\ q # <<>> /\ q[1] = c BY <1>1 DEF IsQueueOf
<1>3. /\ Tail(q) \in Seq(Callers) /\ Len(Tail(q)) = Len(q) - 1
      /\ \A i \in 1 .. Len(q) - 1 : Tail(q)[i] = q[i + 1]
  BY <1>1, <1>2
<1>4. IsQueueOf(Tail(q), S \ {c})
  <2>1. \A i, j \in 1 .. Len(Tail(q)) : Tail(q)[i] = Tail(q)[j] => i = j
    BY <1>1, <1>3 DEF IsQueueOf
  <2>2. ASSUME NEW d \in Callers PROVE d \in S \ {c} => \E i \in 1 .. Len(Tail(q)) : Tail(q)[i] = d
    <3> SUFFICES ASSUME d \in S, d # c PROVE \E i \in 1 .. Len(Tail(q)) : Tail(q)[i] = d OBVIOUS
    <3>1. PICK i \in 1 .. Len(q) : q[i] = d BY DEF IsQueueOf
    <3>2. i - 1 \in 1 .. Len(q) - 1 /\ (i - 1) + 1 = i BY <1>1, <1>2, <3>1
    <3>3. QED BY <1>3, <3>1, <3>2
  <2>3. ASSUME NEW d \in Callers, NEW i \in 1 .. Len(Tail(q)), Tail(q)[i] = d PROVE d \in S \ {c}
    <3>1. i + 1 \in 1 .. Len(q) /\ 1 \in 1 .. Len(q) /\ i + 1 # 1 /\ q[i + 1] = d
      BY <1>1, <1>2, <1>3, <2>3
    <3>2. d # c BY <1>2, <3>1 DEF IsQueueOf
    <3>3. QED BY <3>1, <3>2 DEF IsQueueOf
  <2>4. QED BY <1>3, <2>1, <2>2, <2>3 DEF IsQueueOf
<1>5. ASSUME NEW d \in Callers, d # c, IsLast(q, d) PROVE IsLast(Tail(q), d)
  <2>1. Len(q) # 1 /\ Len(q) - 1 \in 1 .. Len(q) - 1 BY <1>1, <1>2, <1>5 DEF IsLast
  <2>2. Tail(q)[Len(q) - 1] = q[(Len(q) - 1) + 1] BY <1>3, <2>1
  <2>3. (Len(q) - 1) + 1 = Len(q) BY <1>1
  <2>4. Tail(q) # <<>> BY <1>1, <1>3, <2>1
  <2>5. QED BY <1>3, <1>5, <2>2, <2>3, <2>4 DEF IsLast
<1>6. ASSUME IsLast(q, c) PROVE \A d \in Callers : d \in S => d = c
  <2>1. Len(q) \in 1 .. Len(q) /\ 1 \in 1 .. Len(q) BY <1>1, <1>2
  <2>2. Len(q) = 1 BY <1>2, <1>6, <2>1 DEF IsLast, IsQueueOf
  <2>3. QED BY <1>2, <2>2 DEF IsQueueOf
<1>7. QED BY <1>4, <1>5, <1>6

LEMMA QueueDropped ==
  ASSUME NEW q, NEW S, NEW c \in Callers, IsQueueOf(q, S)
  PROVE  /\ IsQueueOf(Dropped(q, c), S \ {c})
         /\ \A d \in Callers : d # c /\ IsLast(q, d) => IsLast(Dropped(q, c), d)
<1>1. q \in Seq(Callers) /\ Len(q) \in Nat /\ DOMAIN q = 1 .. Len(q) BY DEF IsQueueOf
<1>2. CASE ~\E i \in DOMAIN q : q[i] = c
  <2>1. Dropped(q, c) = q BY <1>2 DEF Dropped
  <2>2. QED BY <1>1, <1>2, <2>1 DEF IsQueueOf
<1>3. CASE \E i \in DOMAIN q : q[i] = c
  <2> DEFINE at == CHOOSE i \in DOMAIN q : q[i] = c
             r == [i \in 1 .. Len(q) - 1 |-> IF i < at THEN q[i] ELSE q[i + 1]]
             from(i) == IF i < at THEN i ELSE i + 1
  <2>1. at \in 1 .. Len(q) /\ q[at] = c BY <1>1, <1>3
  <2>2. Dropped(q, c) = r BY <1>3 DEF Dropped
  <2> HIDE DEF at
  <2>3. \A i \in 1 .. Len(q) - 1 : from(i) \in 1 .. Len(q) /\ from(i) # at /\ r[i] = q[from(i)]
    BY <1>1, <2>1
  <2>4. Len(q) - 1 \in Nat BY <1>1, <2>1
  <2>5. r \in Seq(Callers) /\ Len(r) = Len(q) - 1
    <3>1. \A i \in 1 .. Len(q) - 1 : r[i] \in Callers BY <1>1, <2>3
    <3>2. QED BY <2>4, <3>1
  <2>6. \A i, j \in 1 .. Len(q) - 1 : from(i) = from(j) => i = j BY <1>1, <2>1
  <2>7. \A k \in 1 .. Len(q) : k # at => \E i \in 1 .. Len(q) - 1 : from(i) = k
    <3> SUFFICES ASSUME NEW k \in 1 .. Len(q), k # at
                 PROVE  \E i \in 1 .. Len(q) - 1 : from(i) = k
      OBVIOUS
    <3>1. CASE k < at
      <4>1. k \in 1 .. Len(q) - 1 /\ from(k) = k BY <1>1, <2>1, <3>1
      <4>2. QED BY <4>1
    <3>2. CASE ~(k < at)
      <4>1. k - 1 \in 1 .. Len(q) - 1 /\ from(k - 1) = k BY <1>1, <2>1, <3>2
      <4>2. QED BY <4>1
    <3>3. QED BY <3>1, <3>2
  <2>8. Len(q) # at => Len(q) - 1 \in 1 .. Len(q) - 1 /\ from(Len(q) - 1) = Len(q)
    <3> SUFFICES ASSUME Len(q) # at
                 PROVE  Len(q) - 1 \in 1 .. Len(q) - 1 /\ from(Len(q) - 1) = Len(q)
      OBVIOUS
    <3>1. \A n \in Nat : \A a \in 1 .. n : n # a => n - 1 \in 1 .. (n - 1) /\ ~(n - 1 < a)
      OBVIOUS
    <3>2. Len(q) - 1 \in 1 .. Len(q) - 1 /\ ~(Len(q) - 1 < at) BY ONLY <3>1, <1>1, <2>1, Len(q) # at
    <3>3. (Len(q) - 1) + 1 = Len(q) BY <1>1
    <3>4. QED BY <3>2, <3>3
  <2> HIDE DEF r, from
  <2>9. IsQueueOf(r, S \ {c})
    <3>1. \A i, j \in 1 .. Len(r) : r[i] = r[j] => i = j
      BY <2>3, <2>5, <2>6 DEF IsQueueOf
    <3>2. ASSUME NEW d \in Callers, d \in S, d # c PROVE \E i \in 1 .. Len(r) : r[i] = d
      <4>1. PICK k \in 1 .. Len(q) : q[k] = d BY <3>2 DEF IsQueueOf
      <4>2. PICK i \in 1 .. Len(q) - 1 : from(i) = k BY <2>1, <2>7, <3>2, <4>1
      <4>3. QED BY <2>3, <2>5, <4>1, <4>2
    <3>3. ASSUME NEW d \in Callers, NEW i \in 1 .. Len(r), r[i] = d PROVE d \in S /\ d # c
      BY <2>1, <2>3, <2>5, <3>3 DEF IsQueueOf
    <3>4. QED BY <2>5, <3>1, <3>2, <3>3 DEF IsQueueOf
  <2>10. ASSUME NEW d \in Callers, d # c, IsLast(q, d) PROVE IsLast(r, d)
    <3>1. Len(q) # at BY <2>1, <2>10 DEF IsLast
    <3>2. Len(q) - 1 \in 1 .. Len(q) - 1 /\ from(Len(q) - 1) = Len(q)
      BY <2>8, <3>1
    <3>3. r # <<>> BY <2>5, <3>2
    <3>4. QED BY <2>3, <2>5, <2>10, <3>2, <3>3 DEF IsLast
  <2>11. QED BY <2>2, <2>9, <2>10
<1>4. QED BY <1>2, <1>3

-----------------------------------------------------------------------------
(* A caller gives up or returns, or has not come to an entry yet *)

TypeRest ==
  /\ record \in Identities
  /\ managed \in {NoEntry, built} /\ built \in 0 .. MaxEntries
  /\ retiring \in BOOLEAN
  /\ ident \in [Entries -> Identities \cup {NoIdentity}]
  /\ open \in [Entries -> BOOLEAN] /\ backoff \in [Entries -> BOOLEAN]
  /\ locked \in [Entries -> BOOLEAN]
  /\ inGlobal \subseteq Callers
  /\ calls \in 0 .. MaxCalls
  /\ pc \in [Callers -> PC]
  /\ op \in [Callers -> Ops \cup {"none"}]
  /\ rec \in [Callers -> Identities \cup {NoIdentity}]
  /\ ent \in [Callers -> Entries \cup {NoEntry}]
  /\ drained \in [Callers -> 0 .. MaxPerServer]
  /\ stray \subseteq Entries

(* c is not in the queue, or its turn comes, or it is taken out of it. *)
Shrinks(q, r, S, c) ==
  \/ r = q /\ c \notin S
  \/ r = Tail(q) /\ Head(q) = c /\ c \in S
  \/ r = Dropped(q, c)
QueuesShrink(c) ==
  /\ slotQ' = [e \in Entries |-> slotQ'[e]] /\ lockQ' = [e \in Entries |-> lockQ'[e]]
  /\ \A e \in Entries : /\ Shrinks(slotQ[e], slotQ'[e], InSlotQ(e), c)
                        /\ Shrinks(lockQ[e], lockQ'[e], InLockQ(e), c)

LEMMA ShrinksQueue ==
  ASSUME NEW q, NEW r, NEW S, NEW c \in Callers, IsQueueOf(q, S), Shrinks(q, r, S, c)
  PROVE  /\ IsQueueOf(r, S \ {c})
         /\ \A d \in Callers : d # c /\ IsLast(q, d) => IsLast(r, d)
<1>1. CASE r = q /\ c \notin S
  BY <1>1 DEF IsQueueOf
<1>2. CASE r = Tail(q) /\ Head(q) = c /\ c \in S BY <1>2, QueueTail
<1>3. CASE r = Dropped(q, c) BY <1>3, QueueDropped
<1>4. QED BY <1>1, <1>2, <1>3 DEF Shrinks

LEMMA TypeFromRest ==
  ASSUME TypeRest', free' \in [Entries -> 0 .. MaxPerServer],
         slotQ' = [e \in Entries |-> slotQ'[e]], lockQ' = [e \in Entries |-> lockQ'[e]],
         \A e \in Entries : slotQ'[e] \in Seq(Callers) /\ lockQ'[e] \in Seq(Callers)
  PROVE  TypeOK'
<1>1. slotQ' \in [Entries -> Seq(Callers)] /\ lockQ' \in [Entries -> Seq(Callers)]
  OBVIOUS
<1>2. QED BY <1>1 DEF TypeRest, TypeOK

(* c moves, the others stay: what holds of each of them by itself. *)
LEMMA CallersStep ==
  ASSUME SshInv, NEW c \in Callers, Others(c), CallerOK(c)', TypeRest',
         built' = built \/ built' = built + 1
  PROVE  CallersOK'
<1> SUFFICES ASSUME NEW d \in Callers, d # c PROVE CallerOK(d)' BY DEF CallersOK
<1>1. /\ op'[d] = op[d] /\ ent'[d] = ent[d] /\ drained'[d] = drained[d]
      /\ pc'[d] = pc[d] \/ (pc[d] = "waitRetired" /\ pc'[d] = "retired")
  BY DEF Others
<1>2. CallerOK(d) BY DEF SshInv, CallersOK
<1>3. ent'[d] \in 0 .. built'
  BY <1>1, <1>2, BoundAssumption DEF CallerOK, SshInv, TypeOK
<1>4. QED BY <1>1, <1>2, <1>3 DEF CallerOK, InEntry, Owner

Out(c) ==
  /\ Others(c) /\ Exchanges(c) /\ CallerOK(c)' /\ ~InEntry(pc'[c])
  /\ managed' = managed /\ built' = built /\ (retiring' = retiring \/ Owner(c))
  /\ stray' = (IF pc[c] = "closeLock" THEN stray \cup {ent[c]} ELSE stray)
  /\ \A e \in Entries :
       /\ open'[e] => open[e] \/ (pc[c] = "connecting" /\ ent[c] = e)
       /\ locked[e] => locked'[e] \/ (pc[c] = "connecting" /\ ent[c] = e)
  /\ QueuesShrink(c)

LEMMA OutPreserves ==
  ASSUME SshInv, NEW c \in Callers, Out(c), TypeRest'
  PROVE  SshInv'
<1>1. /\ Others(c) /\ Exchanges(c) /\ CallerOK(c)' /\ ~InEntry(pc'[c])
      /\ managed' = managed /\ built' = built /\ (retiring' = retiring \/ Owner(c))
      /\ stray' = (IF pc[c] = "closeLock" THEN stray \cup {ent[c]} ELSE stray)
      /\ QueuesShrink(c)
  BY DEF Out
<1>2. \A d \in Callers : d # c =>
        /\ op'[d] = op[d] /\ ent'[d] = ent[d] /\ drained'[d] = drained[d]
        /\ pc'[d] = pc[d] \/ (pc[d] = "waitRetired" /\ pc'[d] = "retired")
  BY <1>1 DEF Others
<1>3. /\ pc'[c] \notin {"slot", "lock", "connecting", "running", "drain", "closeLock", "closing"}
      /\ ~Owner(c)'
  BY <1>1 DEF InEntry, Owner
<1>4. CallersOK' BY <1>1, CallersStep
<1>5. PermitsAddUp' /\ free' \in [Entries -> 0 .. MaxPerServer]
  BY <1>1, PermitsStep DEF SshInv, TypeRest
<1>6. OwnerInv' BY <1>1, <1>2, <1>3 DEF SshInv, OwnerInv, Owner
<1>7. \A e \in Entries : InSlotQ(e)' = InSlotQ(e) \ {c} /\ InLockQ(e)' = InLockQ(e) \ {c}
  BY <1>2, <1>3 DEF InSlotQ, InLockQ
<1>8. \A e \in Entries :
        /\ IsQueueOf(slotQ'[e], InSlotQ(e) \ {c}) /\ IsQueueOf(lockQ'[e], InLockQ(e) \ {c})
        /\ \A d \in Callers : d # c => /\ IsLast(slotQ[e], d) => IsLast(slotQ'[e], d)
                                       /\ IsLast(lockQ[e], d) => IsLast(lockQ'[e], d)
  BY <1>1, ShrinksQueue DEF SshInv, QueueInv, QueuesShrink
<1>9. TypeOK' BY <1>1, <1>5, <1>8, TypeFromRest DEF QueuesShrink, IsQueueOf
<1>10. QueueInv'
  <2>1. \A e \in Entries : IsQueueOf(slotQ'[e], InSlotQ(e)') /\ IsQueueOf(lockQ'[e], InLockQ(e)')
    BY <1>7, <1>8
  <2>2. ASSUME NEW d \in Callers
        PROVE  /\ pc'[d] = "drain" => IsLast(slotQ'[ent'[d]], d)
               /\ pc'[d] = "closeLock" => IsLast(lockQ'[ent'[d]], d)
    <3>1. pc'[d] \in {"drain", "closeLock"} =>
            d # c /\ pc[d] = pc'[d] /\ ent'[d] = ent[d] /\ ent[d] \in Entries
      BY <1>2, <1>3 DEF SshInv, CallersOK, CallerOK, InEntry, TypeOK
    <3>2. QED BY <1>8, <3>1 DEF SshInv, QueueInv
  <2>3. QED BY <2>1, <2>2 DEF QueueInv
<1>11. LockInv'
  <2>1. ASSUME NEW d \in Callers, pc'[d] = "connecting"
        PROVE  d # c /\ pc[d] = "connecting" /\ ent'[d] = ent[d] /\ locked'[ent'[d]]
    <3>1. d # c /\ pc[d] = "connecting" /\ ent'[d] = ent[d] /\ ent[d] \in Entries
      BY <1>2, <1>3, <2>1 DEF SshInv, CallersOK, CallerOK, InEntry, TypeOK
    <3>2. locked[ent[d]] /\ ~(pc[c] = "connecting" /\ ent[c] = ent[d])
      BY <3>1 DEF SshInv, LockInv
    <3>3. QED BY <3>1, <3>2 DEF Out
  <2>2. QED BY <2>1 DEF SshInv, LockInv
<1>12. ClosedInv'
  <2> SUFFICES ASSUME NEW e \in Entries, e # managed
               PROVE  /\ \A d \in Callers : ent'[d] = e => pc'[d] # "slot"
                      /\ e \notin stray' /\ ~BeingClosed(e)' =>
                           /\ ~open'[e]
                           /\ \A d \in Callers : ent'[d] = e => pc'[d] \notin {"lock", "connecting"}
    BY <1>1 DEF ClosedInv
  <2>1. \A d \in Callers : ent'[d] = e => pc'[d] # "slot"
    BY <1>2, <1>3 DEF SshInv, ClosedInv
  <2>2. ASSUME e \notin stray', ~BeingClosed(e)' PROVE e \notin stray /\ ~BeingClosed(e)
    BY <1>1, <1>2, <2>2 DEF BeingClosed
  <2>3. ASSUME e \notin stray', ~BeingClosed(e)'
        PROVE  ~open[e] /\ \A d \in Callers : ent[d] = e => pc[d] \notin {"lock", "connecting"}
    BY <2>2, <2>3 DEF SshInv, ClosedInv
  <2>4. ASSUME e \notin stray', ~BeingClosed(e)' PROVE ~open'[e]
    BY <2>3, <2>4 DEF Out
  <2>5. QED BY <1>2, <1>3, <2>1, <2>3, <2>4
<1>13. QED BY <1>4, <1>5, <1>6, <1>9, <1>10, <1>11, <1>12 DEF SshInv

-----------------------------------------------------------------------------
(* A caller gets an entry: the managed one, or a new one *)

Grows(q, r, S, c, in) == IF in THEN r = Append(q, c) /\ c \notin S ELSE r = q /\ c \notin S
Join(c) ==
  /\ Others(c) /\ Exchanges(c) /\ CallerOK(c)' /\ ~InEntry(pc[c]) /\ ~retiring
  /\ pc'[c] \in {"slot", "lock", "drain"} /\ (pc'[c] = "lock" => op'[c] = "test")
  /\ retiring' = (pc'[c] = "drain")
  /\ \/ managed' = managed /\ built' = built
     \/ managed = NoEntry /\ built' = built + 1 /\ managed' = built'
  /\ ent'[c] = managed' /\ managed' \in Entries
  /\ open' = open /\ locked' = locked /\ stray' = stray
  /\ slotQ' = [e \in Entries |-> slotQ'[e]] /\ lockQ' = [e \in Entries |-> lockQ'[e]]
  /\ \A e \in Entries :
       /\ Grows(slotQ[e], slotQ'[e], InSlotQ(e), c, pc'[c] # "lock" /\ e = managed')
       /\ Grows(lockQ[e], lockQ'[e], InLockQ(e), c, pc'[c] = "lock" /\ e = managed')

LEMMA GrowsQueue ==
  ASSUME NEW q, NEW r, NEW S, NEW c \in Callers, NEW in \in BOOLEAN,
         IsQueueOf(q, S), Grows(q, r, S, c, in)
  PROVE  /\ IsQueueOf(r, IF in THEN S \cup {c} ELSE S)
         /\ in => IsLast(r, c)
<1>1. CASE in
  <2>1. r = Append(q, c) /\ c \notin S BY <1>1 DEF Grows
  <2>2. IsQueueOf(Append(q, c), S \cup {c}) /\ IsLast(Append(q, c), c) BY <2>1, QueueAppend
  <2>3. QED BY <1>1, <2>1, <2>2, Zenon
<1>2. CASE ~in
  <2>1. r = q BY <1>2 DEF Grows
  <2>2. QED BY <1>2, <2>1, Zenon
<1>3. QED BY <1>1, <1>2

LEMMA JoinPreserves ==
  ASSUME SshInv, NEW c \in Callers, Join(c), TypeRest'
  PROVE  SshInv'
<1>1. /\ Others(c) /\ Exchanges(c) /\ CallerOK(c)' /\ ~InEntry(pc[c]) /\ ~retiring
      /\ pc'[c] \in {"slot", "lock", "drain"} /\ (pc'[c] = "lock" => op'[c] = "test")
      /\ retiring' = (pc'[c] = "drain")
      /\ ent'[c] = managed' /\ managed' \in Entries
      /\ open' = open /\ locked' = locked /\ stray' = stray
  BY DEF Join
<1>2. \A d \in Callers : d # c =>
        /\ op'[d] = op[d] /\ ent'[d] = ent[d] /\ drained'[d] = drained[d]
        /\ pc'[d] = pc[d] \/ (pc[d] = "waitRetired" /\ pc'[d] = "retired")
  BY <1>1 DEF Others
<1>3. /\ built' = built \/ built' = built + 1
      /\ managed' = managed \/ (managed = NoEntry /\ managed' = built + 1)
  BY DEF Join
<1>4. \A d \in Callers : pc[d] \notin {"drain", "closeLock", "closing"}
  BY <1>1 DEF SshInv, OwnerInv, Owner
<1>5. \A d \in Callers : InEntry(pc[d]) => ent[d] \in Entries /\ ent[d] # NoEntry /\ d # c
  BY <1>1 DEF SshInv, CallersOK, CallerOK, TypeOK
<1>6. CallersOK' BY <1>1, <1>3, CallersStep
<1>7. PermitsAddUp' /\ free' \in [Entries -> 0 .. MaxPerServer]
  BY <1>1, PermitsStep DEF SshInv, TypeRest
<1>8. OwnerInv'
  <2>1. \A d \in Callers : Owner(d)' => d = c BY <1>2, <1>4 DEF Owner
  <2>2. ASSUME NEW d \in Callers, pc'[d] \in {"lock", "connecting", "running"}, op'[d] = "run"
        PROVE  ent'[d] = managed'
    <3>1. d # c /\ pc[d] = pc'[d] /\ op[d] = "run" /\ ent'[d] = ent[d]
      BY <1>1, <1>2, <2>2
    <3>2. ent[d] = managed /\ ent[d] # NoEntry
      BY <1>5, <2>2, <3>1 DEF SshInv, OwnerInv, InEntry
    <3>3. QED BY <1>3, <3>1, <3>2
  <2>3. /\ \A d \in Callers : Owner(d)' => retiring'
        /\ \A d \in Callers : pc'[d] = "drain" => ent'[d] = managed'
        /\ \A d \in Callers : pc'[d] \notin {"closeLock", "closing"}
    BY <1>1, <2>1 DEF Owner
  <2>4. QED BY <2>1, <2>2, <2>3 DEF OwnerInv
<1>9. \A e \in Entries :
        /\ InSlotQ(e)' = (IF pc'[c] # "lock" /\ e = managed' THEN InSlotQ(e) \cup {c} ELSE InSlotQ(e))
        /\ InLockQ(e)' = (IF pc'[c] = "lock" /\ e = managed' THEN InLockQ(e) \cup {c} ELSE InLockQ(e))
  BY <1>1, <1>2 DEF InSlotQ, InLockQ, InEntry
<1>10. \A e \in Entries :
        /\ IsQueueOf(slotQ'[e], IF pc'[c] # "lock" /\ e = managed' THEN InSlotQ(e) \cup {c} ELSE InSlotQ(e))
        /\ IsQueueOf(lockQ'[e], IF pc'[c] = "lock" /\ e = managed' THEN InLockQ(e) \cup {c} ELSE InLockQ(e))
        /\ pc'[c] # "lock" /\ e = managed' => IsLast(slotQ'[e], c)
  <2> TAKE e \in Entries
  <2>1. IsQueueOf(slotQ[e], InSlotQ(e)) /\ IsQueueOf(lockQ[e], InLockQ(e)) BY DEF SshInv, QueueInv
  <2>2. /\ Grows(slotQ[e], slotQ'[e], InSlotQ(e), c, pc'[c] # "lock" /\ e = managed')
        /\ Grows(lockQ[e], lockQ'[e], InLockQ(e), c, pc'[c] = "lock" /\ e = managed')
    BY DEF Join
  <2> DEFINE a == pc'[c] # "lock" /\ e = managed'
             b == pc'[c] = "lock" /\ e = managed'
  <2>3. a \in BOOLEAN /\ b \in BOOLEAN OBVIOUS
  <2> HIDE DEF a, b
  <2>4. /\ IsQueueOf(slotQ'[e], IF a THEN InSlotQ(e) \cup {c} ELSE InSlotQ(e))
        /\ a => IsLast(slotQ'[e], c)
    BY <2>1, <2>2, <2>3, GrowsQueue DEF a
  <2>5. IsQueueOf(lockQ'[e], IF b THEN InLockQ(e) \cup {c} ELSE InLockQ(e))
    BY <2>1, <2>2, <2>3, GrowsQueue DEF b
  <2>6. QED BY <2>4, <2>5 DEF a, b
<1>11. TypeOK' BY <1>7, <1>10, TypeFromRest DEF Join, IsQueueOf
<1>12. QueueInv'
  <2>1. \A e \in Entries : IsQueueOf(slotQ'[e], InSlotQ(e)') /\ IsQueueOf(lockQ'[e], InLockQ(e)')
    BY <1>9, <1>10
  <2>2. \A d \in Callers : pc'[d] \in {"drain", "closeLock"} => d = c /\ pc'[d] = "drain"
    BY <1>1, <1>2, <1>4
  <2>3. QED BY <1>1, <1>10, <2>1, <2>2 DEF QueueInv
<1>13. LockInv'
  <2>1. \A d \in Callers : pc'[d] = "connecting" => pc[d] = "connecting" /\ ent'[d] = ent[d]
    BY <1>1, <1>2
  <2>2. QED BY <1>1, <2>1 DEF SshInv, LockInv
<1>14. ClosedInv'
  <2> SUFFICES ASSUME NEW e \in Entries, e # managed'
               PROVE  /\ \A d \in Callers : ent'[d] = e => pc'[d] # "slot"
                      /\ e \notin stray' /\ ~BeingClosed(e)' =>
                           /\ ~open'[e]
                           /\ \A d \in Callers : ent'[d] = e => pc'[d] \notin {"lock", "connecting"}
    BY DEF ClosedInv
  <2>1. e # managed /\ ~BeingClosed(e) BY <1>3, <1>4 DEF BeingClosed, Entries, NoEntry
  <2>2. \A d \in Callers : ent[d] = e => pc[d] # "slot" BY <2>1 DEF SshInv, ClosedInv
  <2>3. e \notin stray => ~open[e] /\ \A d \in Callers : ent[d] = e => pc[d] \notin {"lock", "connecting"}
    BY <2>1 DEF SshInv, ClosedInv
  <2>4. QED BY <1>1, <1>2, <2>2, <2>3
<1>15. QED BY <1>6, <1>7, <1>8, <1>11, <1>12, <1>13, <1>14 DEF SshInv

-----------------------------------------------------------------------------
(* A caller goes on with its entry *)

Work(c) ==
  /\ Others(c) /\ Exchanges(c) /\ CallerOK(c)'
  /\ pc[c] \in {"slot", "lock", "connecting"} /\ pc'[c] \in {"lock", "connecting", "running"}
  /\ ent'[c] = ent[c] /\ op'[c] = op[c]
  /\ managed' = managed /\ built' = built /\ retiring' = retiring /\ stray' = stray
  /\ \A e \in Entries :
       /\ open'[e] => open[e] \/ (pc[c] = "connecting" /\ ent[c] = e)
       /\ locked[e] => locked'[e] \/ (pc[c] = "connecting" /\ ent[c] = e)
  /\ pc'[c] = "connecting" => pc[c] = "lock" /\ ~locked[ent[c]] /\ locked'[ent[c]]
  /\ slotQ' = [e \in Entries |-> slotQ'[e]] /\ lockQ' = [e \in Entries |-> lockQ'[e]]
  /\ \A e \in Entries :
       /\ Shrinks(slotQ[e], slotQ'[e], InSlotQ(e), c)
       /\ IF pc'[c] = "lock"
          THEN pc[c] = "slot" /\ Grows(lockQ[e], lockQ'[e], InLockQ(e), c, e = ent[c])
          ELSE Shrinks(lockQ[e], lockQ'[e], InLockQ(e), c)

LEMMA WorkPreserves ==
  ASSUME SshInv, NEW c \in Callers, Work(c), TypeRest'
  PROVE  SshInv'
<1>1. /\ Others(c) /\ Exchanges(c) /\ CallerOK(c)'
      /\ pc[c] \in {"slot", "lock", "connecting"} /\ pc'[c] \in {"lock", "connecting", "running"}
      /\ ent'[c] = ent[c] /\ op'[c] = op[c]
      /\ managed' = managed /\ built' = built /\ retiring' = retiring /\ stray' = stray
      /\ pc'[c] = "connecting" => pc[c] = "lock" /\ ~locked[ent[c]] /\ locked'[ent[c]]
      /\ pc'[c] = "lock" => pc[c] = "slot"
      /\ ent[c] \in Entries
  <2>1. ent[c] \in Entries BY DEF Work, SshInv, CallersOK, CallerOK, InEntry, TypeOK
  <2>2. QED BY <2>1 DEF Work
<1>2. \A d \in Callers : d # c =>
        /\ op'[d] = op[d] /\ ent'[d] = ent[d] /\ drained'[d] = drained[d]
        /\ pc'[d] = pc[d] \/ (pc[d] = "waitRetired" /\ pc'[d] = "retired")
  BY <1>1 DEF Others
<1>3. pc[c] = "slot" => ent[c] = managed BY <1>1 DEF SshInv, ClosedInv
<1>4. CallersOK' BY <1>1, CallersStep
<1>5. PermitsAddUp' /\ free' \in [Entries -> 0 .. MaxPerServer]
  BY <1>1, PermitsStep DEF SshInv, TypeRest
<1>6. OwnerInv' BY <1>1, <1>2, <1>3 DEF SshInv, OwnerInv, Owner
<1>7. \A e \in Entries :
        /\ InSlotQ(e)' = InSlotQ(e) \ {c}
        /\ pc'[c] # "lock" => InLockQ(e)' = InLockQ(e) \ {c}
        /\ pc'[c] = "lock" => InLockQ(e)' = (IF e = ent[c] THEN InLockQ(e) \cup {c} ELSE InLockQ(e))
  BY <1>1, <1>2 DEF InSlotQ, InLockQ
<1>8. ASSUME NEW e \in Entries
      PROVE  /\ IsQueueOf(slotQ'[e], InSlotQ(e)') /\ IsQueueOf(lockQ'[e], InLockQ(e)')
             /\ \A d \in Callers : d # c => /\ IsLast(slotQ[e], d) => IsLast(slotQ'[e], d)
                                            /\ IsLast(lockQ[e], d) /\ (pc'[c] # "lock" \/ e # ent[c]) =>
                                                 IsLast(lockQ'[e], d)
  <2>1. IsQueueOf(slotQ[e], InSlotQ(e)) /\ IsQueueOf(lockQ[e], InLockQ(e)) BY DEF SshInv, QueueInv
  <2>2. Shrinks(slotQ[e], slotQ'[e], InSlotQ(e), c) BY DEF Work
  <2>3. /\ IsQueueOf(slotQ'[e], InSlotQ(e)')
        /\ \A d \in Callers : d # c /\ IsLast(slotQ[e], d) => IsLast(slotQ'[e], d)
    <3>1. /\ IsQueueOf(slotQ'[e], InSlotQ(e) \ {c})
          /\ \A d \in Callers : d # c /\ IsLast(slotQ[e], d) => IsLast(slotQ'[e], d)
      BY <2>1, <2>2, ShrinksQueue
    <3>2. QED BY <1>7, <3>1
  <2>4. CASE pc'[c] # "lock"
    <3>1. Shrinks(lockQ[e], lockQ'[e], InLockQ(e), c) BY <2>4 DEF Work
    <3>2. /\ IsQueueOf(lockQ'[e], InLockQ(e)')
          /\ \A d \in Callers : d # c /\ IsLast(lockQ[e], d) => IsLast(lockQ'[e], d)
      BY <1>7, <2>1, <2>4, <3>1, ShrinksQueue
    <3>3. QED BY <2>3, <3>2
  <2>5. CASE pc'[c] = "lock"
    <3>1. Grows(lockQ[e], lockQ'[e], InLockQ(e), c, e = ent[c]) BY <2>5 DEF Work
    <3>2. CASE e = ent[c]
      <4>1. lockQ'[e] = Append(lockQ[e], c) /\ c \notin InLockQ(e) BY <3>1, <3>2 DEF Grows
      <4>2. IsQueueOf(lockQ'[e], InLockQ(e) \cup {c}) BY <2>1, <4>1, QueueAppend
      <4>3. QED BY <1>7, <2>3, <2>5, <3>2, <4>2
    <3>3. CASE e # ent[c]
      <4>1. lockQ'[e] = lockQ[e] BY <3>1, <3>3 DEF Grows
      <4>2. QED BY <1>7, <2>1, <2>3, <2>5, <3>3, <4>1
    <3>4. QED BY <3>2, <3>3
  <2>6. QED BY <2>4, <2>5
<1>9. TypeOK' BY <1>5, <1>8, TypeFromRest DEF Work, IsQueueOf
<1>10. QueueInv'
  <2>1. ASSUME NEW d \in Callers
        PROVE  /\ pc'[d] = "drain" => IsLast(slotQ'[ent'[d]], d)
               /\ pc'[d] = "closeLock" => IsLast(lockQ'[ent'[d]], d)
    <3>1. pc'[d] \in {"drain", "closeLock"} =>
            d # c /\ pc[d] = pc'[d] /\ ent'[d] = ent[d] /\ ent[d] \in Entries
      BY <1>1, <1>2 DEF SshInv, CallersOK, CallerOK, InEntry, TypeOK
    <3>2. pc[d] = "closeLock" /\ pc'[c] = "lock" => ent[d] # ent[c]
      BY <1>1, <1>3 DEF SshInv, OwnerInv, Entries, NoEntry
    <3>3. QED BY <1>8, <3>1, <3>2 DEF SshInv, QueueInv
  <2>2. QED BY <1>8, <2>1 DEF QueueInv
<1>11. LockInv'
  <2>1. ASSUME NEW d \in Callers, d # c, pc'[d] = "connecting"
        PROVE  /\ pc[d] = "connecting" /\ ent'[d] = ent[d] /\ locked'[ent'[d]]
               /\ pc'[c] = "connecting" => ent[d] # ent[c]
    <3>1. pc[d] = "connecting" /\ ent'[d] = ent[d] /\ ent[d] \in Entries
      BY <1>2, <2>1 DEF SshInv, CallersOK, CallerOK, InEntry, TypeOK
    <3>2. locked[ent[d]] /\ ~(pc[c] = "connecting" /\ ent[c] = ent[d])
      BY <2>1, <3>1 DEF SshInv, LockInv
    <3>3. locked'[ent[d]] BY <3>1, <3>2 DEF Work
    <3>4. pc'[c] = "connecting" => ent[d] # ent[c] BY <1>1, <3>2
    <3>5. QED BY <3>1, <3>3, <3>4
  <2>2. QED BY <1>1, <2>1 DEF SshInv, LockInv
<1>12. ClosedInv'
  <2> SUFFICES ASSUME NEW e \in Entries, e # managed
               PROVE  /\ \A d \in Callers : ent'[d] = e => pc'[d] # "slot"
                      /\ e \notin stray' /\ ~BeingClosed(e)' =>
                           /\ ~open'[e]
                           /\ \A d \in Callers : ent'[d] = e => pc'[d] \notin {"lock", "connecting"}
    BY <1>1 DEF ClosedInv
  <2>1. \A d \in Callers : ent'[d] = e => pc'[d] # "slot"
    BY <1>1, <1>2 DEF SshInv, ClosedInv
  <2>2. ~BeingClosed(e)' => ~BeingClosed(e) BY <1>1, <1>2 DEF BeingClosed
  <2>3. ASSUME e \notin stray', ~BeingClosed(e)'
        PROVE  ~open[e] /\ \A d \in Callers : ent[d] = e => pc[d] \notin {"lock", "connecting"}
    BY <1>1, <2>2, <2>3 DEF SshInv, ClosedInv
  <2>4. ASSUME e \notin stray', ~BeingClosed(e)' PROVE ent[c] # e
    BY <1>1, <1>3, <2>3, <2>4
  <2>5. ASSUME e \notin stray', ~BeingClosed(e)' PROVE ~open'[e]
    BY <2>3, <2>4, <2>5 DEF Work
  <2>6. QED BY <1>1, <1>2, <2>1, <2>3, <2>4, <2>5
<1>13. QED BY <1>4, <1>5, <1>6, <1>9, <1>10, <1>11, <1>12 DEF SshInv

-----------------------------------------------------------------------------
(* close_server *)

LEMMA ClosePreserves ==
  ASSUME SshInv, NEW c \in Callers, CloseConnection(c)
  PROVE  SshInv'
<1>1. /\ pc[c] = "closeLock" /\ Head(lockQ[ent[c]]) = c /\ ~locked[ent[c]]
      /\ lockQ' = [lockQ EXCEPT ![ent[c]] = Tail(@)]
      /\ open' = [open EXCEPT ![ent[c]] = FALSE]
      /\ pc' = [pc EXCEPT ![c] = "closing"]
      /\ record' = record /\ managed' = managed /\ retiring' = retiring /\ built' = built
      /\ ident' = ident /\ backoff' = backoff /\ free' = free /\ slotQ' = slotQ
      /\ locked' = locked /\ inGlobal' = inGlobal /\ calls' = calls /\ op' = op /\ rec' = rec
      /\ ent' = ent /\ drained' = drained /\ stray' = stray
  BY DEF CloseConnection, entries, locals
<1>2. /\ ent[c] \in Entries /\ CallerOK(c) /\ TypeOK /\ drained[c] \in Nat
      /\ managed = NoEntry
  BY <1>1, BoundAssumption
  DEF SshInv, CallersOK, CallerOK, InEntry, TypeOK, OwnerInv
<1>3. /\ pc'[c] = "closing" /\ \A d \in Callers : d # c => pc'[d] = pc[d]
  BY <1>1 DEF SshInv, TypeOK
<1>4. Others(c) BY <1>1, <1>3 DEF Others
<1>5. TypeRest'
  <2>1. open' \in [Entries -> BOOLEAN] BY <1>1, <1>2 DEF TypeOK
  <2>2. pc' \in [Callers -> PC] BY <1>1, <1>2 DEF TypeOK, PC
  <2>3. QED BY <1>1, <1>2, <2>1, <2>2 DEF TypeRest, TypeOK
<1>6. CallerOK(c)' BY <1>1, <1>2, <1>3 DEF CallerOK, InEntry, Owner
<1>7. CallersOK' BY <1>1, <1>4, <1>5, <1>6, CallersStep
<1>8. Exchanges(c)
  <2>1. \A e \in Entries : HeldAt(c, e)' = HeldAt(c, e)
    BY <1>1, <1>3 DEF HeldAt, Held, Owner
  <2>2. free' \in [Entries -> Nat] BY <1>1, <1>2, BoundAssumption DEF TypeOK
  <2>3. QED BY <1>1, <2>1, <2>2 DEF Exchanges
<1>9. PermitsAddUp' /\ free' \in [Entries -> 0 .. MaxPerServer]
  BY <1>4, <1>5, <1>8, PermitsStep DEF SshInv, TypeRest
<1>10. OwnerInv' BY <1>1, <1>3 DEF SshInv, OwnerInv, Owner
<1>11. \A e \in Entries : InSlotQ(e)' = InSlotQ(e) /\ InLockQ(e)' = InLockQ(e) \ {c}
  BY <1>1, <1>3 DEF InSlotQ, InLockQ
<1>12. c \in InLockQ(ent[c]) BY <1>1 DEF InLockQ
<1>13. /\ IsQueueOf(Tail(lockQ[ent[c]]), InLockQ(ent[c]) \ {c})
       /\ \A d \in Callers : d \in InLockQ(ent[c]) => d = c
  <2>1. IsQueueOf(lockQ[ent[c]], InLockQ(ent[c])) /\ IsLast(lockQ[ent[c]], c)
    BY <1>1, <1>2 DEF SshInv, QueueInv
  <2>2. QED BY <1>1, <1>12, <2>1, QueueTail
<1>14. \A e \in Entries : IsQueueOf(slotQ'[e], InSlotQ(e)') /\ IsQueueOf(lockQ'[e], InLockQ(e)')
  <2> TAKE e \in Entries
  <2>1. IsQueueOf(slotQ[e], InSlotQ(e)) /\ IsQueueOf(lockQ[e], InLockQ(e)) BY DEF SshInv, QueueInv
  <2>2. CASE e = ent[c]
    <3>1. lockQ'[e] = Tail(lockQ[e]) BY <1>1, <1>2, <2>2 DEF TypeOK
    <3>2. QED BY <1>1, <1>11, <1>13, <2>1, <2>2, <3>1
  <2>3. CASE e # ent[c]
    <3>1. lockQ'[e] = lockQ[e] BY <1>1, <1>2, <2>3 DEF TypeOK
    <3>2. c \notin InLockQ(e) BY <2>3 DEF InLockQ
    <3>3. InLockQ(e) \ {c} = InLockQ(e) BY <3>2
    <3>4. QED BY <1>1, <1>11, <2>1, <3>1, <3>3
  <2>4. QED BY <2>2, <2>3
<1>15. TypeOK'
  <2>1. slotQ' = [e \in Entries |-> slotQ'[e]] /\ lockQ' = [e \in Entries |-> lockQ'[e]]
    BY <1>1, <1>2 DEF TypeOK
  <2>2. QED BY <1>5, <1>9, <1>14, <2>1, TypeFromRest DEF IsQueueOf
<1>16. QueueInv'
  <2>1. \A d \in Callers : pc'[d] \in {"drain", "closeLock"} => FALSE
    BY <1>1, <1>3 DEF SshInv, OwnerInv, Owner
  <2>2. QED BY <1>14, <2>1 DEF QueueInv
<1>17. LockInv' BY <1>1, <1>3 DEF SshInv, LockInv
<1>18. ClosedInv'
  <2>1. \A d \in Callers : ent[d] = ent[c] => pc'[d] \notin {"lock", "connecting"}
    <3>1. \A d \in Callers : ent[d] = ent[c] /\ pc[d] = "lock" => d = c
      BY <1>13 DEF InLockQ
    <3>2. \A d \in Callers : ent[d] = ent[c] => pc[d] # "connecting"
      BY <1>1 DEF SshInv, LockInv
    <3>3. QED BY <1>3, <3>1, <3>2
  <2>2. \A e \in Entries : e # ent[c] => open'[e] = open[e] /\ (BeingClosed(e)' <=> BeingClosed(e))
    BY <1>1, <1>2, <1>3 DEF BeingClosed, TypeOK
  <2>3. ~open'[ent[c]] BY <1>1, <1>2 DEF TypeOK
  <2>4. \A e \in Entries : \A d \in Callers : ent[d] = e /\ e # ent[c] => pc'[d] = pc[d]
    BY <1>3
  <2>5. ASSUME NEW e \in Entries, e # managed
        PROVE  /\ \A d \in Callers : ent'[d] = e => pc'[d] # "slot"
               /\ e \notin stray' /\ ~BeingClosed(e)' =>
                    /\ ~open'[e]
                    /\ \A d \in Callers : ent'[d] = e => pc'[d] \notin {"lock", "connecting"}
    <3>1. CASE e = ent[c] BY <1>1, <1>3, <2>1, <2>3, <2>5, <3>1 DEF SshInv, ClosedInv
    <3>2. CASE e # ent[c] BY <1>1, <1>3, <2>2, <2>4, <2>5, <3>2 DEF SshInv, ClosedInv
    <3>3. QED BY <3>1, <3>2
  <2>6. QED BY <1>1, <2>5 DEF ClosedInv
<1>19. QED BY <1>7, <1>9, <1>10, <1>15, <1>16, <1>17, <1>18 DEF SshInv

LEMMA DrainPreserves ==
  ASSUME SshInv, NEW c \in Callers, NEW e \in Entries, e = ent[c], Drain(c)
  PROVE  SshInv'
<1> DEFINE More == /\ drained[c] + 1 < MaxPerServer
                   /\ slotQ' = [slotQ EXCEPT ![e] = Append(Tail(slotQ[e]), c)]
                   /\ managed' = managed /\ pc' = pc /\ lockQ' = lockQ
           Last == /\ ~(drained[c] + 1 < MaxPerServer)
                   /\ slotQ' = [slotQ EXCEPT ![e] = Tail(slotQ[e])]
                   /\ managed' = NoEntry
                   /\ pc' = [pc EXCEPT ![c] = "closeLock"]
                   /\ lockQ' = [lockQ EXCEPT ![e] = Append(lockQ[e], c)]
<1>1. /\ TypeOK /\ CallerOK(c) /\ pc[c] = "drain" /\ e = managed
  <2>1. pc[c] = "drain" BY DEF Drain
  <2>2. QED BY <2>1 DEF SshInv, CallersOK, OwnerInv
<1>2. /\ drained[c] \in Nat /\ drained[c] < MaxPerServer /\ MaxPerServer \in Nat /\ free[e] \in Nat
  BY <1>1, BoundAssumption DEF TypeOK, CallerOK
<1>3. /\ Head(slotQ[e]) = c /\ free[e] > 0
      /\ free' = [free EXCEPT ![e] = free[e] - 1]
      /\ drained' = [drained EXCEPT ![c] = drained[c] + 1]
      /\ More \/ Last
      /\ record' = record /\ retiring' = retiring /\ built' = built /\ ident' = ident
      /\ open' = open /\ backoff' = backoff /\ locked' = locked /\ inGlobal' = inGlobal
      /\ calls' = calls /\ op' = op /\ rec' = rec /\ ent' = ent /\ stray' = stray
  <2>1. drained'[c] = drained[c] + 1 BY <1>1 DEF Drain, TypeOK
  <2>2. QED BY <2>1 DEF Drain, links
<1> HIDE DEF More, Last
<1>4. /\ drained' \in [Callers -> 0 .. MaxPerServer] /\ drained'[c] = drained[c] + 1
      /\ \A d \in Callers : d # c => drained'[d] = drained[d]
      /\ free' \in [Entries -> Nat] /\ free'[e] = free[e] - 1
      /\ \A f \in Entries : f # e => free'[f] = free[f]
  <2>1. drained \in [Callers -> 0 .. MaxPerServer] /\ free \in [Entries -> Nat]
    BY <1>1, BoundAssumption DEF TypeOK
  <2>2. drained[c] + 1 \in 0 .. MaxPerServer /\ free[e] - 1 \in Nat BY <1>2, <1>3
  <2>3. QED BY <1>3, <2>1, <2>2
<1>5. /\ pc' \in [Callers -> PC] /\ \A d \in Callers : d # c => pc'[d] = pc[d]
      /\ More => pc'[c] = "drain"
      /\ Last => pc'[c] = "closeLock"
      /\ managed' \in {NoEntry, managed}
  BY <1>1, <1>3 DEF TypeOK, PC, More, Last
<1>6. Others(c) BY <1>3, <1>4, <1>5 DEF Others
<1>7. TypeRest' BY <1>1, <1>3, <1>4, <1>5 DEF TypeRest, TypeOK
<1>8. CallerOK(c)'
  <2>1. (More => drained'[c] < MaxPerServer) /\ (Last => drained'[c] = MaxPerServer)
    BY <1>2, <1>4 DEF More, Last
  <2>2. QED BY <1>1, <1>3, <1>5, <2>1 DEF CallerOK, InEntry, Owner
<1>9. CallersOK' BY <1>3, <1>6, <1>7, <1>8, CallersStep
<1>10. Exchanges(c)
  <2>1. HeldAt(c, e) = drained[c] /\ HeldAt(c, e)' = drained[c] + 1
    BY <1>1, <1>3, <1>4, <1>5 DEF HeldAt, Held, Owner
  <2>2. \A f \in Entries : f # e => HeldAt(c, f) = 0 /\ HeldAt(c, f)' = 0
    BY <1>3 DEF HeldAt
  <2>3. free'[e] + (drained[c] + 1) = free[e] + drained[c] BY <1>2, <1>4
  <2>4. QED BY <1>4, <2>1, <2>2, <2>3 DEF Exchanges
<1>11. PermitsAddUp' /\ free' \in [Entries -> 0 .. MaxPerServer]
  BY <1>6, <1>7, <1>10, PermitsStep DEF SshInv, TypeRest
<1>12. \A d \in Callers : Owner(d) => d = c BY <1>1 DEF SshInv, OwnerInv, Owner
<1>13. IsQueueOf(slotQ[e], InSlotQ(e)) /\ IsLast(slotQ[e], c) /\ c \in InSlotQ(e)
  BY <1>1 DEF SshInv, QueueInv, InSlotQ
<1>14. /\ IsQueueOf(Tail(slotQ[e]), InSlotQ(e) \ {c})
       /\ \A d \in Callers : d \in InSlotQ(e) => d = c
  BY <1>3, <1>13, QueueTail
<1>15. CASE More
  <2>1. /\ slotQ' = [slotQ EXCEPT ![e] = Append(Tail(slotQ[e]), c)]
        /\ managed' = managed /\ pc' = pc /\ lockQ' = lockQ
    BY <1>15 DEF More
  <2>2. OwnerInv' BY <1>3, <2>1 DEF SshInv, OwnerInv, Owner
  <2>3. \A f \in Entries : InSlotQ(f)' = InSlotQ(f) /\ InLockQ(f)' = InLockQ(f)
    BY <1>3, <2>1 DEF InSlotQ, InLockQ
  <2>4. /\ slotQ'[e] = Append(Tail(slotQ[e]), c)
        /\ \A f \in Entries : f # e => slotQ'[f] = slotQ[f]
    BY <1>1, <2>1 DEF TypeOK
  <2>5. IsQueueOf(slotQ'[e], InSlotQ(e)) /\ IsLast(slotQ'[e], c)
    <3>1. c \notin InSlotQ(e) \ {c} /\ (InSlotQ(e) \ {c}) \cup {c} = InSlotQ(e) BY <1>13
    <3>2. /\ IsQueueOf(Append(Tail(slotQ[e]), c), (InSlotQ(e) \ {c}) \cup {c})
          /\ IsLast(Append(Tail(slotQ[e]), c), c)
      BY <1>14, <3>1, QueueAppend
    <3>3. QED BY <2>4, <3>1, <3>2
  <2>6. \A f \in Entries : IsQueueOf(slotQ'[f], InSlotQ(f)') /\ IsQueueOf(lockQ'[f], InLockQ(f)')
    BY <2>1, <2>3, <2>4, <2>5 DEF SshInv, QueueInv
  <2>7. QueueInv'
    <3>1. \A d \in Callers : pc'[d] \in {"drain", "closeLock"} => d = c
      BY <1>12, <2>1 DEF Owner
    <3>2. QED BY <1>1, <1>3, <2>1, <2>5, <2>6, <3>1 DEF QueueInv
  <2>8. TypeOK'
    <3>1. slotQ' = [f \in Entries |-> slotQ'[f]] /\ lockQ' = [f \in Entries |-> lockQ'[f]]
      BY <1>1, <2>1 DEF TypeOK
    <3>2. QED BY <1>7, <1>11, <2>6, <3>1, TypeFromRest DEF IsQueueOf
  <2>9. LockInv' /\ ClosedInv'
    BY <1>3, <2>1 DEF SshInv, LockInv, ClosedInv, BeingClosed
  <2>10. QED BY <1>9, <1>11, <2>2, <2>7, <2>8, <2>9 DEF SshInv
<1>16. CASE Last
  <2>1. /\ slotQ' = [slotQ EXCEPT ![e] = Tail(slotQ[e])] /\ managed' = NoEntry
        /\ lockQ' = [lockQ EXCEPT ![e] = Append(lockQ[e], c)] /\ pc'[c] = "closeLock"
        /\ drained[c] + 1 >= MaxPerServer
    BY <1>2, <1>5, <1>16 DEF Last
  <2>2. ASSUME NEW d \in Callers, pc[d] \in {"lock", "connecting", "running"}, op[d] = "run"
        PROVE  FALSE
    <3>1. ent[d] = ent[c] /\ d # c BY <1>1, <2>2 DEF SshInv, OwnerInv
    <3>2. Held(d) = 1 BY <2>2 DEF Held, Owner
    <3>3. Held(d) = 0 BY <1>1, <1>3, <2>1, <3>1, AllDrained DEF SshInv
    <3>4. QED BY <3>2, <3>3
  <2>3. OwnerInv'
    BY <1>1, <1>3, <1>5, <1>12, <2>1, <2>2 DEF SshInv, OwnerInv, Owner
  <2>4. /\ slotQ'[e] = Tail(slotQ[e]) /\ lockQ'[e] = Append(lockQ[e], c)
        /\ \A f \in Entries : f # e => slotQ'[f] = slotQ[f] /\ lockQ'[f] = lockQ[f]
        /\ slotQ' = [f \in Entries |-> slotQ'[f]] /\ lockQ' = [f \in Entries |-> lockQ'[f]]
    BY <1>1, <2>1 DEF TypeOK
  <2>5. /\ InSlotQ(e)' = InSlotQ(e) \ {c} /\ InLockQ(e)' = InLockQ(e) \cup {c}
        /\ c \notin InLockQ(e)
        /\ \A f \in Entries : f # e => InSlotQ(f)' = InSlotQ(f) /\ InLockQ(f)' = InLockQ(f)
    BY <1>1, <1>3, <1>5, <2>1 DEF InSlotQ, InLockQ
  <2>6. IsQueueOf(lockQ'[e], InLockQ(e) \cup {c}) /\ IsLast(lockQ'[e], c)
    <3>1. IsQueueOf(lockQ[e], InLockQ(e)) BY <1>1 DEF SshInv, QueueInv
    <3>2. QED BY <2>4, <2>5, <3>1, QueueAppend
  <2>7. \A f \in Entries : IsQueueOf(slotQ'[f], InSlotQ(f)') /\ IsQueueOf(lockQ'[f], InLockQ(f)')
    BY <1>14, <2>4, <2>5, <2>6 DEF SshInv, QueueInv
  <2>8. QueueInv'
    <3>1. \A d \in Callers : pc'[d] \in {"drain", "closeLock"} => d = c /\ pc'[d] = "closeLock"
      BY <1>5, <1>12, <2>1 DEF Owner
    <3>2. QED BY <1>3, <2>6, <2>7, <3>1 DEF QueueInv
  <2>9. TypeOK' BY <1>7, <1>11, <2>4, <2>7, TypeFromRest DEF IsQueueOf
  <2>10. LockInv' BY <1>1, <1>3, <1>5, <2>1 DEF SshInv, LockInv
  <2>11. ClosedInv'
    <3>1. ASSUME NEW f \in Entries
          PROVE  /\ \A d \in Callers : ent'[d] = f => pc'[d] # "slot"
                 /\ f \notin stray' /\ ~BeingClosed(f)' =>
                      /\ ~open'[f]
                      /\ \A d \in Callers : ent'[d] = f => pc'[d] \notin {"lock", "connecting"}
      <4>1. CASE f = e
        <5>1. BeingClosed(f)' BY <1>3, <2>1, <4>1 DEF BeingClosed
        <5>2. \A d \in Callers : ent[d] = e /\ pc[d] = "slot" => d = c BY <1>14 DEF InSlotQ
        <5>3. QED BY <1>3, <1>5, <2>1, <4>1, <5>1, <5>2
      <4>2. CASE f # e
        <5>1. \A d \in Callers : ent[d] = f => pc'[d] = pc[d] BY <1>5, <4>2
        <5>2. BeingClosed(f)' <=> BeingClosed(f)
          BY <1>3, <1>5, <4>2 DEF BeingClosed
        <5>3. QED BY <1>1, <1>3, <4>2, <5>1, <5>2 DEF SshInv, ClosedInv
      <4>3. QED BY <4>1, <4>2
    <3>2. QED BY <3>1 DEF ClosedInv
  <2>12. QED BY <1>9, <1>11, <2>3, <2>8, <2>9, <2>10, <2>11 DEF SshInv
<1>17. QED BY <1>3, <1>15, <1>16

-----------------------------------------------------------------------------
(* The actions *)

(* The links and the connect lock, as far as c's step may change them. *)
LinksStep(c) ==
  /\ open' \in [Entries -> BOOLEAN] /\ backoff' \in [Entries -> BOOLEAN]
  /\ locked' \in [Entries -> BOOLEAN]
  /\ \A e \in Entries :
       /\ open'[e] => open[e] \/ (pc[c] = "connecting" /\ ent[c] = e)
       /\ locked[e] => locked'[e] \/ (pc[c] = "connecting" /\ ent[c] = e)

LEMMA SameLinks ==
  ASSUME TypeOK, NEW c, open' = open, backoff' = backoff, locked' = locked
  PROVE  LinksStep(c)
BY DEF LinksStep, TypeOK

LEMMA SameQueues ==
  ASSUME TypeOK, NEW c \in Callers, ~(pc[c] \in {"slot", "drain", "lock", "closeLock"}),
         slotQ' = slotQ, lockQ' = lockQ
  PROVE  QueuesShrink(c)
BY DEF QueuesShrink, Shrinks, InSlotQ, InLockQ, TypeOK

(* A caller that loses its entry has given back what it held of it. *)
LEMMA GivesBack ==
  ASSUME SshInv, NEW c \in Callers, NEW h \in Nat, h = Held(c), ent'[c] = NoEntry,
         free' = IF h = 0 THEN free ELSE [free EXCEPT ![ent[c]] = @ + h]
  PROVE  Exchanges(c)
<1>1. TypeOK /\ CallerOK(c) BY DEF SshInv, CallersOK
<1>2. \A e \in Entries : HeldAt(c, e)' = 0
  BY DEF HeldAt, Entries, NoEntry
<1>3. h # 0 => ent[c] \in Entries
  BY <1>1 DEF Held, Owner, CallerOK, InEntry, TypeOK
<1>4. free \in [Entries -> Nat] BY <1>1, BoundAssumption DEF TypeOK
<1>5. ASSUME NEW f \in Entries PROVE free'[f] = free[f] + HeldAt(c, f) /\ free'[f] \in Nat
  <2>1. CASE f = ent[c]
    <3>1. HeldAt(c, f) = h /\ free[f] \in Nat BY <1>4, <2>1 DEF HeldAt
    <3>2. free'[f] = free[f] + h BY <1>3, <1>4, <2>1, <3>1
    <3>3. QED BY <3>1, <3>2
  <2>2. CASE f # ent[c]
    <3>1. HeldAt(c, f) = 0 /\ free[f] \in Nat BY <1>4, <2>2 DEF HeldAt
    <3>2. free'[f] = free[f] BY <1>3, <1>4, <2>2
    <3>3. QED BY <3>1, <3>2
  <2>3. QED BY <2>1, <2>2
<1>6. free' \in [Entries -> Nat] BY <1>3, <1>4, <1>5
<1>7. QED BY <1>2, <1>5, <1>6 DEF Exchanges

(* A call returns or raises with all it holds given back. *)
LEMMA LeavePreserves ==
  ASSUME SshInv, NEW c \in Callers, NEW h \in Nat, Leave(c, h), h = Held(c), ~Owner(c),
         UNCHANGED <<record, entries, stray>>, calls' \in 0 .. MaxCalls,
         LinksStep(c), QueuesShrink(c)
  PROVE  SshInv'
<1>1. /\ record' = record /\ managed' = managed /\ retiring' = retiring /\ built' = built
      /\ ident' = ident /\ stray' = stray
  BY DEF entries
<1>2. /\ pc' = [pc EXCEPT ![c] = "idle"] /\ op' = [op EXCEPT ![c] = "none"]
      /\ rec' = [rec EXCEPT ![c] = NoIdentity] /\ ent' = [ent EXCEPT ![c] = NoEntry]
      /\ inGlobal' = inGlobal \ {c} /\ drained' = drained
      /\ free' = IF h = 0 THEN free ELSE [free EXCEPT ![ent[c]] = @ + h]
  BY DEF Leave
<1>3. TypeOK /\ CallerOK(c) BY DEF SshInv, CallersOK
<1>4. /\ pc'[c] = "idle" /\ op'[c] = "none" /\ ent'[c] = NoEntry
      /\ \A d \in Callers : d # c => pc'[d] = pc[d] /\ op'[d] = op[d] /\ ent'[d] = ent[d]
      /\ pc' \in [Callers -> PC] /\ op' \in [Callers -> Ops \cup {"none"}]
      /\ rec' \in [Callers -> Identities \cup {NoIdentity}]
      /\ ent' \in [Callers -> Entries \cup {NoEntry}]
  BY <1>2, <1>3 DEF TypeOK, PC
<1>5. TypeRest' BY <1>1, <1>2, <1>3, <1>4 DEF TypeRest, TypeOK, LinksStep
<1>6. Others(c) BY <1>2, <1>4 DEF Others
<1>7. drained[c] = 0 /\ drained'[c] = 0 BY <1>2, <1>3 DEF CallerOK
<1>8. CallerOK(c)'
  BY <1>1, <1>3, <1>4, <1>7, BoundAssumption DEF CallerOK, InEntry, TypeOK, NoEntry
<1>9. Exchanges(c) BY <1>2, <1>4, GivesBack
<1>10. ~InEntry(pc'[c]) /\ pc[c] # "closeLock" BY <1>4 DEF InEntry, Owner
<1>11. Out(c) BY <1>1, <1>6, <1>8, <1>9, <1>10 DEF Out, LinksStep
<1>12. QED BY <1>5, <1>11, OutPreserves

(* A step of c that leaves the permits alone. *)
LEMMA NoExchange ==
  ASSUME TypeOK, NEW c \in Callers, free' = free,
         \A e \in Entries : HeldAt(c, e)' = HeldAt(c, e)
  PROVE  Exchanges(c)
<1>1. free \in [Entries -> Nat] BY BoundAssumption DEF TypeOK
<1>2. QED BY <1>1 DEF Exchanges

LEMMA RunPreserves ==
  ASSUME SshInv, NEW c \in Callers, NEW o \in {"run", "acquire"}, run(c, o)
  PROVE  SshInv'
<1>1. /\ pc[c] = "idle" /\ calls < MaxCalls /\ calls' = calls + 1
      /\ op' = [op EXCEPT ![c] = o] /\ rec' = [rec EXCEPT ![c] = record] /\ inGlobal' = inGlobal
      /\ pc' = [pc EXCEPT ![c] = "global"]
      /\ record' = record /\ managed' = managed /\ retiring' = retiring /\ built' = built
      /\ ident' = ident /\ open' = open /\ backoff' = backoff /\ free' = free /\ slotQ' = slotQ
      /\ locked' = locked /\ lockQ' = lockQ /\ ent' = ent /\ drained' = drained /\ stray' = stray
  BY DEF run, Call, GoOn, entries, links, queues
<1>2. TypeOK /\ CallerOK(c) BY DEF SshInv, CallersOK
<1>3. /\ pc'[c] = "global" /\ op'[c] = o
      /\ \A d \in Callers : d # c => pc'[d] = pc[d] /\ op'[d] = op[d]
      /\ pc' \in [Callers -> PC] /\ op' \in [Callers -> Ops \cup {"none"}]
      /\ rec' \in [Callers -> Identities \cup {NoIdentity}]
  BY <1>1, <1>2 DEF TypeOK, PC, Ops
<1>4. calls' \in 0 .. MaxCalls BY <1>1, <1>2, BoundAssumption DEF TypeOK
<1>5. TypeRest' BY <1>1, <1>2, <1>3, <1>4 DEF TypeRest, TypeOK
<1>6. Others(c) BY <1>1, <1>3 DEF Others
<1>7. CallerOK(c)' BY <1>1, <1>2, <1>3 DEF CallerOK, InEntry, Owner, Ops
<1>8. \A e \in Entries : HeldAt(c, e)' = HeldAt(c, e)
  BY <1>1, <1>3 DEF HeldAt, Held, Owner
<1>9. Exchanges(c) BY <1>1, <1>2, <1>8, NoExchange
<1>10. LinksStep(c) /\ QueuesShrink(c) BY <1>1, <1>2, SameLinks, SameQueues
<1>11. Out(c) BY <1>1, <1>3, <1>6, <1>7, <1>9, <1>10 DEF Out, LinksStep, InEntry
<1>12. QED BY <1>5, <1>11, OutPreserves

(* What _get_entry and close_server leave alone. *)
Aside == UNCHANGED <<record, links, locked, stray>> /\ calls' \in 0 .. MaxCalls

LEMMA TakeEntryPreserves ==
  ASSUME SshInv, NEW c \in Callers, NEW o \in {"run", "acquire", "test"},
         NEW r \in Identities \cup {NoIdentity}, NEW g \in SUBSET Callers,
         ~InEntry(pc[c]), TakeEntry(c, o, r, g), Aside
  PROVE  SshInv'
<1>1. /\ record' = record /\ open' = open /\ backoff' = backoff /\ locked' = locked
      /\ stray' = stray /\ calls' \in 0 .. MaxCalls
  BY DEF Aside, links
<1>2. TypeOK /\ CallerOK(c) /\ ~Owner(c) /\ Held(c) = 0 /\ drained[c] = 0 /\ ent[c] = NoEntry
  BY DEF SshInv, CallersOK, CallerOK, InEntry, Owner, Held
<1>3. ~(pc[c] \in {"slot", "drain", "lock", "closeLock"}) BY DEF InEntry
<1>4. CASE Leave(c, 0) /\ UNCHANGED <<entries, slotQ, lockQ>>
  <2>1. LinksStep(c) /\ QueuesShrink(c) BY <1>1, <1>2, <1>3, <1>4, SameLinks, SameQueues
  <2>2. UNCHANGED <<record, entries, stray>> BY <1>1, <1>4
  <2>3. QED BY <1>1, <1>2, <1>4, <2>1, <2>2, LeavePreserves
<1>5. CASE /\ ~retiring /\ GoOn(c, o, r, g) /\ BuildEntry(r)
           /\ ent' = [ent EXCEPT ![c] = managed']
           /\ IF o = "test"
              THEN /\ pc' = [pc EXCEPT ![c] = "lock"]
                   /\ lockQ' = [lockQ EXCEPT ![managed'] = Append(@, c)]
                   /\ UNCHANGED slotQ
              ELSE /\ pc' = [pc EXCEPT ![c] = "slot"]
                   /\ slotQ' = [slotQ EXCEPT ![managed'] = Append(@, c)]
                   /\ UNCHANGED lockQ
           /\ UNCHANGED <<free, drained>>
  <2>1. /\ op' = [op EXCEPT ![c] = o] /\ rec' = [rec EXCEPT ![c] = r] /\ inGlobal' = g
        /\ free' = free /\ drained' = drained /\ ~retiring
    BY <1>5 DEF GoOn
  <2>2. /\ retiring' = retiring
        /\ \/ managed # NoEntry /\ managed' = managed /\ built' = built /\ ident' = ident
           \/ /\ managed = NoEntry /\ built < MaxEntries /\ built' = built + 1
              /\ managed' = built + 1 /\ ident' = [ident EXCEPT ![built + 1] = r]
    BY <1>5 DEF BuildEntry, entries
  <2>3. /\ managed' \in Entries /\ built' \in 0 .. MaxEntries /\ managed' = built'
        /\ ident' \in [Entries -> Identities \cup {NoIdentity}]
    <3>1. /\ built \in Nat /\ built <= MaxEntries /\ MaxEntries \in Nat
          /\ managed = NoEntry \/ managed = built
          /\ ident \in [Entries -> Identities \cup {NoIdentity}]
      BY <1>2, BoundAssumption DEF TypeOK
    <3>2. CASE managed # NoEntry /\ managed' = managed /\ built' = built /\ ident' = ident
      BY <3>1, <3>2 DEF Entries, NoEntry
    <3>3. CASE /\ built < MaxEntries /\ built' = built + 1
               /\ managed' = built + 1 /\ ident' = [ident EXCEPT ![built + 1] = r]
      <4>1. built + 1 \in Entries /\ built + 1 \in 0 .. MaxEntries
        BY <3>1, <3>3 DEF Entries
      <4>2. QED BY <3>1, <3>3, <4>1
    <3>4. QED BY <2>2, <3>2, <3>3
  <2>4. /\ pc'[c] = (IF o = "test" THEN "lock" ELSE "slot") /\ op'[c] = o /\ ent'[c] = managed'
        /\ \A d \in Callers : d # c => pc'[d] = pc[d] /\ op'[d] = op[d] /\ ent'[d] = ent[d]
        /\ pc' \in [Callers -> PC] /\ op' \in [Callers -> Ops \cup {"none"}]
        /\ rec' \in [Callers -> Identities \cup {NoIdentity}]
        /\ ent' \in [Callers -> Entries \cup {NoEntry}]
    BY <1>2, <1>5, <2>1, <2>3 DEF TypeOK, PC, Ops
  <2>5. TypeRest' BY <1>1, <1>2, <2>1, <2>2, <2>3, <2>4 DEF TypeRest, TypeOK
  <2>6. Others(c) BY <2>1, <2>4 DEF Others
  <2>7. CallerOK(c)'
    <3>1. ent'[c] \in 0 .. built' /\ ent'[c] # NoEntry
      BY <2>3, <2>4, BoundAssumption DEF Entries, NoEntry
    <3>2. drained'[c] = 0 BY <1>2, <2>1
    <3>3. QED BY <2>4, <3>1, <3>2 DEF CallerOK, InEntry, Owner, Ops
  <2>8. \A e \in Entries : HeldAt(c, e)' = HeldAt(c, e)
    BY <1>2, <2>1, <2>4 DEF HeldAt, Held, Owner
  <2>9. Exchanges(c) BY <1>2, <2>1, <2>8, NoExchange
  <2>10. /\ slotQ' = [e \in Entries |-> slotQ'[e]] /\ lockQ' = [e \in Entries |-> lockQ'[e]]
         /\ \A e \in Entries :
              /\ Grows(slotQ[e], slotQ'[e], InSlotQ(e), c, pc'[c] # "lock" /\ e = managed')
              /\ Grows(lockQ[e], lockQ'[e], InLockQ(e), c, pc'[c] = "lock" /\ e = managed')
    <3>1. \A e \in Entries : c \notin InSlotQ(e) /\ c \notin InLockQ(e)
      BY <1>3 DEF InSlotQ, InLockQ
    <3>2. CASE o = "test"
      BY <1>2, <1>5, <2>3, <2>4, <3>1, <3>2 DEF Grows, TypeOK
    <3>3. CASE o # "test"
      BY <1>2, <1>5, <2>3, <2>4, <3>1, <3>3 DEF Grows, TypeOK
    <3>4. QED BY <3>2, <3>3
  <2>11. Join(c)
    <3>1. retiring' = (pc'[c] = "drain")
      <4>1. ~retiring' /\ retiring' \in BOOLEAN BY <2>1, <2>2, <1>2 DEF TypeOK
      <4>2. pc'[c] # "drain" BY <2>4
      <4>3. QED BY <4>1, <4>2
    <3>2. pc'[c] \in {"slot", "lock", "drain"} /\ (pc'[c] = "lock" => op'[c] = "test") BY <2>4
    <3>3. \/ managed' = managed /\ built' = built
          \/ managed = NoEntry /\ built' = built + 1 /\ managed' = built'
      BY <2>2
    <3>4. QED BY <1>1, <2>1, <2>3, <2>4, <2>6, <2>7, <2>9, <2>10, <3>1, <3>2, <3>3 DEF Join
  <2>12. QED BY <2>5, <2>11, JoinPreserves
<1>6. QED BY <1>4, <1>5 DEF TakeEntry

LEMMA BeginClosePreserves ==
  ASSUME SshInv, NEW c \in Callers, NEW o \in Ops,
         NEW r \in Identities \cup {NoIdentity}, NEW g \in SUBSET Callers,
         ~InEntry(pc[c]), GoOn(c, o, r, g), BeginClose(c), Aside
  PROVE  SshInv'
<1>1. /\ record' = record /\ open' = open /\ backoff' = backoff /\ locked' = locked
      /\ stray' = stray /\ calls' \in 0 .. MaxCalls
  BY DEF Aside, links
<1>2. TypeOK /\ CallerOK(c) /\ ~Owner(c) /\ Held(c) = 0 /\ drained[c] = 0 /\ ent[c] = NoEntry
  BY DEF SshInv, CallersOK, CallerOK, InEntry, Owner, Held
<1>3. ~(pc[c] \in {"slot", "drain", "lock", "closeLock"}) BY DEF InEntry
<1>4. /\ op' = [op EXCEPT ![c] = o] /\ rec' = [rec EXCEPT ![c] = r] /\ inGlobal' = g
      /\ managed' = managed /\ built' = built /\ ident' = ident /\ free' = free
      /\ lockQ' = lockQ /\ drained' = drained
  BY DEF GoOn, BeginClose
<1>5. /\ op'[c] = o /\ \A d \in Callers : d # c => op'[d] = op[d]
      /\ op' \in [Callers -> Ops \cup {"none"}]
      /\ rec' \in [Callers -> Identities \cup {NoIdentity}]
  BY <1>2, <1>4 DEF TypeOK
<1>6. CASE /\ pc' = [pc EXCEPT ![c] = "waitRetired"]
           /\ UNCHANGED <<retiring, slotQ, ent>>
  <2>1. retiring' = retiring /\ slotQ' = slotQ /\ ent' = ent BY <1>6
  <2>2. /\ pc'[c] = "waitRetired" /\ \A d \in Callers : d # c => pc'[d] = pc[d]
        /\ pc' \in [Callers -> PC]
    BY <1>2, <1>6 DEF TypeOK, PC
  <2>3. TypeRest' BY <1>1, <1>2, <1>4, <1>5, <2>1, <2>2 DEF TypeRest, TypeOK
  <2>4. Others(c) BY <1>4, <1>5, <2>1, <2>2 DEF Others
  <2>5. CallerOK(c)' BY <1>2, <1>4, <1>5, <2>1, <2>2 DEF CallerOK, InEntry, Owner
  <2>6. \A e \in Entries : HeldAt(c, e)' = HeldAt(c, e)
    BY <1>2, <2>1, <2>2 DEF HeldAt, Held, Owner
  <2>7. Exchanges(c) BY <1>2, <1>4, <2>6, NoExchange
  <2>8. LinksStep(c) /\ QueuesShrink(c) BY <1>1, <1>2, <1>3, <1>4, <2>1, SameLinks, SameQueues
  <2>9. Out(c) BY <1>1, <1>3, <1>4, <2>1, <2>2, <2>4, <2>5, <2>7, <2>8 DEF Out, LinksStep, InEntry
  <2>10. QED BY <2>3, <2>9, OutPreserves
<1>7. CASE /\ ~retiring /\ managed # NoEntry /\ retiring' = TRUE
           /\ ent' = [ent EXCEPT ![c] = managed]
           /\ slotQ' = [slotQ EXCEPT ![managed] = Append(@, c)]
           /\ pc' = [pc EXCEPT ![c] = "drain"]
  <2>1. managed \in Entries /\ managed \in 0 .. built /\ managed = built
    BY <1>2, <1>7, BoundAssumption DEF TypeOK, Entries, NoEntry
  <2>2. /\ pc'[c] = "drain" /\ ent'[c] = managed
        /\ \A d \in Callers : d # c => pc'[d] = pc[d] /\ ent'[d] = ent[d]
        /\ pc' \in [Callers -> PC] /\ ent' \in [Callers -> Entries \cup {NoEntry}]
    BY <1>2, <1>7, <2>1 DEF TypeOK, PC
  <2>3. TypeRest' BY <1>1, <1>2, <1>4, <1>5, <1>7, <2>2 DEF TypeRest, TypeOK
  <2>4. Others(c) BY <1>4, <1>5, <2>2 DEF Others
  <2>5. CallerOK(c)'
    <3>1. drained'[c] = 0 /\ 0 < MaxPerServer BY <1>2, <1>4, BoundAssumption
    <3>2. QED BY <1>4, <1>5, <1>7, <2>1, <2>2, <3>1 DEF CallerOK, InEntry, Owner
  <2>6. \A e \in Entries : HeldAt(c, e)' = HeldAt(c, e)
    BY <1>2, <1>4, <2>2 DEF HeldAt, Held, Owner
  <2>7. Exchanges(c) BY <1>2, <1>4, <2>6, NoExchange
  <2>8. /\ slotQ' = [e \in Entries |-> slotQ'[e]] /\ lockQ' = [e \in Entries |-> lockQ'[e]]
        /\ \A e \in Entries :
             /\ Grows(slotQ[e], slotQ'[e], InSlotQ(e), c, pc'[c] # "lock" /\ e = managed')
             /\ Grows(lockQ[e], lockQ'[e], InLockQ(e), c, pc'[c] = "lock" /\ e = managed')
    <3>1. \A e \in Entries : c \notin InSlotQ(e) /\ c \notin InLockQ(e)
      BY <1>3 DEF InSlotQ, InLockQ
    <3>2. QED BY <1>2, <1>4, <1>7, <2>1, <2>2, <3>1 DEF Grows, TypeOK
  <2>9. Join(c)
    <3>1. retiring' = (pc'[c] = "drain") BY <1>7, <2>2
    <3>2. QED BY <1>1, <1>4, <1>7, <2>1, <2>2, <2>4, <2>5, <2>7, <2>8, <3>1 DEF Join
  <2>10. QED BY <2>3, <2>9, JoinPreserves
<1>8. QED BY <1>6, <1>7 DEF BeginClose

LEMMA GetEntryPreserves ==
  ASSUME SshInv, NEW c \in Callers, NEW o \in {"run", "acquire", "test"},
         NEW r \in Identities \cup {NoIdentity}, NEW g \in SUBSET Callers,
         ~InEntry(pc[c]), GetEntry(c, o, r, g), Aside
  PROVE  SshInv'
<1>1. CASE GoOn(c, o, r, g) /\ BeginClose(c)
  <2>1. o \in Ops BY DEF Ops
  <2>2. QED BY <1>1, <2>1, BeginClosePreserves
<1>2. CASE TakeEntry(c, o, r, g) BY <1>2, TakeEntryPreserves
<1>3. QED BY <1>1, <1>2 DEF GetEntry

(* A call that is made counts. *)
LEMMA CallAside ==
  ASSUME SshInv, NEW c \in Callers, Call(c), UNCHANGED <<record, links, locked, stray>>
  PROVE  Aside /\ ~InEntry(pc[c])
BY BoundAssumption DEF Aside, Call, SshInv, TypeOK, InEntry

LEMMA EnterGlobalPreserves ==
  ASSUME SshInv, NEW c \in Callers, EnterGlobal(c)
  PROVE  SshInv'
<1>1. /\ pc[c] = "global" /\ GetEntry(c, op[c], rec[c], inGlobal \cup {c})
      /\ UNCHANGED <<record, links, locked, calls, stray>>
  BY DEF EnterGlobal
<1>2. /\ op[c] \in {"run", "acquire"} /\ rec[c] \in Identities \cup {NoIdentity}
      /\ inGlobal \cup {c} \in SUBSET Callers /\ calls \in 0 .. MaxCalls
  BY <1>1 DEF SshInv, CallersOK, CallerOK, TypeOK
<1>3. Aside /\ ~InEntry(pc[c]) BY <1>1, <1>2 DEF Aside, InEntry
<1>4. op[c] \in {"run", "acquire", "test"} BY <1>2
<1>5. QED BY <1>1, <1>2, <1>3, <1>4, GetEntryPreserves

LEMMA TestPreserves ==
  ASSUME SshInv, NEW c \in Callers, test_connection(c)
  PROVE  SshInv'
<1>1. /\ Call(c) /\ GetEntry(c, "test", record, inGlobal)
      /\ UNCHANGED <<record, links, locked, stray>>
  BY DEF test_connection
<1>2. record \in Identities \cup {NoIdentity} /\ inGlobal \in SUBSET Callers
  BY DEF SshInv, TypeOK
<1>3. Aside /\ ~InEntry(pc[c]) BY <1>1, CallAside
<1>4. "test" \in {"run", "acquire", "test"} OBVIOUS
<1>5. QED BY <1>1, <1>2, <1>3, <1>4, GetEntryPreserves

LEMMA CloseServerPreserves ==
  ASSUME SshInv, NEW c \in Callers, close_server(c)
  PROVE  SshInv'
<1>1. /\ Call(c) /\ GoOn(c, "close", record, inGlobal) /\ BeginClose(c)
      /\ UNCHANGED <<record, links, locked, stray>>
  BY DEF close_server
<1>2. /\ record \in Identities \cup {NoIdentity} /\ inGlobal \in SUBSET Callers /\ "close" \in Ops
  BY DEF SshInv, TypeOK, Ops
<1>3. Aside /\ ~InEntry(pc[c]) BY <1>1, CallAside
<1>4. QED BY <1>1, <1>2, <1>3, BeginClosePreserves

LEMMA AfterClosePreserves ==
  ASSUME SshInv, NEW c \in Callers, AfterClose(c)
  PROVE  SshInv'
<1>1. /\ pc[c] = "retired" /\ UNCHANGED <<record, links, locked, calls, stray>>
      /\ \/ Leave(c, 0) /\ UNCHANGED <<entries, slotQ, lockQ>>
         \/ op[c] # "close" /\ TakeEntry(c, op[c], rec[c], inGlobal)
  BY DEF AfterClose
<1>2. /\ TypeOK /\ op[c] \in Ops /\ rec[c] \in Identities \cup {NoIdentity}
      /\ inGlobal \in SUBSET Callers /\ calls \in 0 .. MaxCalls
  BY <1>1 DEF SshInv, CallersOK, CallerOK, TypeOK
<1>3. Aside /\ ~InEntry(pc[c]) BY <1>1, <1>2 DEF Aside, InEntry
<1>4. CASE Leave(c, 0) /\ UNCHANGED <<entries, slotQ, lockQ>>
  <2>1. 0 = Held(c) /\ ~Owner(c) BY <1>1 DEF Held, Owner
  <2>2. open' = open /\ backoff' = backoff /\ locked' = locked /\ calls' = calls
    BY <1>1 DEF links
  <2>3. LinksStep(c) /\ QueuesShrink(c)
    BY <1>1, <1>2, <1>4, <2>2, SameLinks, SameQueues
  <2>4. UNCHANGED <<record, entries, stray>> BY <1>1, <1>4
  <2>5. QED BY <1>2, <1>4, <2>1, <2>2, <2>3, <2>4, LeavePreserves
<1>5. CASE op[c] # "close" /\ TakeEntry(c, op[c], rec[c], inGlobal)
  <2>1. op[c] \in {"run", "acquire", "test"} BY <1>2, <1>5 DEF Ops
  <2>2. QED BY <1>2, <1>3, <1>5, <2>1, TakeEntryPreserves
<1>6. QED BY <1>1, <1>4, <1>5

-----------------------------------------------------------------------------
(* The command path *)

(* c is the first in the queue of its entry and its turn comes. *)
LEMMA SlotTurn ==
  ASSUME TypeOK, NEW c \in Callers, NEW e \in Entries, e = ent[c],
         pc[c] \in {"slot", "drain"}, Head(slotQ[e]) = c,
         slotQ' = [slotQ EXCEPT ![e] = Tail(@)]
  PROVE  /\ slotQ' = [f \in Entries |-> slotQ'[f]]
         /\ \A f \in Entries : Shrinks(slotQ[f], slotQ'[f], InSlotQ(f), c)
<1>1. slotQ' = [f \in Entries |-> slotQ'[f]] BY DEF TypeOK
<1>2. ASSUME NEW f \in Entries PROVE Shrinks(slotQ[f], slotQ'[f], InSlotQ(f), c)
  <2>1. CASE f = e
    <3>1. slotQ'[f] = Tail(slotQ[f]) /\ c \in InSlotQ(f) BY <2>1 DEF TypeOK, InSlotQ
    <3>2. QED BY <2>1, <3>1 DEF Shrinks
  <2>2. CASE f # e
    <3>1. slotQ'[f] = slotQ[f] /\ c \notin InSlotQ(f) BY <2>2 DEF TypeOK, InSlotQ
    <3>2. QED BY <3>1 DEF Shrinks
  <2>3. QED BY <2>1, <2>2
<1>3. QED BY <1>1, <1>2

LEMMA LockTurn ==
  ASSUME TypeOK, NEW c \in Callers, NEW e \in Entries, e = ent[c],
         pc[c] \in {"lock", "closeLock"}, Head(lockQ[e]) = c,
         lockQ' = [lockQ EXCEPT ![e] = Tail(@)]
  PROVE  /\ lockQ' = [f \in Entries |-> lockQ'[f]]
         /\ \A f \in Entries : Shrinks(lockQ[f], lockQ'[f], InLockQ(f), c)
<1>1. lockQ' = [f \in Entries |-> lockQ'[f]] BY DEF TypeOK
<1>2. ASSUME NEW f \in Entries PROVE Shrinks(lockQ[f], lockQ'[f], InLockQ(f), c)
  <2>1. CASE f = e
    <3>1. lockQ'[f] = Tail(lockQ[f]) /\ c \in InLockQ(f) BY <2>1 DEF TypeOK, InLockQ
    <3>2. QED BY <2>1, <3>1 DEF Shrinks
  <2>2. CASE f # e
    <3>1. lockQ'[f] = lockQ[f] /\ c \notin InLockQ(f) BY <2>2 DEF TypeOK, InLockQ
    <3>2. QED BY <3>1 DEF Shrinks
  <2>3. QED BY <2>1, <2>2
<1>3. QED BY <1>1, <1>2

LEMMA SlotQSame ==
  ASSUME TypeOK, NEW c \in Callers, pc[c] \notin {"slot", "drain"}, slotQ' = slotQ
  PROVE  /\ slotQ' = [f \in Entries |-> slotQ'[f]]
         /\ \A f \in Entries : Shrinks(slotQ[f], slotQ'[f], InSlotQ(f), c)
BY DEF Shrinks, InSlotQ, TypeOK

LEMMA LockQSame ==
  ASSUME TypeOK, NEW c \in Callers, pc[c] \notin {"lock", "closeLock"}, lockQ' = lockQ
  PROVE  /\ lockQ' = [f \in Entries |-> lockQ'[f]]
         /\ \A f \in Entries : Shrinks(lockQ[f], lockQ'[f], InLockQ(f), c)
BY DEF Shrinks, InLockQ, TypeOK

LEMMA EnterSlotPreserves ==
  ASSUME SshInv, NEW c \in Callers, NEW e \in Entries, e = ent[c], EnterSlot(c)
  PROVE  SshInv'
<1> DEFINE Served == /\ ~(op[c] = "acquire" /\ open[e])
                     /\ free' = [free EXCEPT ![e] = free[e] - 1]
                     /\ pc' = [pc EXCEPT ![c] = IF open[e] THEN "running" ELSE "lock"]
                     /\ lockQ' = IF open[e] THEN lockQ ELSE [lockQ EXCEPT ![e] = Append(@, c)]
                     /\ UNCHANGED <<locals, inGlobal>>
<1>1. /\ pc[c] = "slot" /\ Head(slotQ[e]) = c /\ free[e] > 0
      /\ slotQ' = [slotQ EXCEPT ![e] = Tail(@)]
      /\ (Leave(c, 0) /\ UNCHANGED lockQ) \/ Served
      /\ UNCHANGED <<record, entries, links, locked, calls, stray>>
  BY DEF EnterSlot
<1> HIDE DEF Served
<1>2. /\ TypeOK /\ CallerOK(c) /\ op[c] \in {"run", "acquire"} /\ ~Owner(c) /\ Held(c) = 0
      /\ drained[c] = 0
  BY <1>1 DEF SshInv, CallersOK, CallerOK, Owner, Held
<1>3. /\ record' = record /\ managed' = managed /\ retiring' = retiring /\ built' = built
      /\ ident' = ident /\ open' = open /\ backoff' = backoff /\ locked' = locked
      /\ calls' = calls /\ stray' = stray
  BY <1>1 DEF entries, links
<1>4. /\ slotQ' = [f \in Entries |-> slotQ'[f]]
      /\ \A f \in Entries : Shrinks(slotQ[f], slotQ'[f], InSlotQ(f), c)
  BY <1>1, <1>2, SlotTurn
<1>5. CASE Leave(c, 0) /\ UNCHANGED lockQ
  <2>1. QueuesShrink(c) BY <1>1, <1>2, <1>4, <1>5, LockQSame DEF QueuesShrink
  <2>2. LinksStep(c) BY <1>2, <1>3, SameLinks
  <2>3. UNCHANGED <<record, entries, stray>> /\ calls' \in 0 .. MaxCalls
    BY <1>1, <1>2, <1>3 DEF TypeOK
  <2>4. QED BY <1>2, <1>5, <2>1, <2>2, <2>3, LeavePreserves
<1>6. CASE Served
  <2>1. /\ ~(op[c] = "acquire" /\ open[e]) /\ free' = [free EXCEPT ![e] = free[e] - 1]
        /\ pc' = [pc EXCEPT ![c] = IF open[e] THEN "running" ELSE "lock"]
        /\ lockQ' = IF open[e] THEN lockQ ELSE [lockQ EXCEPT ![e] = Append(@, c)]
        /\ op' = op /\ rec' = rec /\ ent' = ent /\ drained' = drained /\ inGlobal' = inGlobal
    BY <1>6 DEF Served, locals
  <2>2. /\ pc'[c] = (IF open[e] THEN "running" ELSE "lock")
        /\ \A d \in Callers : d # c => pc'[d] = pc[d]
        /\ pc' \in [Callers -> PC]
    BY <1>2, <2>1 DEF TypeOK, PC
  <2>3. /\ free' \in [Entries -> Nat] /\ free'[e] + 1 = free[e]
        /\ \A f \in Entries : f # e => free'[f] = free[f] /\ free[f] \in Nat
    <3>1. free \in [Entries -> Nat] BY <1>2, BoundAssumption DEF TypeOK
    <3>2. free[e] \in Nat BY <3>1
    <3>3. free[e] - 1 \in Nat /\ (free[e] - 1) + 1 = free[e] BY <1>1, <3>2
    <3>4. QED BY <2>1, <3>1, <3>3
  <2>4. TypeRest' BY <1>2, <1>3, <2>1, <2>2 DEF TypeRest, TypeOK
  <2>5. Others(c) BY <2>1, <2>2 DEF Others
  <2>6. CallerOK(c)' BY <1>1, <1>2, <1>3, <2>1, <2>2 DEF CallerOK, InEntry, Owner
  <2>7. Exchanges(c)
    <3>1. HeldAt(c, e)' = 1 /\ HeldAt(c, e) = 0
      BY <1>2, <2>1, <2>2 DEF HeldAt, Held, Owner
    <3>2. \A f \in Entries : f # e => HeldAt(c, f)' = 0 /\ HeldAt(c, f) = 0
      BY <2>1 DEF HeldAt
    <3>3. free[e] + 0 = free[e] BY <1>2, BoundAssumption DEF TypeOK
    <3>4. QED BY <2>3, <3>1, <3>2, <3>3 DEF Exchanges
  <2>8. /\ lockQ' = [f \in Entries |-> lockQ'[f]]
        /\ \A f \in Entries :
             IF pc'[c] = "lock"
             THEN Grows(lockQ[f], lockQ'[f], InLockQ(f), c, f = ent[c])
             ELSE Shrinks(lockQ[f], lockQ'[f], InLockQ(f), c)
    <3>1. \A f \in Entries : c \notin InLockQ(f) BY <1>1 DEF InLockQ
    <3>2. CASE open[e]
      <4>1. lockQ' = lockQ /\ pc'[c] = "running" BY <2>1, <2>2, <3>2
      <4>2. QED BY <1>1, <1>2, <4>1, LockQSame
    <3>3. CASE ~open[e]
      <4>1. lockQ' = [lockQ EXCEPT ![e] = Append(@, c)] /\ pc'[c] = "lock" BY <2>1, <2>2, <3>3
      <4>2. QED BY <1>2, <3>1, <4>1 DEF Grows, TypeOK
    <3>4. QED BY <3>2, <3>3
  <2>9. Work(c)
    <3>1. pc'[c] \in {"lock", "running"} BY <2>2
    <3>2. QED BY <1>1, <1>3, <1>4, <2>1, <2>5, <2>6, <2>7, <2>8, <3>1 DEF Work
  <2>10. QED BY <2>4, <2>9, WorkPreserves
<1>7. QED BY <1>1, <1>5, <1>6

(* connect() has raised or returned, for the caller that took the lock. *)
LEMMA FailedPreserves ==
  ASSUME SshInv, NEW c \in Callers, pc[c] \in {"lock", "connecting"}, Failed(c),
         UNCHANGED <<record, entries, calls, stray>>, LinksStep(c), QueuesShrink(c)
  PROVE  SshInv'
<1>1. TypeOK /\ ~Owner(c) /\ Held(c) = (IF op[c] = "test" THEN 0 ELSE 1) /\ Held(c) \in Nat
  BY DEF SshInv, Owner, Held
<1>2. Leave(c, Held(c)) BY <1>1, Zenon DEF Failed
<1>3. PICK h \in Nat : h = Held(c) BY <1>1
<1>4. UNCHANGED <<record, entries, stray>> /\ calls' \in 0 .. MaxCalls BY <1>1 DEF TypeOK
<1>5. QED BY <1>1, <1>2, <1>3, <1>4, LeavePreserves

LEMMA ConnectedPreserves ==
  ASSUME SshInv, NEW c \in Callers, pc[c] \in {"lock", "connecting"}, Connected(c),
         UNCHANGED <<record, entries, calls, stray>>, LinksStep(c), QueuesShrink(c)
  PROVE  SshInv'
<1>1. TypeOK /\ CallerOK(c) BY DEF SshInv, CallersOK
<1>2. CASE op[c] # "run"
  <2>1. Failed(c) BY <1>2, Zenon DEF Connected, Failed
  <2>2. QED BY <2>1, FailedPreserves
<1>3. CASE op[c] = "run"
  <2>1. /\ pc' = [pc EXCEPT ![c] = "running"] /\ free' = free
        /\ op' = op /\ rec' = rec /\ ent' = ent /\ drained' = drained /\ inGlobal' = inGlobal
    BY <1>3 DEF Connected, locals
  <2>2. /\ pc'[c] = "running" /\ \A d \in Callers : d # c => pc'[d] = pc[d]
        /\ pc' \in [Callers -> PC]
    BY <1>1, <2>1 DEF TypeOK, PC
  <2>3. /\ record' = record /\ managed' = managed /\ retiring' = retiring /\ built' = built
        /\ ident' = ident /\ calls' = calls /\ stray' = stray
    BY DEF entries
  <2>4. TypeRest' BY <1>1, <2>1, <2>2, <2>3 DEF TypeRest, TypeOK, LinksStep
  <2>5. Others(c) BY <2>1, <2>2 DEF Others
  <2>6. CallerOK(c)' BY <1>1, <1>3, <2>1, <2>2, <2>3 DEF CallerOK, InEntry, Owner
  <2>7. \A f \in Entries : HeldAt(c, f)' = HeldAt(c, f)
    BY <1>3, <2>1, <2>2 DEF HeldAt, Held, Owner
  <2>8. Exchanges(c) BY <1>1, <2>1, <2>7, NoExchange
  <2>9. Work(c)
    BY <2>1, <2>2, <2>3, <2>5, <2>6, <2>8 DEF Work, LinksStep, QueuesShrink
  <2>10. QED BY <2>4, <2>9, WorkPreserves
<1>4. QED BY <1>2, <1>3

LEMMA TakeLockPreserves ==
  ASSUME SshInv, NEW c \in Callers, NEW e \in Entries, e = ent[c], TakeLock(c)
  PROVE  SshInv'
<1> DEFINE Connects == /\ locked' = [locked EXCEPT ![e] = TRUE]
                       /\ pc' = [pc EXCEPT ![c] = "connecting"]
                       /\ UNCHANGED <<free, locals, inGlobal>>
<1>1. /\ pc[c] = "lock" /\ Head(lockQ[e]) = c /\ ~locked[e]
      /\ lockQ' = [lockQ EXCEPT ![e] = Tail(@)]
      /\ (Connected(c) /\ UNCHANGED locked) \/ (Failed(c) /\ UNCHANGED locked) \/ Connects
      /\ UNCHANGED <<record, entries, links, slotQ, calls, stray>>
  BY DEF TakeLock
<1> HIDE DEF Connects
<1>2. TypeOK /\ CallerOK(c) BY DEF SshInv, CallersOK
<1>3. /\ record' = record /\ managed' = managed /\ retiring' = retiring /\ built' = built
      /\ ident' = ident /\ open' = open /\ backoff' = backoff /\ slotQ' = slotQ
      /\ calls' = calls /\ stray' = stray
  BY <1>1 DEF entries, links
<1>4. QueuesShrink(c)
  <2>1. /\ lockQ' = [f \in Entries |-> lockQ'[f]]
        /\ \A f \in Entries : Shrinks(lockQ[f], lockQ'[f], InLockQ(f), c)
    BY <1>1, <1>2, LockTurn
  <2>2. /\ slotQ' = [f \in Entries |-> slotQ'[f]]
        /\ \A f \in Entries : Shrinks(slotQ[f], slotQ'[f], InSlotQ(f), c)
    BY <1>1, <1>2, <1>3, SlotQSame
  <2>3. QED BY <2>1, <2>2 DEF QueuesShrink
<1>5. UNCHANGED <<record, entries, calls, stray>> BY <1>1
<1>6. ASSUME UNCHANGED locked PROVE LinksStep(c) BY <1>2, <1>3, <1>6, SameLinks
<1>7. CASE Connected(c) /\ UNCHANGED locked
  BY <1>1, <1>4, <1>5, <1>6, <1>7, ConnectedPreserves
<1>8. CASE Failed(c) /\ UNCHANGED locked
  BY <1>1, <1>4, <1>5, <1>6, <1>8, FailedPreserves
<1>9. CASE Connects
  <2>1. /\ locked' = [locked EXCEPT ![e] = TRUE] /\ pc' = [pc EXCEPT ![c] = "connecting"]
        /\ free' = free /\ op' = op /\ rec' = rec /\ ent' = ent /\ drained' = drained
        /\ inGlobal' = inGlobal
    BY <1>9 DEF Connects, locals
  <2>2. /\ pc'[c] = "connecting" /\ \A d \in Callers : d # c => pc'[d] = pc[d]
        /\ pc' \in [Callers -> PC]
        /\ locked' \in [Entries -> BOOLEAN] /\ locked'[e]
        /\ \A f \in Entries : locked[f] => locked'[f]
    BY <1>2, <2>1 DEF TypeOK, PC
  <2>3. TypeRest' BY <1>2, <1>3, <2>1, <2>2 DEF TypeRest, TypeOK
  <2>4. Others(c) BY <2>1, <2>2 DEF Others
  <2>5. CallerOK(c)' BY <1>1, <1>2, <1>3, <2>1, <2>2 DEF CallerOK, InEntry, Owner
  <2>6. \A f \in Entries : HeldAt(c, f)' = HeldAt(c, f)
    BY <1>1, <2>1, <2>2 DEF HeldAt, Held, Owner
  <2>7. Exchanges(c) BY <1>2, <2>1, <2>6, NoExchange
  <2>8. Work(c)
    BY <1>1, <1>3, <1>4, <2>1, <2>2, <2>4, <2>5, <2>7 DEF Work, QueuesShrink
  <2>9. QED BY <2>3, <2>8, WorkPreserves
<1>10. QED BY <1>1, <1>7, <1>8, <1>9

LEMMA FinishConnectPreserves ==
  ASSUME SshInv, NEW c \in Callers, NEW e \in Entries, e = ent[c], FinishConnect(c)
  PROVE  SshInv'
<1>1. /\ pc[c] = "connecting" /\ locked' = [locked EXCEPT ![e] = FALSE]
      /\ \/ /\ open' = [open EXCEPT ![e] = TRUE] /\ backoff' = [backoff EXCEPT ![e] = FALSE]
            /\ Connected(c)
         \/ /\ backoff' \in {[backoff EXCEPT ![e] = TRUE], [backoff EXCEPT ![e] = FALSE]}
            /\ open' = open /\ Failed(c)
      /\ slotQ' = slotQ /\ lockQ' = lockQ
      /\ UNCHANGED <<record, entries, calls, stray>>
  BY DEF FinishConnect
<1>2. TypeOK BY DEF SshInv
<1>3. QueuesShrink(c) BY <1>1, <1>2, SameQueues
<1>4. LinksStep(c)
  <2>1. /\ open' \in [Entries -> BOOLEAN] /\ backoff' \in [Entries -> BOOLEAN]
        /\ locked' \in [Entries -> BOOLEAN]
    BY <1>1, <1>2 DEF TypeOK
  <2>2. \A f \in Entries : f # e => open'[f] = open[f] /\ locked'[f] = locked[f]
    BY <1>1, <1>2 DEF TypeOK
  <2>3. QED BY <1>1, <2>1, <2>2 DEF LinksStep
<1>5. QED BY <1>1, <1>3, <1>4, ConnectedPreserves, FailedPreserves

LEMMA FinishCommandPreserves ==
  ASSUME SshInv, NEW c \in Callers, NEW e \in Entries, e = ent[c], FinishCommand(c)
  PROVE  SshInv'
<1>1. /\ pc[c] = "running" /\ Leave(c, 1)
      /\ \/ open' = open /\ backoff' = backoff
         \/ open' = [open EXCEPT ![e] = FALSE] /\ backoff' = [backoff EXCEPT ![e] = TRUE]
      /\ slotQ' = slotQ /\ lockQ' = lockQ /\ locked' = locked /\ calls' = calls
      /\ UNCHANGED <<record, entries, stray>>
  BY DEF FinishCommand, links
<1>2. TypeOK /\ ~Owner(c) /\ Held(c) = 1
  BY <1>1 DEF SshInv, CallersOK, CallerOK, Held, Owner
<1>3. QueuesShrink(c) BY <1>1, <1>2, SameQueues
<1>4. LinksStep(c)
  <2>1. /\ open' \in [Entries -> BOOLEAN] /\ backoff' \in [Entries -> BOOLEAN]
        /\ \A f \in Entries : open'[f] => open[f]
    BY <1>1, <1>2 DEF TypeOK
  <2>2. QED BY <1>1, <1>2, <2>1 DEF LinksStep, TypeOK
<1>5. 1 \in Nat /\ calls' \in 0 .. MaxCalls BY <1>1, <1>2 DEF TypeOK
<1>6. QED BY <1>1, <1>2, <1>3, <1>4, <1>5, LeavePreserves

-----------------------------------------------------------------------------
(* The end of a retirement, and cancellation *)

(* What the retire event does to the callers that wait for it. *)
LEMMA Woken ==
  ASSUME TypeOK, NEW c \in Callers, NEW p \in PC, pc' = WakeRetired(c, p)
  PROVE  /\ pc' \in [Callers -> PC] /\ pc'[c] = p
         /\ \A d \in Callers : d # c =>
              pc'[d] = pc[d] \/ (pc[d] = "waitRetired" /\ pc'[d] = "retired")
<1>1. \A d \in Callers :
        pc'[d] = IF d = c THEN p ELSE IF pc[d] = "waitRetired" THEN "retired" ELSE pc[d]
  BY DEF WakeRetired
<1>2. "retired" \in PC /\ \A d \in Callers : pc[d] \in PC BY DEF TypeOK, PC
<1>3. pc' \in [Callers -> PC] BY <1>2 DEF WakeRetired
<1>4. QED BY <1>1, <1>3

LEMMA FinishClosePreserves ==
  ASSUME SshInv, NEW c \in Callers, FinishClose(c)
  PROVE  SshInv'
<1>1. /\ pc[c] = "closing" /\ retiring' = FALSE
      /\ free' = [free EXCEPT ![ent[c]] = @ + drained[c]]
      /\ drained' = [drained EXCEPT ![c] = 0] /\ ent' = [ent EXCEPT ![c] = NoEntry]
      /\ pc' = WakeRetired(c, "retired")
      /\ record' = record /\ managed' = managed /\ built' = built /\ ident' = ident
      /\ open' = open /\ backoff' = backoff /\ slotQ' = slotQ /\ locked' = locked
      /\ lockQ' = lockQ /\ inGlobal' = inGlobal /\ calls' = calls /\ op' = op /\ rec' = rec
      /\ stray' = stray
  BY DEF FinishClose, links
<1>2. /\ TypeOK /\ CallerOK(c) /\ Owner(c) /\ Held(c) = drained[c] /\ drained[c] = MaxPerServer
  BY <1>1 DEF SshInv, CallersOK, CallerOK, Owner, Held
<1>3. /\ pc' \in [Callers -> PC] /\ pc'[c] = "retired"
      /\ \A d \in Callers : d # c =>
           pc'[d] = pc[d] \/ (pc[d] = "waitRetired" /\ pc'[d] = "retired")
  <2>1. "retired" \in PC BY DEF PC
  <2>2. QED BY <1>1, <1>2, <2>1, Woken
<1>4. /\ ent'[c] = NoEntry /\ drained'[c] = 0
      /\ \A d \in Callers : d # c => ent'[d] = ent[d] /\ drained'[d] = drained[d]
      /\ ent' \in [Callers -> Entries \cup {NoEntry}]
      /\ drained' \in [Callers -> 0 .. MaxPerServer]
  <2>1. 0 \in 0 .. MaxPerServer BY BoundAssumption
  <2>2. QED BY <1>1, <1>2, <2>1 DEF TypeOK
<1>5. TypeRest' BY <1>1, <1>2, <1>3, <1>4 DEF TypeRest, TypeOK
<1>6. Others(c) BY <1>1, <1>3, <1>4 DEF Others
<1>7. CallerOK(c)'
  <2>1. ent'[c] \in 0 .. built' BY <1>1, <1>2, <1>4, BoundAssumption DEF TypeOK, NoEntry
  <2>2. QED BY <1>1, <1>2, <1>3, <1>4, <2>1 DEF CallerOK, InEntry
<1>8. Exchanges(c)
  <2>1. PICK h \in Nat : h = Held(c) /\ h # 0 BY <1>2, BoundAssumption
  <2>2. free' = IF h = 0 THEN free ELSE [free EXCEPT ![ent[c]] = @ + h] BY <1>1, <1>2, <2>1
  <2>3. QED BY <1>4, <2>1, <2>2, GivesBack
<1>9. QueuesShrink(c) BY <1>1, <1>2, SameQueues
<1>10. Out(c) BY <1>1, <1>2, <1>3, <1>6, <1>7, <1>8, <1>9 DEF Out, InEntry
<1>11. QED BY <1>5, <1>10, OutPreserves

LEMMA CancelPreserves ==
  ASSUME SshInv, NEW c \in Callers, Cancel(c)
  PROVE  SshInv'
<1>1. /\ pc' = IF Owner(c) THEN WakeRetired(c, "idle") ELSE [pc EXCEPT ![c] = "idle"]
      /\ retiring' = (retiring /\ ~Owner(c))
      /\ free' = IF Held(c) = 0 THEN free ELSE [free EXCEPT ![ent[c]] = @ + Held(c)]
      /\ slotQ' = Without(slotQ, c) /\ lockQ' = Without(lockQ, c)
      /\ locked' = [e \in Entries |-> locked[e] /\ ~(pc[c] = "connecting" /\ ent[c] = e)]
      /\ stray' = (IF pc[c] = "closeLock" THEN stray \cup {ent[c]} ELSE stray)
      /\ inGlobal' = inGlobal \ {c}
      /\ op' = [op EXCEPT ![c] = "none"] /\ rec' = [rec EXCEPT ![c] = NoIdentity]
      /\ ent' = [ent EXCEPT ![c] = NoEntry] /\ drained' = [drained EXCEPT ![c] = 0]
      /\ record' = record /\ managed' = managed /\ built' = built /\ ident' = ident
      /\ open' = open /\ backoff' = backoff /\ calls' = calls
  BY DEF Cancel, links
<1>2. TypeOK /\ CallerOK(c) /\ Held(c) \in Nat
  BY HeldType, BoundAssumption DEF SshInv, CallersOK
<1>3. /\ pc' \in [Callers -> PC] /\ pc'[c] = "idle"
      /\ \A d \in Callers : d # c =>
           pc'[d] = pc[d] \/ (pc[d] = "waitRetired" /\ pc'[d] = "retired")
  <2>1. "idle" \in PC BY DEF PC
  <2>2. CASE Owner(c) BY <1>1, <1>2, <2>1, <2>2, Woken
  <2>3. CASE ~Owner(c) BY <1>1, <1>2, <2>1, <2>3 DEF TypeOK
  <2>4. QED BY <2>2, <2>3
<1>4. /\ ent'[c] = NoEntry /\ drained'[c] = 0 /\ op'[c] = "none"
      /\ \A d \in Callers : d # c =>
           ent'[d] = ent[d] /\ drained'[d] = drained[d] /\ op'[d] = op[d]
      /\ ent' \in [Callers -> Entries \cup {NoEntry}]
      /\ drained' \in [Callers -> 0 .. MaxPerServer]
      /\ op' \in [Callers -> Ops \cup {"none"}]
      /\ rec' \in [Callers -> Identities \cup {NoIdentity}]
  <2>1. 0 \in 0 .. MaxPerServer BY BoundAssumption
  <2>2. QED BY <1>1, <1>2, <2>1 DEF TypeOK
<1>5. retiring' \in BOOLEAN /\ (retiring' = retiring \/ Owner(c))
  <2>1. retiring \in BOOLEAN BY <1>2 DEF TypeOK
  <2>2. CASE Owner(c) BY <1>1, <2>2
  <2>3. CASE ~Owner(c) BY <1>1, <2>1, <2>3
  <2>4. QED BY <2>2, <2>3
<1>6. /\ locked' \in [Entries -> BOOLEAN]
      /\ \A e \in Entries : locked[e] => locked'[e] \/ (pc[c] = "connecting" /\ ent[c] = e)
  BY <1>1, <1>2, Zenon DEF TypeOK
<1>7. stray' \subseteq Entries
  <2>1. pc[c] = "closeLock" => ent[c] \in Entries BY <1>2 DEF CallerOK, InEntry, TypeOK
  <2>2. QED BY <1>1, <1>2, <2>1 DEF TypeOK
<1>8. TypeRest' BY <1>1, <1>2, <1>3, <1>4, <1>5, <1>6, <1>7 DEF TypeRest, TypeOK
<1>9. Others(c) BY <1>3, <1>4 DEF Others
<1>10. CallerOK(c)'
  <2>1. ent'[c] \in 0 .. built' BY <1>1, <1>2, <1>4, BoundAssumption DEF TypeOK, NoEntry
  <2>2. QED BY <1>3, <1>4, <2>1 DEF CallerOK, InEntry
<1>11. Exchanges(c)
  <2>1. PICK h \in Nat : h = Held(c) BY <1>2
  <2>2. free' = IF h = 0 THEN free ELSE [free EXCEPT ![ent[c]] = @ + h] BY <1>1, <2>1
  <2>3. QED BY <1>4, <2>1, <2>2, GivesBack
<1>12. QueuesShrink(c) BY <1>1 DEF Without, QueuesShrink, Shrinks
<1>13. Out(c)
  BY <1>1, <1>3, <1>5, <1>6, <1>9, <1>10, <1>11, <1>12 DEF Out, InEntry
<1>14. QED BY <1>8, <1>13, OutPreserves

-----------------------------------------------------------------------------
(* The registry, the network and the clock, and a stutter *)

(* Nobody moves; connections can only be lost. *)
LEMMA QuietPreserves ==
  ASSUME SshInv, record' \in Identities,
         UNCHANGED <<entries, queues, inGlobal, calls, pc, locals, stray>>,
         open' \in [Entries -> BOOLEAN], backoff' \in [Entries -> BOOLEAN],
         \A e \in Entries : open'[e] => open[e]
  PROVE  SshInv'
<1>1. /\ managed' = managed /\ retiring' = retiring /\ built' = built /\ ident' = ident
      /\ free' = free /\ slotQ' = slotQ /\ locked' = locked /\ lockQ' = lockQ
      /\ inGlobal' = inGlobal /\ calls' = calls /\ pc' = pc /\ op' = op /\ rec' = rec
      /\ ent' = ent /\ drained' = drained /\ stray' = stray
  BY DEF entries, queues, locals
<1>2. TypeOK' BY <1>1 DEF SshInv, TypeOK
<1>3. CallersOK' BY <1>1 DEF SshInv, CallersOK, CallerOK, Owner
<1>4. PermitsAddUp'
  <2>1. \A e \in Entries : Permits(e)' = Permits(e) BY <1>1 DEF Permits, Held, Owner
  <2>2. QED BY <1>1, <2>1 DEF SshInv, PermitsAddUp
<1>5. OwnerInv' /\ LockInv' BY <1>1 DEF SshInv, OwnerInv, Owner, LockInv
<1>6. QueueInv' BY <1>1 DEF SshInv, QueueInv, InSlotQ, InLockQ
<1>7. ClosedInv' BY <1>1 DEF SshInv, ClosedInv, BeingClosed
<1>8. QED BY <1>2, <1>3, <1>4, <1>5, <1>6, <1>7 DEF SshInv

LEMMA EnvironmentPreserves ==
  ASSUME SshInv, Update \/ PeerCloses \/ note_connection_lost \/ BackoffOver \/ UNCHANGED vars
  PROVE  SshInv'
<1>1. /\ TypeOK /\ record \in Identities
      /\ open \in [Entries -> BOOLEAN] /\ backoff \in [Entries -> BOOLEAN]
  BY DEF SshInv, TypeOK
<1>2. CASE Update
  <2>1. /\ record' \in Identities /\ open' = open /\ backoff' = backoff
        /\ UNCHANGED <<entries, queues, inGlobal, calls, pc, locals, stray>>
    BY <1>2 DEF Update, links
  <2>2. QED BY <1>1, <2>1, QuietPreserves
<1>3. CASE PeerCloses
  <2>1. PICK e \in Entries :
          /\ open' = [open EXCEPT ![e] = FALSE] /\ record' = record /\ backoff' = backoff
          /\ UNCHANGED <<entries, queues, inGlobal, calls, pc, locals, stray>>
    BY <1>3 DEF PeerCloses
  <2>2. open' \in [Entries -> BOOLEAN] /\ \A f \in Entries : open'[f] => open[f] BY <1>1, <2>1
  <2>3. QED BY <1>1, <2>1, <2>2, QuietPreserves
<1>4. CASE note_connection_lost
  <2>1. /\ open' = [open EXCEPT ![managed] = FALSE] /\ record' = record
        /\ backoff' = [backoff EXCEPT ![managed] = TRUE]
        /\ UNCHANGED <<entries, queues, inGlobal, calls, pc, locals, stray>>
    BY <1>4 DEF note_connection_lost
  <2>2. /\ open' \in [Entries -> BOOLEAN] /\ backoff' \in [Entries -> BOOLEAN]
        /\ \A f \in Entries : open'[f] => open[f]
    BY <1>1, <2>1
  <2>3. QED BY <1>1, <2>1, <2>2, QuietPreserves
<1>5. CASE BackoffOver
  <2>1. PICK e \in Entries :
          /\ backoff' = [backoff EXCEPT ![e] = FALSE] /\ record' = record /\ open' = open
          /\ UNCHANGED <<entries, queues, inGlobal, calls, pc, locals, stray>>
    BY <1>5 DEF BackoffOver
  <2>2. backoff' \in [Entries -> BOOLEAN] BY <1>1, <2>1
  <2>3. QED BY <1>1, <2>1, <2>2, QuietPreserves
<1>6. CASE UNCHANGED vars
  <2>1. /\ record' = record /\ open' = open /\ backoff' = backoff
        /\ UNCHANGED <<entries, queues, inGlobal, calls, pc, locals, stray>>
    BY <1>6 DEF vars, links
  <2>2. QED BY <1>1, <2>1, QuietPreserves
<1>7. QED BY <1>2, <1>3, <1>4, <1>5, <1>6

LEMMA StepPreserves ==
  ASSUME SshInv, NEW c \in Callers, Step(c)
  PROVE  SshInv'
<1>1. ASSUME InEntry(pc[c]) PROVE \E e \in Entries : e = ent[c]
  BY <1>1 DEF SshInv, CallersOK, CallerOK, TypeOK
<1>2. CASE EnterGlobal(c) BY <1>2, EnterGlobalPreserves
<1>3. CASE EnterSlot(c)
  <2>1. InEntry(pc[c]) BY <1>3 DEF EnterSlot, InEntry
  <2>2. QED BY <1>1, <1>3, <2>1, EnterSlotPreserves
<1>4. CASE TakeLock(c)
  <2>1. InEntry(pc[c]) BY <1>4 DEF TakeLock, InEntry
  <2>2. QED BY <1>1, <1>4, <2>1, TakeLockPreserves
<1>5. CASE FinishConnect(c)
  <2>1. InEntry(pc[c]) BY <1>5 DEF FinishConnect, InEntry
  <2>2. QED BY <1>1, <1>5, <2>1, FinishConnectPreserves
<1>6. CASE FinishCommand(c)
  <2>1. InEntry(pc[c]) BY <1>6 DEF FinishCommand, InEntry
  <2>2. QED BY <1>1, <1>6, <2>1, FinishCommandPreserves
<1>7. CASE Drain(c)
  <2>1. InEntry(pc[c]) BY <1>7 DEF Drain, InEntry
  <2>2. QED BY <1>1, <1>7, <2>1, DrainPreserves
<1>8. CASE CloseConnection(c) BY <1>8, ClosePreserves
<1>9. CASE FinishClose(c) BY <1>9, FinishClosePreserves
<1>10. CASE AfterClose(c) BY <1>10, AfterClosePreserves
<1>11. QED BY <1>2, <1>3, <1>4, <1>5, <1>6, <1>7, <1>8, <1>9, <1>10 DEF Step

-----------------------------------------------------------------------------
(* The theorems *)

LEMMA InitInv == Init => SshInv
<1> SUFFICES ASSUME Init PROVE SshInv OBVIOUS
<1>1. TypeOK
  <2>1. <<>> \in Seq(Callers) OBVIOUS
  <2>2. 0 \in 0 .. MaxEntries /\ MaxPerServer \in 0 .. MaxPerServer /\ 0 \in 0 .. MaxCalls
        /\ 0 \in 0 .. MaxPerServer
    BY BoundAssumption
  <2>3. QED BY <2>1, <2>2 DEF Init, TypeOK, PC, NoEntry
<1>2. \A c \in Callers : /\ pc[c] = "idle" /\ op[c] = "none" /\ ent[c] = NoEntry /\ drained[c] = 0
                         /\ ~Owner(c) /\ Held(c) = 0
  BY DEF Init, Owner, Held
<1>3. CallersOK BY <1>2 DEF Init, CallersOK, CallerOK, InEntry, NoEntry
<1>4. PermitsAddUp
  <2> SUFFICES ASSUME NEW e \in Entries PROVE free[e] + Cardinality(Permits(e)) = MaxPerServer
    BY DEF PermitsAddUp
  <2>1. Permits(e) = {} BY <1>2, BoundAssumption DEF Permits
  <2>2. Cardinality({}) = 0 BY FS_EmptySet
  <2>3. free[e] = MaxPerServer BY DEF Init
  <2>4. QED BY <2>1, <2>2, <2>3, BoundAssumption
<1>5. OwnerInv /\ LockInv BY <1>2 DEF OwnerInv, LockInv
<1>6. QueueInv
  <2>1. \A e \in Entries : slotQ[e] = <<>> /\ lockQ[e] = <<>> /\ InSlotQ(e) = {} /\ InLockQ(e) = {}
    BY <1>2 DEF Init, InSlotQ, InLockQ
  <2>2. IsQueueOf(<<>>, {}) BY DEF IsQueueOf
  <2>3. QED BY <1>2, <2>1, <2>2 DEF QueueInv
<1>7. ClosedInv
  <2>1. \A e \in Entries : ~open[e] BY DEF Init
  <2>2. QED BY <1>2, <2>1 DEF ClosedInv
<1>8. QED BY <1>1, <1>3, <1>4, <1>5, <1>6, <1>7 DEF SshInv

LEMMA NextInv == SshInv /\ [Next]_vars => SshInv'
<1> SUFFICES ASSUME SshInv, [Next]_vars PROVE SshInv' OBVIOUS
<1>1. CASE Update \/ PeerCloses \/ note_connection_lost \/ BackoffOver \/ UNCHANGED vars
  BY <1>1, EnvironmentPreserves
<1>2. ASSUME NEW c \in Callers, NEW o \in {"run", "acquire"}, run(c, o) PROVE SshInv'
  BY <1>2, RunPreserves
<1>3. ASSUME NEW c \in Callers,
             test_connection(c) \/ close_server(c) \/ Step(c) \/ Cancel(c)
      PROVE  SshInv'
  BY <1>3, TestPreserves, CloseServerPreserves, StepPreserves, CancelPreserves
<1>4. QED BY <1>1, <1>2, <1>3, Zenon DEF Next

LEMMA Invariant == Spec => []SshInv
<1>1. QED BY InitInv, NextInv, PTL DEF Spec

(* Every variable keeps its type: a semaphore never has more free permits    *)
(* than it was built with, and the tables hold the entry built last.         *)
THEOREM TypeCorrect == Spec => []TypeOK
<1>1. SshInv => TypeOK BY DEF SshInv
<1>2. QED BY <1>1, Invariant, PTL

(* A command never runs on a connection that has left the manager's tables:  *)
(* run() checks its entry under its permit, and close_server takes the entry *)
(* out of the tables only with all the permits in hand.                      *)
THEOREM CommandCorrect == Spec => []CommandOnManaged
<1>1. SshInv => CommandOnManaged
  BY DEF SshInv, CommandOnManaged, OwnerInv, CallersOK, CallerOK
<1>2. QED BY <1>1, Invariant, PTL

(* However calls return, raise or are cancelled, also half-way through a     *)
(* drain, an entry's free permits and those in hand add up to                *)
(* max_in_flight_per_server.                                                 *)
THEOREM PermitsCorrect == Spec => []PermitsAddUp
<1>1. SshInv => PermitsAddUp BY DEF SshInv
<1>2. QED BY <1>1, Invariant, PTL

(* A retired entry that nobody uses any more has no open connection, unless  *)
(* its close_server was cancelled while it waited for the connect lock.      *)
THEOREM RetireCorrect == Spec => []RetiredIsClosed
<1>1. SshInv => RetiredIsClosed
  <2> SUFFICES ASSUME SshInv, NEW e \in Entries, e # managed, ~InUse(e), e \notin stray
               PROVE  ~open[e]
    BY DEF RetiredIsClosed
  <2>1. ~BeingClosed(e) BY DEF BeingClosed, InUse
  <2>2. QED BY <2>1 DEF SshInv, ClosedInv
<1>2. QED BY <1>1, Invariant, PTL
=============================================================================
