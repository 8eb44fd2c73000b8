-------------------------- MODULE LocalRelayProofs --------------------------
(* Proofs about LocalRelay, for every finite tree, every assignment of sizes *)
(* to versions, every number of jobs and every choice of cut-offs (where a   *)
(* result depends on the cut-offs, its hypothesis says so).                  *)
EXTENDS LocalRelay, TLAPS, FiniteSetTheorems

-----------------------------------------------------------------------------
(* Stats and files *)

LEMMA Clock == MaxTime \in Nat \ {0} /\ Versions = 1 .. MaxTime /\ Version0 = 0 .. MaxTime
BY SizeAssumption DEF Versions, Version0

LEMMA StatFacts ==
  ASSUME NEW v \in Version0
  PROVE  /\ Stat(v) \in Stats /\ Stat(v).mtime = v /\ Stat(v).size \in Nat
         /\ Stat(v).size > 0 => v # 0
BY SizeAssumption DEF Stat, Stats, Versions, Version0

LEMMA StatsFacts ==
  ASSUME NEW s \in Stats
  PROVE  /\ s.mtime \in Version0 /\ s = Stat(s.mtime) /\ s.size \in Nat
<1>1. PICK v \in Version0 : s = Stat(v) BY DEF Stats
<1>2. QED BY <1>1, StatFacts

LEMMA NoStatFacts == NoStat \in Stats /\ NoStat.mtime = 0 /\ NoStat.size = 0
<1>1. 0 \in Version0 BY Clock
<1>2. QED BY <1>1, StatFacts DEF NoStat, Stat

LEMMA FileFacts ==
  ASSUME NEW data \in Seq(Versions), NEW time \in Version0
  PROVE  /\ File(data, time) \in FileStates
         /\ File(data, time).data = data /\ File(data, time).mtime = time
         /\ File(data, time).written = time
BY DEF File, FileStates

LEMMA NoFileFacts ==
  /\ NoFile \in FileStates /\ NoFile.data = <<>> /\ NoFile.mtime = 0 /\ NoFile.written = 0
BY Clock DEF NoFile, File, FileStates

(* A prefix as long as the file is its content. *)
LEMMA WholePrefix ==
  ASSUME NEW data \in Seq(Versions), NEW v \in Version0, IsPrefixOf(data, v),
         ~(Len(data) < Stat(v).size)
  PROVE  data = Content(v)
<1>1. Stat(v).size \in Nat BY StatFacts
<1>2. Len(data) = Stat(v).size /\ \A i \in 1 .. Len(data) : data[i] = v
  BY <1>1 DEF IsPrefixOf
<1>3. data = [i \in 1 .. Len(data) |-> data[i]] OBVIOUS
<1>4. QED BY <1>2, <1>3 DEF Content

LEMMA LongerPrefix ==
  ASSUME NEW data \in Seq(Versions), NEW v \in Versions, IsPrefixOf(data, v),
         Len(data) < Stat(v).size
  PROVE  IsPrefixOf(Append(data, v), v)
<1>1. Stat(v).size \in Nat BY StatFacts, Clock
<1>2. QED BY <1>1 DEF IsPrefixOf

LEMMA EmptyPrefix == \A v \in Version0 : IsPrefixOf(<<>>, v)
BY StatFacts DEF IsPrefixOf

-----------------------------------------------------------------------------
(* The inductive invariants *)

InFile == pc \in {"stat", "meta", "metaWrite", "open", "copying", "renaming",
                  "unmeta", "stamping"}
AfterStat == InFile /\ pc # "stat"

(* The locals of _relay_file at its awaits: what it copies, and that the     *)
(* partial exists from the writer's open to the rename.                      *)
StageInv ==
  /\ InFile => cur \in Files /\ (root # "dir" => cur = root) /\ (root = "dir" => cur \notin todo)
  /\ pc \in {"counting", "walking", "rewalking"} => root = "dir"
  /\ pc \in {"meta", "metaWrite"} => offset = 0
  /\ pc = "open" /\ offset > 0 => Exists(partial[cur])
  /\ pc \in {"copying", "renaming"} => Exists(partial[cur])
  /\ pc = "copying" => handle # 0

(* Version v of f is one the source has or had: no later change brings it    *)
(* back.                                                                     *)
Past(f, v) == v <= now /\ (v = now => src[f] = now)

(* Every version recorded on the target or in a local is past, except for an *)
(* mtime that the target's own clock set.                                    *)
PastInv ==
  /\ \A f \in Files :
       /\ src[f] <= now
       /\ Past(f, meta[f].mtime)
       /\ partial[f].mtime = partial[f].written /\ partial[f].written <= now
       /\ tgt[f].mtime <= now
       /\ tgt[f].mtime = now => tgt[f].written = now \/ src[f] = now
  /\ AfterStat => Past(cur, seen.mtime)

BaseInv == TypeOK /\ StageInv /\ PastInv

(* The sidecar describes the partial next to it, but for the await between   *)
(* the new sidecar and the writer that truncates the old partial.            *)
SidecarInv ==
  /\ \A f \in Files :
       /\ src[f] # 0 /\ meta[f].mtime = src[f]
       /\ ~(pc = "open" /\ cur = f /\ offset = 0)
       => IsPrefixOf(partial[f].data, src[f])
  /\ pc \in {"open", "copying", "renaming"} => meta[cur] = seen
  /\ pc = "open" /\ offset > 0 => IsPrefixOf(partial[cur].data, seen.mtime)

(* The file being copied, as long as the source is the one that was seen.    *)
CopyInv ==
  /\ pc = "copying" =>
       /\ src[cur] # 0 /\ src[cur] = seen.mtime => handle = seen.mtime
       /\ handle = seen.mtime => IsPrefixOf(partial[cur].data, handle)
  /\ pc = "renaming" /\ src[cur] # 0 /\ src[cur] = seen.mtime =>
       partial[cur].data = Content(src[cur])
  /\ pc \in {"unmeta", "stamping"} /\ src[cur] # 0 /\ src[cur] = seen.mtime =>
       tgt[cur].data = Content(src[cur])

(* An mtime on the target that set_mtime gave it names the content.          *)
StampInv ==
  \A f \in Files :
    src[f] # 0 /\ NoCoincidence(f) /\ tgt[f].mtime = src[f] => tgt[f].data = Content(src[f])

PrefixInv == SidecarInv /\ CopyInv /\ StampInv

(* What the walk has passed is copied. *)
Copied(f) == src[f] # 0 /\ f \notin changed /\ NoCoincidence(f) => tgt[f].data = Content(src[f])
WalkInv ==
  /\ AfterStat /\ cur \notin changed => seen.mtime = src[cur]
  /\ pc = "walking" => \A f \in Files \ todo : Copied(f)
  /\ InFile /\ root = "dir" => \A f \in Files \ (todo \cup {cur}) : Copied(f)
  /\ pc \in {"verifying", "rewalking", "completed"} =>
       \A f \in Files : root \in {f, "dir"} => Copied(f)

(* The chunks of the files in S, as they are on the source. *)
Chunks(S) == UNION {{f} \X (1 .. Stat(src[f]).size) : f \in S}

(* The counters of a job whose source has not changed since it started.      *)
Counts(files, bytes, S, more) == files = Cardinality(S) /\ bytes = Cardinality(Chunks(S)) + more
SourceTree == IF root = "dir" THEN Existing ELSE {root} \cap Existing

(* The files done before the one in hand, and what of that one is counted.   *)
DoneBefore == IF root = "dir" THEN Existing \ (todo \cup {cur}) ELSE {}
Extra ==
  CASE pc \in {"stat", "meta", "metaWrite"} -> 0
    [] pc = "open" -> offset
    [] pc = "copying" -> Len(partial[cur].data)
    [] OTHER -> Stat(src[cur]).size
FileCountInv ==
  /\ src[cur] # 0 /\ (root = "dir" => todo \subseteq Existing)
  /\ Counts(count.filesDone, count.bytesDone, DoneBefore, Extra)
  /\ pc # "stat" => seen.mtime = src[cur]
  /\ pc = "open" => offset \in {0, Len(partial[cur].data)} /\ offset <= Stat(src[cur]).size
  /\ pc = "copying" => handle = src[cur] /\ Len(partial[cur].data) <= Stat(src[cur]).size

CountInv ==
  changed = {} =>
    /\ pc = "counting" =>
         /\ todo \subseteq Existing
         /\ Counts(count.filesTotal, count.bytesTotal, Existing \ todo, 0)
         /\ count.filesDone = 0 /\ count.bytesDone = 0
    /\ pc \in {"walking", "verifying"} \/ InFile =>
         Counts(count.filesTotal, count.bytesTotal, SourceTree, 0)
    /\ pc = "walking" =>
         /\ todo \subseteq Existing
         /\ Counts(count.filesDone, count.bytesDone, Existing \ todo, 0)
    /\ InFile => FileCountInv
    /\ pc = "verifying" => CountersAgree

-----------------------------------------------------------------------------
(* The source tree and the clock *)

LEMMA TickPreserves ==
  ASSUME BaseInv, Tick
  PROVE  /\ BaseInv' /\ (PrefixInv => PrefixInv') /\ (WalkInv => WalkInv')
         /\ (CountInv => CountInv')
<1>1. /\ now < MaxTime /\ now' = now + 1
      /\ root' = root /\ src' = src /\ tgt' = tgt /\ partial' = partial /\ meta' = meta
      /\ pc' = pc /\ jobs' = jobs /\ todo' = todo /\ cur' = cur /\ seen' = seen
      /\ offset' = offset /\ handle' = handle /\ count' = count /\ changed' = changed
  BY DEF Tick, target, walk
<1>2. TypeOK' BY <1>1, Clock DEF BaseInv, TypeOK
<1>3. StageInv' BY <1>1 DEF BaseInv, StageInv, InFile
<1>4. PastInv'
  <2>1. \A n \in Version0 : n <= now => n <= now + 1 /\ n # now + 1
    BY Clock DEF BaseInv, TypeOK
  <2>2. \A f \in Files : /\ src[f] \in Version0 /\ meta[f].mtime \in Version0
                         /\ partial[f].written \in Version0 /\ tgt[f].mtime \in Version0
    BY StatsFacts DEF BaseInv, TypeOK, FileStates
  <2>3. seen.mtime \in Version0 BY StatsFacts DEF BaseInv, TypeOK
  <2>4. QED BY <1>1, <2>1, <2>2, <2>3 DEF BaseInv, PastInv, Past, AfterStat, InFile
<1>5. ASSUME PrefixInv PROVE PrefixInv'
  BY <1>1, <1>5 DEF PrefixInv, SidecarInv, CopyInv, StampInv, NoCoincidence
<1>6. ASSUME WalkInv PROVE WalkInv'
  BY <1>1, <1>6 DEF WalkInv, InFile, AfterStat, Copied, NoCoincidence
<1>7. ASSUME CountInv PROVE CountInv'
  BY <1>1, <1>7 DEF CountInv, InFile, Counts, Chunks, SourceTree, Existing, CountersAgree,
                    FileCountInv, DoneBefore, Extra
<1>8. QED BY <1>2, <1>3, <1>4, <1>5, <1>6, <1>7 DEF BaseInv

(* File f changes, or vanishes: its version is the present or 0. *)
LEMMA SourcePreserves ==
  ASSUME BaseInv, NEW f \in Files, NEW v \in {0, now}, src[f] < now,
         src' = [src EXCEPT ![f] = v], changed' = changed \cup {f},
         handle' = handle \/ (cur = f /\ handle = src[f] /\ handle # 0 /\ handle' = now),
         UNCHANGED <<now, root, target, pc, jobs, todo, cur, seen, offset, count>>
  PROVE  /\ BaseInv' /\ (PrefixInv => PrefixInv') /\ (WalkInv => WalkInv') /\ CountInv'
<1>1. /\ now' = now
      /\ root' = root /\ tgt' = tgt /\ partial' = partial /\ meta' = meta
      /\ pc' = pc /\ jobs' = jobs /\ todo' = todo /\ cur' = cur /\ seen' = seen
      /\ offset' = offset /\ count' = count
  BY DEF target
<1>2. now \in Versions /\ now \in Version0 /\ 0 \in Version0 /\ now # 0
  BY Clock DEF BaseInv, TypeOK
<1>3. /\ src'[f] = v /\ v \in Version0 /\ handle' \in Version0
      /\ \A g \in Files : g # f => src'[g] = src[g]
  BY <1>2 DEF BaseInv, TypeOK
<1>4. TypeOK'
  <2>1. src' \in [Files -> Version0] /\ changed' \subseteq Files BY <1>3 DEF BaseInv, TypeOK
  <2>2. QED BY <1>1, <1>3, <2>1 DEF BaseInv, TypeOK
<1>5. StageInv' BY <1>1, <1>2 DEF BaseInv, StageInv, InFile
<1>6. /\ \A n \in Version0 : Past(f, n) => n # now /\ (v # 0 => n # v)
      /\ src[f] # now
  BY <1>2, Clock DEF Past, BaseInv, TypeOK
<1>7. PastInv'
  <2>1. src[f] \in Version0 /\ now \in Int /\ v <= now BY <1>2, Clock DEF BaseInv, TypeOK
  <2>2. QED BY <1>1, <1>3, <2>1 DEF BaseInv, PastInv, Past, AfterStat, InFile
<1>8. meta[f].mtime \in Version0 /\ seen.mtime \in Version0
  BY StatsFacts DEF BaseInv, TypeOK
<1>9. v # 0 => meta[f].mtime # v
  BY <1>6, <1>8 DEF BaseInv, PastInv
<1>10. AfterStat /\ cur = f => seen.mtime # now /\ (v # 0 => seen.mtime # v)
  BY <1>6, <1>8 DEF BaseInv, PastInv
<1>11. pc \in {"copying", "renaming", "unmeta", "stamping"} => AfterStat /\ cur \in Files
  BY DEF BaseInv, StageInv, AfterStat, InFile
<1>12. ASSUME PrefixInv PROVE PrefixInv'
  <2>1. SidecarInv' BY <1>1, <1>3, <1>9, <1>12 DEF PrefixInv, SidecarInv
  <2>2. CopyInv' BY <1>1, <1>3, <1>10, <1>11, <1>12 DEF PrefixInv, CopyInv
  <2>3. StampInv'
    <3>1. tgt[f].mtime = v /\ v # 0 => tgt[f].written = v
      BY <1>6 DEF BaseInv, PastInv
    <3>2. QED BY <1>1, <1>3, <1>12, <3>1 DEF PrefixInv, StampInv, NoCoincidence
  <2>4. QED BY <2>1, <2>2, <2>3 DEF PrefixInv
<1>13. ASSUME WalkInv PROVE WalkInv'
  <2>1. \A g \in Files : Copied(g) => Copied(g)'
    BY <1>1, <1>3 DEF Copied, NoCoincidence
  <2>2. AfterStat => cur \in Files BY DEF BaseInv, StageInv, AfterStat
  <2>3. QED BY <1>1, <1>3, <1>13, <2>1, <2>2 DEF WalkInv, InFile, AfterStat
<1>14. CountInv' BY DEF CountInv
<1>15. QED BY <1>4, <1>5, <1>7, <1>12, <1>13, <1>14 DEF BaseInv

LEMMA ChangePreserves ==
  ASSUME BaseInv, NEW f \in Files, NEW inPlace \in BOOLEAN, Change(f, inPlace) \/ Vanish(f)
  PROVE  /\ BaseInv' /\ (PrefixInv => PrefixInv') /\ (WalkInv => WalkInv') /\ CountInv'
<1>1. CASE Change(f, inPlace)
  <2>1. /\ src[f] < now /\ src' = [src EXCEPT ![f] = now] /\ changed' = changed \cup {f}
        /\ handle' = handle \/ (cur = f /\ handle = src[f] /\ handle # 0 /\ handle' = now)
        /\ UNCHANGED <<now, root, target, pc, jobs, todo, cur, seen, offset, count>>
    BY <1>1 DEF Change
  <2>2. QED BY <2>1, SourcePreserves
<1>2. CASE Vanish(f)
  <2>1. /\ src[f] < now /\ src' = [src EXCEPT ![f] = 0] /\ changed' = changed \cup {f}
        /\ handle' = handle
        /\ UNCHANGED <<now, root, target, pc, jobs, todo, cur, seen, offset, count>>
    BY <1>2 DEF Vanish, walk
  <2>2. QED BY <2>1, SourcePreserves
<1>3. QED BY <1>1, <1>2

-----------------------------------------------------------------------------
(* The chunks of a set of files *)

LEMMA OneTo == \A n \in Nat : IsFiniteSet(1 .. n) /\ Cardinality(1 .. n) = n
<1> TAKE n \in Nat
<1>1. 1 \in Int /\ n \in Int OBVIOUS
<1>2. /\ IsFiniteSet(1 .. n) /\ Cardinality(1 .. n) = IF 1 > n THEN 0 ELSE n - 1 + 1
  BY <1>1, FS_Interval
<1>3. QED BY <1>2

LEMMA ChunksFinite ==
  ASSUME BaseInv, NEW S \in SUBSET Files
  PROVE  /\ IsFiniteSet(S) /\ Cardinality(S) \in Nat
         /\ IsFiniteSet(Chunks(S)) /\ Cardinality(Chunks(S)) \in Nat
         /\ Cardinality({}) = 0 /\ Cardinality(Chunks({})) = 0
<1>1. IsFiniteSet(S) BY RelayAssumption, FS_Subset
<1> DEFINE parts == {{f} \X (1 .. Stat(src[f]).size) : f \in S}
           part == [f \in S |-> {f} \X (1 .. Stat(src[f]).size)]
<1>2. \A f \in S : IsFiniteSet({f} \X (1 .. Stat(src[f]).size))
  <2> TAKE f \in S
  <2>1. Stat(src[f]).size \in Nat BY StatFacts DEF BaseInv, TypeOK
  <2>2. IsFiniteSet({f}) BY FS_Singleton
  <2>3. IsFiniteSet(1 .. Stat(src[f]).size) BY <2>1, OneTo
  <2>4. QED BY <2>2, <2>3, FS_Product
<1>3. IsFiniteSet(parts)
  <2>1. part \in Surjection(S, parts) BY DEF Surjection
  <2> HIDE DEF part, parts
  <2>2. QED BY <1>1, <2>1, FS_Surjection
<1>4. IsFiniteSet(UNION parts)
  <2>1. \A T \in parts : IsFiniteSet(T) BY <1>2
  <2> HIDE DEF parts
  <2>2. QED BY <1>3, <2>1, FS_UNION
<1>5. Chunks({}) = {} BY DEF Chunks
<1>6. QED BY <1>1, <1>4, <1>5, FS_CardinalityType, FS_EmptySet DEF Chunks

LEMMA ChunksAdd ==
  ASSUME BaseInv, NEW S \in SUBSET Files, NEW f \in Files, f \notin S
  PROVE  /\ Cardinality(S \cup {f}) = Cardinality(S) + 1
         /\ Cardinality(Chunks(S \cup {f})) = Cardinality(Chunks(S)) + Stat(src[f]).size
<1> DEFINE own == {f} \X (1 .. Stat(src[f]).size)
<1>1. Stat(src[f]).size \in Nat BY StatFacts DEF BaseInv, TypeOK
<1>2. IsFiniteSet(own) /\ Cardinality(own) = Stat(src[f]).size
  <2>1. IsFiniteSet({f}) /\ Cardinality({f}) = 1 BY FS_Singleton
  <2>2. /\ IsFiniteSet(1 .. Stat(src[f]).size)
        /\ Cardinality(1 .. Stat(src[f]).size) = Stat(src[f]).size
    BY <1>1, OneTo
  <2>3. /\ IsFiniteSet(own)
        /\ Cardinality(own) = Cardinality({f}) * Cardinality(1 .. Stat(src[f]).size)
    BY <2>1, <2>2, FS_Product
  <2>4. QED BY <1>1, <2>1, <2>2, <2>3
<1>3. /\ IsFiniteSet(S) /\ IsFiniteSet(Chunks(S)) /\ Cardinality(Chunks(S)) \in Nat
  BY ChunksFinite
<1>4. Chunks(S \cup {f}) = Chunks(S) \cup own BY DEF Chunks
<1>5. Chunks(S) \cap own = {} BY DEF Chunks
<1>6. Cardinality({}) = 0 BY FS_EmptySet
<1> HIDE DEF own
<1>7. Cardinality(Chunks(S) \cup own) = Cardinality(Chunks(S)) + Cardinality(own) - Cardinality(Chunks(S) \cap own)
  BY <1>2, <1>3, FS_Union
<1>8. Cardinality(S \cup {f}) = Cardinality(S) + 1 BY <1>3, FS_AddElement
<1>9. Cardinality(Chunks(S) \cap own) = 0 BY <1>5, <1>6
<1>10. Cardinality(Chunks(S \cup {f})) = Cardinality(Chunks(S)) + Stat(src[f]).size - 0
  BY <1>2, <1>4, <1>7, <1>9
<1>11. QED BY <1>1, <1>3, <1>8, <1>10

-----------------------------------------------------------------------------
(* The walks *)

(* Between the source's changes the chunks stay what they are. *)
LEMMA SameChunks ==
  ASSUME src' = src
  PROVE  /\ Existing' = Existing
         /\ \A S : Chunks(S)' = Chunks(S)
BY DEF Existing, Chunks

LEMMA OneFile ==
  ASSUME BaseInv, NEW f \in Files
  PROVE  Cardinality({f}) = 1 /\ Cardinality(Chunks({f})) = Stat(src[f]).size
<1>1. Stat(src[f]).size \in Nat BY StatFacts DEF BaseInv, TypeOK
<1>2. {} \in SUBSET Files /\ f \notin {} /\ {f} = {} \cup {f} OBVIOUS
<1>3. /\ Cardinality({} \cup {f}) = Cardinality({}) + 1
      /\ Cardinality(Chunks({} \cup {f})) = Cardinality(Chunks({})) + Stat(src[f]).size
  BY <1>2, ChunksAdd
<1>4. Cardinality({}) = 0 /\ Cardinality(Chunks({})) = 0 BY <1>2, ChunksFinite
<1>5. QED BY <1>1, <1>2, <1>3, <1>4

LEMMA RelayPreserves ==
  ASSUME BaseInv, relay_transfer
  PROVE  /\ BaseInv' /\ (PrefixInv => PrefixInv') /\ (PrefixInv /\ WalkInv => WalkInv')
         /\ (CountInv => CountInv')
<1> DEFINE s == Stat(src[root])
           skip == is_up_to_date(s, tgt[root])
           one == [filesTotal |-> 1, filesDone |-> IF skip THEN 1 ELSE 0,
                   bytesTotal |-> s.size, bytesDone |-> IF skip THEN s.size ELSE 0]
           CaseDir == /\ root = "dir" /\ pc' = "counting" /\ todo' = Existing
                      /\ count' = ZeroCount /\ cur' = cur
           CaseNone == /\ root # "dir" /\ pc' = "failed" /\ count' = ZeroCount
                       /\ todo' = todo /\ cur' = cur
           CaseFile == /\ root # "dir" /\ src[root] # 0
                       /\ pc' = IF skip THEN "verifying" ELSE "stat"
                       /\ cur' = IF skip THEN "none" ELSE root
                       /\ count' = one /\ todo' = todo
<1>1. /\ AtRest /\ jobs < MaxJobs /\ jobs' = jobs + 1 /\ changed' = {}
      /\ CaseDir \/ CaseNone \/ CaseFile
      /\ UNCHANGED <<now, root, src, target, seen, offset, handle>>
  BY Zenon DEF relay_transfer
<1>2. /\ now' = now /\ root' = root /\ src' = src /\ tgt' = tgt /\ partial' = partial
      /\ meta' = meta /\ seen' = seen /\ offset' = offset /\ handle' = handle
  BY <1>1 DEF target
<1>3. /\ pc \in {"idle", "completed", "failed"}
      /\ pc' \in {"counting", "failed", "verifying", "stat"}
      /\ pc' = "counting" => root = "dir"
      /\ pc' = "stat" => root # "dir" /\ cur' = root /\ CaseFile /\ ~skip
      /\ pc' = "verifying" => root # "dir" /\ CaseFile /\ skip
  BY <1>1 DEF AtRest
<1>4. CaseFile => root \in Files /\ s.size \in Nat /\ s.mtime = src[root]
  <2>1. CaseFile => root \in Files BY DEF BaseInv, TypeOK
  <2>2. root \in Files => src[root] \in Version0 BY DEF BaseInv, TypeOK
  <2>3. QED BY <2>1, <2>2, StatFacts
<1>5. CaseFile => one \in [filesTotal : Nat, filesDone : Nat, bytesTotal : Nat, bytesDone : Nat]
  BY <1>4
<1>6. TypeOK'
  <2>1. count' \in [filesTotal : Nat, filesDone : Nat, bytesTotal : Nat, bytesDone : Nat]
    BY <1>1, <1>5 DEF ZeroCount
  <2>2. jobs' \in 0 .. MaxJobs BY <1>1, RelayAssumption DEF BaseInv, TypeOK
  <2>3. todo' \subseteq Files BY <1>1 DEF BaseInv, TypeOK, Existing
  <2>4. cur' \in Files \cup {"none"} BY <1>1, <1>4 DEF BaseInv, TypeOK
  <2>5. pc' \in PC /\ changed' \subseteq Files BY <1>1, <1>3 DEF PC
  <2>6. QED BY <1>2, <2>1, <2>2, <2>3, <2>4, <2>5 DEF BaseInv, TypeOK
<1>7. StageInv' BY <1>2, <1>3, <1>4 DEF StageInv, InFile
<1>8. PastInv' BY <1>2, <1>3 DEF BaseInv, PastInv, Past, AfterStat, InFile
<1>9. ASSUME PrefixInv PROVE PrefixInv'
  BY <1>2, <1>3, <1>9 DEF PrefixInv, SidecarInv, CopyInv, StampInv, NoCoincidence
<1>10. ASSUME PrefixInv PROVE WalkInv'
  <2>1. pc' = "verifying" => Copied(root)'
    <3>1. pc' = "verifying" => tgt[root].mtime = src[root]
      BY <1>3, <1>4 DEF is_up_to_date
    <3>2. QED BY <1>2, <1>3, <1>4, <1>10, <3>1 DEF PrefixInv, StampInv, Copied, NoCoincidence
  <2>2. QED BY <1>2, <1>3, <2>1 DEF WalkInv, AfterStat, InFile
<1>11. CountInv'
  <2>1. Existing' = Existing /\ \A S : Chunks(S)' = Chunks(S) BY <1>2, SameChunks
  <2>2. CASE CaseDir
    <3>1. (Existing \ todo)' = {} BY <2>1, <2>2
    <3>2. Cardinality({}) = 0 /\ Cardinality(Chunks({})) = 0 BY ChunksFinite
    <3>3. pc' = "counting" /\ root' = "dir" /\ todo' = Existing' /\ count' = ZeroCount
      BY <1>2, <2>1, <2>2
    <3>4. Counts(count.filesTotal, count.bytesTotal, Existing \ todo, 0)'
      BY <2>1, <3>1, <3>2, <3>3 DEF Counts, ZeroCount
    <3>5. QED BY <3>3, <3>4 DEF CountInv, InFile, ZeroCount
  <2>3. CASE CaseNone BY <2>3 DEF CountInv, InFile
  <2>4. CASE CaseFile
    <3>1. Cardinality({root}) = 1 /\ Cardinality(Chunks({root})) = s.size /\ s.size \in Nat
      BY <1>4, <2>4, OneFile
    <3>2. Cardinality({}) = 0 /\ Cardinality(Chunks({})) = 0 BY ChunksFinite
    <3>3. SourceTree' = {root} BY <1>2, <1>4, <2>1, <2>4 DEF SourceTree, Existing
    <3>4. /\ count'.filesTotal = 1 /\ count'.bytesTotal = s.size
          /\ count'.filesDone = (IF skip THEN 1 ELSE 0)
          /\ count'.bytesDone = (IF skip THEN s.size ELSE 0)
      BY <2>4
    <3>5. Counts(count.filesTotal, count.bytesTotal, SourceTree, 0)'
      BY <2>1, <3>1, <3>3, <3>4 DEF Counts
    <3>6. CASE skip
      BY <1>3, <2>4, <3>4, <3>5, <3>6 DEF CountInv, InFile, CountersAgree
    <3>7. CASE ~skip
      <4>1. pc' = "stat" /\ cur' = root /\ src'[cur'] # 0 /\ root' # "dir"
        BY <1>2, <2>4, <3>7
      <4>2. Counts(count.filesDone, count.bytesDone, {}, 0)'
        BY <2>1, <3>2, <3>4, <3>7 DEF Counts
      <4>3. QED BY <3>5, <4>1, <4>2 DEF CountInv, InFile, FileCountInv, DoneBefore, Extra
    <3>8. QED BY <3>6, <3>7
  <2>5. QED BY <1>1, <2>2, <2>3, <2>4
<1>12. QED BY <1>6, <1>7, <1>8, <1>9, <1>10, <1>11 DEF BaseInv

CountType == [filesTotal : Nat, filesDone : Nat, bytesTotal : Nat, bytesDone : Nat]

(* What an update of two counters of c, or of one, leaves. *)
TotalsAre(c, d, m, n) ==
  /\ d \in CountType /\ d.filesTotal = m /\ d.bytesTotal = n
  /\ d.filesDone = c.filesDone /\ d.bytesDone = c.bytesDone
DoneIs(c, d, m, n) ==
  /\ d \in CountType /\ d.filesDone = m /\ d.bytesDone = n
  /\ d.filesTotal = c.filesTotal /\ d.bytesTotal = c.bytesTotal

LEMMA CountUpdates ==
  ASSUME NEW c \in CountType, NEW m \in Nat, NEW n \in Nat
  PROVE  /\ TotalsAre(c, [c EXCEPT !.filesTotal = m, !.bytesTotal = n], m, n)
         /\ DoneIs(c, [c EXCEPT !.filesDone = m, !.bytesDone = n], m, n)
         /\ DoneIs(c, [c EXCEPT !.filesDone = m], m, c.bytesDone)
         /\ DoneIs(c, [c EXCEPT !.bytesDone = n], c.filesDone, n)
BY DEF CountType, TotalsAre, DoneIs

(* One more file is counted. *)
LEMMA CountsAdd ==
  ASSUME BaseInv, NEW S \in SUBSET Files, NEW f \in Files, f \notin S,
         NEW files \in Nat, NEW bytes \in Nat, Counts(files, bytes, S, 0)
  PROVE  Counts(files + 1, bytes + Stat(src[f]).size, S \cup {f}, 0)
<1>1. /\ Cardinality(S \cup {f}) = Cardinality(S) + 1
      /\ Cardinality(Chunks(S \cup {f})) = Cardinality(Chunks(S)) + Stat(src[f]).size
  BY ChunksAdd
<1>2. Cardinality(S) \in Nat /\ Cardinality(Chunks(S)) \in Nat BY ChunksFinite
<1>3. Stat(src[f]).size \in Nat BY StatFacts DEF BaseInv, TypeOK
<1>4. QED BY <1>1, <1>2, <1>3 DEF Counts

LEMMA CountTreePreserves ==
  ASSUME BaseInv, count_tree
  PROVE  /\ BaseInv' /\ (PrefixInv => PrefixInv') /\ (WalkInv => WalkInv')
         /\ (CountInv => CountInv')
<1> DEFINE more(f) == [count EXCEPT !.filesTotal = @ + 1, !.bytesTotal = @ + Stat(src[f]).size]
           Visit(f) == /\ todo' = todo \ {f} /\ pc' = pc
                       /\ count' = IF src[f] = 0 THEN count ELSE more(f)
           Done == todo = {} /\ todo' = Existing /\ pc' = "walking" /\ count' = count
<1>1. /\ pc = "counting"
      /\ (\E f \in todo : Visit(f)) \/ Done
      /\ UNCHANGED <<now, root, src, target, jobs, cur, seen, offset, handle, changed>>
  BY Zenon DEF count_tree
<1>2. /\ now' = now /\ root' = root /\ src' = src /\ tgt' = tgt /\ partial' = partial
      /\ meta' = meta /\ seen' = seen /\ offset' = offset /\ handle' = handle
      /\ jobs' = jobs /\ cur' = cur /\ changed' = changed /\ root = "dir"
  BY <1>1 DEF target, BaseInv, StageInv
<1>3. \A f \in Files : /\ Stat(src[f]).size \in Nat
                       /\ more(f) \in CountType
                       /\ more(f).filesTotal = count.filesTotal + 1
                       /\ more(f).bytesTotal = count.bytesTotal + Stat(src[f]).size
                       /\ more(f).filesDone = count.filesDone /\ more(f).bytesDone = count.bytesDone
  <2> TAKE f \in Files
  <2>1. Stat(src[f]).size \in Nat BY StatFacts DEF BaseInv, TypeOK
  <2>2. count \in CountType BY DEF BaseInv, TypeOK, CountType
  <2>3. count.filesTotal + 1 \in Nat /\ count.bytesTotal + Stat(src[f]).size \in Nat
    BY <2>1, <2>2 DEF CountType
  <2>4. TotalsAre(count, more(f), count.filesTotal + 1, count.bytesTotal + Stat(src[f]).size)
    BY <2>2, <2>3, CountUpdates, Zenon
  <2>5. QED BY <2>1, <2>4 DEF TotalsAre
<1>4. /\ todo \subseteq Files /\ count \in CountType
      /\ count.filesTotal \in Nat /\ count.bytesTotal \in Nat
  BY DEF BaseInv, TypeOK, CountType
<1> HIDE DEF more
<1>5. pc' \in {"counting", "walking"} BY <1>1
<1>6. TypeOK'
  <2>1. todo' \subseteq Files /\ count' \in CountType
    BY <1>1, <1>3, <1>4 DEF Existing
  <2>2. QED BY <1>2, <1>5, <2>1 DEF BaseInv, TypeOK, PC, CountType
<1>7. StageInv' BY <1>2, <1>5 DEF StageInv, InFile
<1>8. PastInv' BY <1>2, <1>5 DEF BaseInv, PastInv, Past, AfterStat, InFile
<1>9. ASSUME PrefixInv PROVE PrefixInv'
  BY <1>1, <1>2, <1>5, <1>9 DEF PrefixInv, SidecarInv, CopyInv, StampInv, NoCoincidence
<1>10. WalkInv'
  BY <1>1, <1>2, <1>5 DEF WalkInv, AfterStat, InFile, Copied, Existing
<1>11. ASSUME CountInv PROVE CountInv'
  <2> SUFFICES ASSUME changed = {} PROVE CountInv' BY <1>2 DEF CountInv
  <2>1. Existing' = Existing /\ (\A S : Chunks(S)' = Chunks(S)) /\ Existing \subseteq Files
    BY <1>2, SameChunks DEF Existing
  <2>2. /\ todo \subseteq Existing /\ count.filesDone = 0 /\ count.bytesDone = 0
        /\ Counts(count.filesTotal, count.bytesTotal, Existing \ todo, 0)
    BY <1>1, <1>11 DEF CountInv
  <2>3. ASSUME NEW f \in todo, Visit(f) PROVE CountInv'
    <3>1. src[f] # 0 /\ f \in Files BY <2>2 DEF Existing
    <3>2. Existing \ todo' = (Existing \ todo) \cup {f} BY <2>2, <2>3
    <3>3. (Existing \ todo) \in SUBSET Files /\ f \notin Existing \ todo BY <2>1
    <3>4. Counts(count.filesTotal + 1, count.bytesTotal + Stat(src[f]).size,
                 (Existing \ todo) \cup {f}, 0)
      BY <1>4, <2>2, <3>1, <3>3, CountsAdd
    <3>5. count' = more(f) BY <2>3, <3>1
    <3>6. Counts(count.filesTotal, count.bytesTotal, Existing \ todo, 0)'
      BY <1>3, <2>1, <3>1, <3>2, <3>4, <3>5 DEF Counts
    <3>7. todo' \subseteq Existing' /\ pc' = "counting" BY <1>1, <2>1, <2>2, <2>3
    <3>8. count'.filesDone = 0 /\ count'.bytesDone = 0 BY <1>3, <2>2, <3>1, <3>5
    <3>9. QED BY <3>6, <3>7, <3>8 DEF CountInv, InFile
  <2>4. ASSUME Done PROVE CountInv'
    <3>1. Existing \ todo = Existing /\ Existing \ todo' = {} BY <2>4
    <3>2. Cardinality({}) = 0 /\ Cardinality(Chunks({})) = 0 BY ChunksFinite
    <3>3. SourceTree' = Existing BY <1>2, <2>1 DEF SourceTree
    <3>4. Counts(count.filesTotal, count.bytesTotal, SourceTree, 0)'
      BY <2>1, <2>2, <2>4, <3>1, <3>3 DEF Counts
    <3>5. Counts(count.filesDone, count.bytesDone, Existing \ todo, 0)'
      BY <2>1, <2>2, <2>4, <3>1, <3>2 DEF Counts
    <3>6. QED BY <2>1, <2>4, <3>4, <3>5 DEF CountInv, InFile
  <2>5. QED BY <1>1, <2>3, <2>4
<1>12. QED BY <1>6, <1>7, <1>8, <1>9, <1>10, <1>11 DEF BaseInv

LEMMA RelayDirPreserves ==
  ASSUME BaseInv, relay_dir
  PROVE  /\ BaseInv' /\ (PrefixInv => PrefixInv') /\ (PrefixInv /\ WalkInv => WalkInv')
         /\ (CountInv => CountInv')
<1> DEFINE s(f) == Stat(src[f])
           skip(f) == is_up_to_date(s(f), tgt[f])
           more(f) == [count EXCEPT !.filesDone = @ + 1, !.bytesDone = @ + s(f).size]
           Visit(f) == /\ todo' = todo \ {f}
                       /\ pc' = IF src[f] = 0 \/ skip(f) THEN "walking" ELSE "stat"
                       /\ cur' = IF src[f] = 0 \/ skip(f) THEN cur ELSE f
                       /\ count' = IF src[f] # 0 /\ skip(f) THEN more(f) ELSE count
           Done == /\ todo = {} /\ pc' = "verifying"
                   /\ todo' = todo /\ cur' = cur /\ count' = count
<1>1. /\ pc = "walking"
      /\ (\E f \in todo : Visit(f)) \/ Done
      /\ UNCHANGED <<now, root, src, target, jobs, seen, offset, handle, changed>>
  BY Zenon DEF relay_dir
<1>2. /\ now' = now /\ root' = root /\ src' = src /\ tgt' = tgt /\ partial' = partial
      /\ meta' = meta /\ seen' = seen /\ offset' = offset /\ handle' = handle
      /\ jobs' = jobs /\ changed' = changed /\ root = "dir"
  BY <1>1 DEF target, BaseInv, StageInv
<1>3. \A f \in Files : /\ s(f).size \in Nat /\ s(f).mtime = src[f]
                       /\ more(f) \in CountType
                       /\ more(f).filesDone = count.filesDone + 1
                       /\ more(f).bytesDone = count.bytesDone + s(f).size
                       /\ more(f).filesTotal = count.filesTotal /\ more(f).bytesTotal = count.bytesTotal
  <2> TAKE f \in Files
  <2>1. s(f).size \in Nat /\ s(f).mtime = src[f] BY StatFacts DEF BaseInv, TypeOK
  <2>2. count \in CountType BY DEF BaseInv, TypeOK, CountType
  <2> HIDE DEF s
  <2>3. count.filesDone + 1 \in Nat /\ count.bytesDone + s(f).size \in Nat
    BY <2>1, <2>2 DEF CountType
  <2>4. DoneIs(count, more(f), count.filesDone + 1, count.bytesDone + s(f).size)
    BY <2>2, <2>3, CountUpdates, Zenon
  <2>5. QED BY <2>1, <2>4 DEF DoneIs
<1>4. /\ todo \subseteq Files /\ count \in CountType /\ cur \in Files \cup {"none"}
      /\ count.filesDone \in Nat /\ count.bytesDone \in Nat
  BY DEF BaseInv, TypeOK, CountType
<1>5. \A f \in Files : skip(f) => tgt[f].mtime = src[f] BY <1>3 DEF is_up_to_date
<1> HIDE DEF more, skip, s
<1>6. /\ pc' \in {"walking", "stat", "verifying"}
      /\ pc' = "stat" => cur' \in Files /\ cur' \notin todo'
  BY <1>1, <1>4
<1>7. TypeOK'
  <2>1. todo' \subseteq Files /\ count' \in CountType /\ cur' \in Files \cup {"none"}
    BY <1>1, <1>3, <1>4
  <2>2. QED BY <1>2, <1>6, <2>1 DEF BaseInv, TypeOK, PC, CountType
<1>8. StageInv' BY <1>2, <1>6 DEF StageInv, InFile
<1>9. PastInv' BY <1>2, <1>6 DEF BaseInv, PastInv, Past, AfterStat, InFile
<1>10. ASSUME PrefixInv PROVE PrefixInv'
  BY <1>1, <1>2, <1>6, <1>10 DEF PrefixInv, SidecarInv, CopyInv, StampInv, NoCoincidence
<1>11. ASSUME PrefixInv, WalkInv PROVE WalkInv'
  <2>1. \A f \in Files \ todo : Copied(f)' BY <1>1, <1>2, <1>11 DEF WalkInv, Copied, NoCoincidence
  <2>2. ASSUME NEW f \in todo, Visit(f) PROVE WalkInv'
    <3>1. src[f] = 0 \/ skip(f) => Copied(f)'
      BY <1>2, <1>4, <1>5, <1>11 DEF PrefixInv, StampInv, Copied, NoCoincidence
    <3>2. CASE src[f] = 0 \/ skip(f)
      <4>1. pc' = "walking" /\ \A g \in Files \ todo' : Copied(g)' BY <2>1, <2>2, <3>1, <3>2
      <4>2. QED BY <4>1 DEF WalkInv, AfterStat, InFile
    <3>3. CASE ~(src[f] = 0 \/ skip(f))
      <4>1. pc' = "stat" /\ \A g \in Files \ (todo' \cup {cur'}) : Copied(g)'
        BY <2>1, <2>2, <3>3
      <4>2. QED BY <4>1 DEF WalkInv, AfterStat, InFile
    <3>4. QED BY <3>2, <3>3
  <2>3. ASSUME Done PROVE WalkInv'
    BY <2>1, <2>3 DEF WalkInv, AfterStat, InFile
  <2>4. QED BY <1>1, <2>2, <2>3
<1>12. ASSUME CountInv PROVE CountInv'
  <2> SUFFICES ASSUME changed = {} PROVE CountInv' BY <1>2 DEF CountInv
  <2>1. Existing' = Existing /\ (\A S : Chunks(S)' = Chunks(S)) /\ Existing \subseteq Files
    BY <1>2, SameChunks DEF Existing
  <2>2. /\ todo \subseteq Existing
        /\ Counts(count.filesTotal, count.bytesTotal, Existing, 0)
        /\ Counts(count.filesDone, count.bytesDone, Existing \ todo, 0)
    BY <1>1, <1>2, <1>12 DEF CountInv, SourceTree
  <2>3. SourceTree' = Existing BY <1>2, <2>1 DEF SourceTree
  <2>4. ASSUME NEW f \in todo, Visit(f) PROVE CountInv'
    <3>1. src[f] # 0 /\ f \in Files BY <2>2 DEF Existing
    <3>2. todo' = todo \ {f} /\ todo' \subseteq Existing' BY <2>1, <2>2, <2>4
    <3>3. CASE skip(f)
      <4>1. count' = more(f) /\ pc' = "walking" BY <2>4, <3>1, <3>3
      <4>2. Existing \ todo' = (Existing \ todo) \cup {f} BY <2>2, <3>2
      <4>3. (Existing \ todo) \in SUBSET Files /\ f \notin Existing \ todo BY <2>1
      <4>4. Counts(count.filesDone + 1, count.bytesDone + s(f).size,
                   (Existing \ todo) \cup {f}, 0)
        BY <1>4, <2>2, <3>1, <4>3, CountsAdd DEF s
      <4>5. Counts(count.filesDone, count.bytesDone, Existing \ todo, 0)'
        BY <1>3, <2>1, <3>1, <4>1, <4>2, <4>4 DEF Counts
      <4>6. Counts(count.filesTotal, count.bytesTotal, SourceTree, 0)'
        BY <1>3, <2>1, <2>2, <2>3, <3>1, <4>1 DEF Counts
      <4>7. QED BY <3>2, <4>1, <4>5, <4>6 DEF CountInv, InFile
    <3>4. CASE ~skip(f)
      <4>1. count' = count /\ pc' = "stat" /\ cur' = f BY <2>4, <3>1, <3>4
      <4>2. Existing' \ (todo' \cup {cur'}) = Existing \ todo BY <2>1, <3>2, <4>1, <2>4
      <4>3. Counts(count.filesDone, count.bytesDone, Existing \ (todo \cup {cur}), 0)'
        BY <2>1, <2>2, <4>1, <4>2 DEF Counts
      <4>4. Counts(count.filesTotal, count.bytesTotal, SourceTree, 0)'
        BY <2>1, <2>2, <2>3, <4>1 DEF Counts
      <4>5. src'[cur'] # 0 /\ root' = "dir" BY <1>2, <3>1, <4>1
      <4>6. QED BY <3>2, <4>1, <4>3, <4>4, <4>5
            DEF CountInv, InFile, FileCountInv, DoneBefore, Extra
    <3>5. QED BY <3>3, <3>4
  <2>5. ASSUME Done PROVE CountInv'
    <3>1. Existing \ todo = Existing /\ count' = count /\ pc' = "verifying" BY <2>5
    <3>2. Counts(count.filesTotal, count.bytesTotal, SourceTree, 0)'
      BY <2>1, <2>2, <2>3, <3>1 DEF Counts
    <3>3. CountersAgree' BY <2>2, <3>1 DEF CountersAgree, Counts
    <3>4. QED BY <3>1, <3>2, <3>3 DEF CountInv, InFile
  <2>6. QED BY <1>1, <2>4, <2>5
<1>13. QED BY <1>7, <1>8, <1>9, <1>10, <1>11, <1>12 DEF BaseInv

-----------------------------------------------------------------------------
(* _relay_file *)

(* A step inside _relay_file leaves the totals and the files done before.    *)
LEMMA InFileCounts ==
  ASSUME CountInv, InFile, InFile', src' = src, root' = root, todo' = todo, cur' = cur,
         changed' = changed, count'.filesTotal = count.filesTotal,
         count'.bytesTotal = count.bytesTotal,
         changed = {} /\ FileCountInv /\ DoneBefore' = DoneBefore
           /\ (\A S : Chunks(S)' = Chunks(S)) /\ Existing' = Existing => FileCountInv'
  PROVE  CountInv'
<1> SUFFICES ASSUME changed = {} PROVE CountInv' BY DEF CountInv
<1>1. Existing' = Existing /\ \A S : Chunks(S)' = Chunks(S) BY SameChunks
<1>2. DoneBefore' = DoneBefore /\ SourceTree' = SourceTree BY <1>1 DEF DoneBefore, SourceTree
<1>3. FileCountInv /\ Counts(count.filesTotal, count.bytesTotal, SourceTree, 0)
  BY DEF CountInv
<1>4. FileCountInv' BY <1>1, <1>2, <1>3
<1>5. Counts(count.filesTotal, count.bytesTotal, SourceTree, 0)'
  BY <1>1, <1>2, <1>3 DEF Counts
<1>6. QED BY <1>4, <1>5 DEF CountInv, InFile

LEMMA StatSourcePreserves ==
  ASSUME BaseInv, StatSource
  PROVE  /\ BaseInv' /\ (PrefixInv => PrefixInv') /\ (WalkInv => WalkInv')
         /\ (CountInv => CountInv')
<1>1. /\ pc = "stat" /\ seen' = Stat(src[cur]) /\ offset' = resume_offset(cur, seen')
      /\ pc' = (IF offset' > 0 THEN "open" ELSE "meta")
      /\ count' = [count EXCEPT !.bytesDone = @ + offset']
      /\ now' = now /\ root' = root /\ src' = src /\ tgt' = tgt /\ partial' = partial
      /\ meta' = meta /\ jobs' = jobs /\ todo' = todo /\ cur' = cur /\ handle' = handle
      /\ changed' = changed
  BY DEF StatSource, target
<1>2. InFile /\ cur \in Files BY <1>1 DEF BaseInv, StageInv, InFile
<1>3. /\ src[cur] \in Version0 /\ seen' \in Stats /\ seen'.mtime = src[cur]
      /\ seen'.size = Stat(src[cur]).size /\ seen'.size \in Nat
  <2>1. src[cur] \in Version0 BY <1>2 DEF BaseInv, TypeOK
  <2>2. QED BY <1>1, <2>1, StatFacts
<1>4. partial[cur].data \in Seq(Versions) /\ Len(partial[cur].data) \in Nat
  BY <1>2 DEF BaseInv, TypeOK, FileStates
<1>5. /\ offset' \in Nat
      /\ offset' > 0 => /\ Exists(partial[cur]) /\ meta[cur] = seen'
                        /\ offset' = Len(partial[cur].data) /\ offset' <= seen'.size
                        /\ src[cur] # 0
  <2>1. /\ offset' \in Nat
        /\ offset' > 0 => /\ Exists(partial[cur]) /\ meta[cur] = seen'
                          /\ offset' = Len(partial[cur].data) /\ offset' <= seen'.size
    BY <1>1, <1>4 DEF resume_offset
  <2>2. offset' > 0 => seen'.size > 0 BY <1>3, <2>1
  <2>3. QED BY <1>3, <2>1, <2>2, StatFacts
<1>6. /\ pc' \in {"open", "meta"} /\ (pc' = "open" <=> offset' > 0)
      /\ pc' = "meta" => offset' = 0
  BY <1>1, <1>5
<1>7. DoneIs(count, count', count.filesDone, count.bytesDone + offset')
  <2>1. count \in CountType BY DEF BaseInv, TypeOK, CountType
  <2>2. count.bytesDone + offset' \in Nat BY <1>5, <2>1 DEF CountType
  <2>3. QED BY <1>1, <2>1, <2>2, CountUpdates
<1>8. TypeOK' BY <1>1, <1>3, <1>5, <1>6, <1>7 DEF BaseInv, TypeOK, PC, DoneIs, CountType
<1>9. StageInv' BY <1>1, <1>2, <1>5, <1>6 DEF BaseInv, StageInv, InFile, Exists
<1>10. PastInv'
  BY <1>1, <1>2, <1>3, Clock DEF BaseInv, TypeOK, PastInv, Past
<1>11. ASSUME PrefixInv PROVE PrefixInv'
  <2>1. offset' > 0 => IsPrefixOf(partial[cur].data, src[cur])
    BY <1>1, <1>2, <1>3, <1>5, <1>11 DEF PrefixInv, SidecarInv
  <2>2. SidecarInv'
    BY <1>1, <1>2, <1>3, <1>5, <1>6, <1>11, <2>1 DEF PrefixInv, SidecarInv
  <2>3. QED BY <1>1, <1>6, <1>11, <2>2 DEF PrefixInv, CopyInv, StampInv, NoCoincidence
<1>12. ASSUME WalkInv PROVE WalkInv'
  BY <1>1, <1>2, <1>3, <1>6, <1>12 DEF WalkInv, InFile, AfterStat, Copied, NoCoincidence
<1>13. ASSUME CountInv PROVE CountInv'
  <2>1. ASSUME changed = {}, FileCountInv, DoneBefore' = DoneBefore,
               \A S : Chunks(S)' = Chunks(S), Existing' = Existing
        PROVE  FileCountInv'
    <3>1. Extra = 0 /\ Extra' = offset' BY <1>1, <1>6 DEF Extra
    <3>2. Counts(count.filesDone, count.bytesDone, DoneBefore, Extra)'
      <4>1. DoneBefore \subseteq Files BY DEF DoneBefore, Existing
      <4>2. Cardinality(Chunks(DoneBefore)) \in Nat BY <4>1, ChunksFinite
      <4>3. QED BY <1>5, <1>7, <2>1, <3>1, <4>2 DEF FileCountInv, Counts, DoneIs
    <3>3. QED BY <1>1, <1>3, <1>5, <1>6, <2>1, <3>2 DEF FileCountInv
  <2>2. InFile' BY <1>6 DEF InFile
  <2>3. QED BY <1>1, <1>2, <1>7, <1>13, <2>1, <2>2, InFileCounts DEF DoneIs
<1>14. QED BY <1>8, <1>9, <1>10, <1>11, <1>12, <1>13 DEF BaseInv

(* _write_meta *)
LEMMA MetaPreserves ==
  ASSUME BaseInv, TruncateMeta \/ WriteMeta
  PROVE  /\ BaseInv' /\ (PrefixInv => PrefixInv') /\ (WalkInv => WalkInv')
         /\ (CountInv => CountInv')
<1>1. /\ \/ pc = "meta" /\ pc' = "metaWrite" /\ meta' = [meta EXCEPT ![cur] = NoStat]
         \/ pc = "metaWrite" /\ pc' = "open" /\ meta' = [meta EXCEPT ![cur] = seen]
      /\ now' = now /\ root' = root /\ src' = src /\ tgt' = tgt /\ partial' = partial
      /\ jobs' = jobs /\ todo' = todo /\ cur' = cur /\ seen' = seen /\ offset' = offset
      /\ handle' = handle /\ count' = count /\ changed' = changed
  BY DEF TruncateMeta, WriteMeta, target, walk
<1>2. InFile /\ cur \in Files /\ offset = 0 /\ seen \in Stats /\ AfterStat
  BY <1>1 DEF BaseInv, TypeOK, StageInv, InFile, AfterStat
<1>3. /\ pc \in {"meta", "metaWrite"} /\ pc' \in {"metaWrite", "open"}
      /\ \A f \in Files : f # cur => meta'[f] = meta[f]
      /\ pc' = "metaWrite" => meta'[cur] = NoStat
      /\ pc' = "open" => meta'[cur] = seen
  BY <1>1, <1>2 DEF BaseInv, TypeOK
<1>4. TypeOK'
  <2>1. meta' \in [Files -> Stats] BY <1>1, <1>2, NoStatFacts DEF BaseInv, TypeOK
  <2>2. QED BY <1>1, <1>3, <2>1 DEF BaseInv, TypeOK, PC
<1>5. StageInv' BY <1>1, <1>2, <1>3 DEF BaseInv, StageInv, InFile
<1>6. PastInv'
  <2>1. Past(cur, 0) BY Clock DEF BaseInv, TypeOK, Past
  <2>2. Past(cur, seen.mtime) BY <1>2 DEF BaseInv, PastInv
  <2>3. \A f \in Files : Past(f, meta'[f].mtime)
    BY <1>2, <1>3, <2>1, <2>2, NoStatFacts DEF BaseInv, PastInv
  <2>4. QED BY <1>1, <1>2, <1>3, <2>3 DEF BaseInv, PastInv, Past, AfterStat, InFile
<1>7. ASSUME PrefixInv PROVE PrefixInv'
  <2>1. SidecarInv'
    BY <1>1, <1>2, <1>3, <1>7, NoStatFacts DEF PrefixInv, SidecarInv
  <2>2. QED BY <1>1, <1>3, <1>7, <2>1 DEF PrefixInv, CopyInv, StampInv, NoCoincidence
<1>8. ASSUME WalkInv PROVE WalkInv'
  BY <1>1, <1>2, <1>3, <1>8 DEF WalkInv, InFile, AfterStat, Copied, NoCoincidence
<1>9. ASSUME CountInv PROVE CountInv'
  <2>1. ASSUME changed = {}, FileCountInv, DoneBefore' = DoneBefore,
               \A S : Chunks(S)' = Chunks(S), Existing' = Existing
        PROVE  FileCountInv'
    <3>1. Extra = 0 /\ Extra' = 0 BY <1>1, <1>2, <1>3 DEF Extra
    <3>2. Counts(count.filesDone, count.bytesDone, DoneBefore, Extra)'
      BY <1>1, <2>1, <3>1 DEF FileCountInv, Counts
    <3>3. Stat(src[cur]).size \in Nat BY <1>2, StatFacts DEF BaseInv, TypeOK
    <3>4. QED BY <1>1, <1>2, <1>3, <2>1, <3>2, <3>3 DEF FileCountInv
  <2>2. InFile' BY <1>3 DEF InFile
  <2>3. QED BY <1>1, <1>2, <1>9, <2>1, <2>2, InFileCounts
<1>10. QED BY <1>4, <1>5, <1>6, <1>7, <1>8, <1>9 DEF BaseInv

(* A job ends, cut off or refused: nothing is asked of its locals any more. *)
LEMMA FailedPreserves ==
  ASSUME BaseInv, pc' = "failed", LeaveFile, todo' = {},
         UNCHANGED <<now, root, src, target, jobs, count, changed>>
  PROVE  /\ BaseInv' /\ WalkInv' /\ CountInv'
         /\ PrefixInv /\ ~(pc = "open" /\ src[cur] # 0) => PrefixInv'
<1>1. /\ now' = now /\ root' = root /\ src' = src /\ tgt' = tgt /\ partial' = partial
      /\ meta' = meta /\ jobs' = jobs /\ count' = count /\ changed' = changed
      /\ cur' = "none" /\ seen' = NoStat /\ offset' = 0 /\ handle' = 0
  BY DEF target, LeaveFile
<1>2. TypeOK' BY <1>1, Clock, NoStatFacts DEF BaseInv, TypeOK, PC
<1>3. StageInv' /\ PastInv' /\ WalkInv' /\ CountInv'
  BY <1>1 DEF BaseInv, StageInv, PastInv, Past, AfterStat, InFile, WalkInv, CountInv
<1>4. ASSUME PrefixInv, ~(pc = "open" /\ src[cur] # 0) PROVE PrefixInv'
  BY <1>1, <1>4 DEF PrefixInv, SidecarInv, CopyInv, StampInv, NoCoincidence
<1>5. QED BY <1>2, <1>3, <1>4 DEF BaseInv

LEMMA OpenPreserves ==
  ASSUME BaseInv, OpenFiles
  PROVE  /\ BaseInv' /\ (PrefixInv => PrefixInv') /\ (WalkInv => WalkInv')
         /\ (CountInv => CountInv')
<1> DEFINE Refused == /\ src[cur] = 0 /\ pc' = "failed" /\ LeaveFile /\ todo' = {}
                      /\ partial' = partial
           Opened == /\ src[cur] # 0 /\ handle' = src[cur]
                     /\ partial' = (IF offset > 0 THEN partial
                                    ELSE [partial EXCEPT ![cur] = File(<<>>, now)])
                     /\ pc' = "copying"
                     /\ UNCHANGED <<todo, cur, seen, offset>>
<1>1. /\ pc = "open"
      /\ Refused \/ Opened
      /\ UNCHANGED <<now, root, src, tgt, meta, jobs, count, changed>>
  BY Zenon DEF OpenFiles
<1>2. CASE Refused
  <2>1. UNCHANGED <<now, root, src, target, jobs, count, changed>> BY <1>1, <1>2 DEF target
  <2>2. pc = "open" /\ ~(pc = "open" /\ src[cur] # 0) BY <1>1, <1>2
  <2>3. QED BY <1>2, <2>1, <2>2, FailedPreserves
<1>3. CASE Opened
  <2>1. /\ now' = now /\ root' = root /\ src' = src /\ tgt' = tgt
        /\ meta' = meta /\ jobs' = jobs /\ todo' = todo /\ cur' = cur /\ seen' = seen
        /\ offset' = offset /\ count' = count /\ changed' = changed
        /\ handle' = src[cur] /\ src[cur] # 0 /\ pc = "open" /\ pc' = "copying"
    BY <1>1, <1>3
  <2>2. InFile /\ AfterStat /\ cur \in Files /\ src[cur] \in Version0 /\ offset \in Nat
    BY <2>1 DEF BaseInv, StageInv, InFile, AfterStat, TypeOK
  <2>3. /\ now \in Version0 /\ now > 0 /\ <<>> \in Seq(Versions)
    BY Clock DEF BaseInv, TypeOK
  <2>4. /\ File(<<>>, now) \in FileStates /\ File(<<>>, now).data = <<>>
        /\ File(<<>>, now).mtime = now /\ File(<<>>, now).written = now
    BY <2>3, FileFacts
  <2>5. /\ partial' \in [Files -> FileStates]
        /\ \A f \in Files : f # cur => partial'[f] = partial[f]
        /\ offset > 0 => partial'[cur] = partial[cur]
        /\ offset = 0 => partial'[cur] = File(<<>>, now)
    BY <1>3, <2>2, <2>4 DEF BaseInv, TypeOK
  <2>6. offset = 0 \/ offset > 0 BY <2>2
  <2>7. TypeOK' BY <2>1, <2>2, <2>5 DEF BaseInv, TypeOK, PC
  <2>8. StageInv'
    <3>1. Exists(partial'[cur])
      BY <2>1, <2>3, <2>4, <2>5, <2>6 DEF BaseInv, StageInv, Exists
    <3>2. QED BY <2>1, <2>2, <3>1 DEF BaseInv, StageInv, InFile, Exists
  <2>9. PastInv'
    <3>1. \A f \in Files : partial'[f].mtime = partial'[f].written /\ partial'[f].written <= now
      BY <2>2, <2>3, <2>4, <2>5, <2>6, Clock DEF BaseInv, PastInv
    <3>2. QED BY <2>1, <2>2, <3>1 DEF BaseInv, PastInv, Past, AfterStat, InFile
  <2>10. ASSUME PrefixInv PROVE PrefixInv'
    <3>1. /\ meta[cur] = seen
          /\ offset > 0 => IsPrefixOf(partial[cur].data, seen.mtime)
      BY <2>1, <2>10 DEF PrefixInv, SidecarInv
    <3>2. seen.mtime \in Version0 BY StatsFacts DEF BaseInv, TypeOK
    <3>3. IsPrefixOf(partial'[cur].data, seen.mtime)
      BY <2>4, <2>5, <2>6, <3>1, <3>2, EmptyPrefix
    <3>4. SidecarInv'
      BY <2>1, <2>5, <2>10, <3>1, <3>3 DEF PrefixInv, SidecarInv
    <3>5. CopyInv' BY <2>1, <3>3 DEF CopyInv
    <3>6. StampInv' BY <2>1, <2>10 DEF PrefixInv, StampInv, NoCoincidence
    <3>7. QED BY <3>4, <3>5, <3>6 DEF PrefixInv
  <2>11. ASSUME WalkInv PROVE WalkInv'
    BY <2>1, <2>2, <2>11 DEF WalkInv, InFile, AfterStat, Copied, NoCoincidence
  <2>12. ASSUME CountInv PROVE CountInv'
    <3>1. ASSUME changed = {}, FileCountInv, DoneBefore' = DoneBefore,
                 \A S : Chunks(S)' = Chunks(S), Existing' = Existing
          PROVE  FileCountInv'
      <4>1. offset \in {0, Len(partial[cur].data)} /\ offset <= Stat(src[cur]).size
        BY <2>1, <3>1 DEF FileCountInv
      <4>2. Len(partial'[cur].data) = offset BY <2>4, <2>5, <2>6, <4>1
      <4>3. Extra = offset /\ Extra' = offset BY <2>1, <4>2 DEF Extra
      <4>4. Counts(count.filesDone, count.bytesDone, DoneBefore, Extra)'
        BY <2>1, <3>1, <4>3 DEF FileCountInv, Counts
      <4>5. QED BY <2>1, <3>1, <4>1, <4>2, <4>4 DEF FileCountInv
    <3>2. InFile' BY <2>1 DEF InFile
    <3>3. QED BY <2>1, <2>2, <2>12, <3>1, <3>2, InFileCounts
  <2>13. QED BY <2>7, <2>8, <2>9, <2>10, <2>11, <2>12 DEF BaseInv
<1>4. QED BY <1>1, <1>2, <1>3

LEMMA CopyPreserves ==
  ASSUME BaseInv, CopyChunk
  PROVE  /\ BaseInv' /\ (PrefixInv => PrefixInv') /\ (WalkInv => WalkInv')
         /\ (CountInv => CountInv')
<1> DEFINE data == partial[cur].data
           size == Stat(handle).size
           Chunk == /\ partial' = [partial EXCEPT ![cur] = File(Append(data, handle), now)]
                    /\ count' = [count EXCEPT !.bytesDone = @ + 1]
                    /\ pc' = pc
           End == pc' = "renaming" /\ partial' = partial /\ count' = count
<1>1. /\ pc = "copying"
      /\ (Len(data) < size /\ Chunk) \/ (~(Len(data) < size) /\ End)
      /\ now' = now /\ root' = root /\ src' = src /\ tgt' = tgt /\ meta' = meta
      /\ jobs' = jobs /\ todo' = todo /\ cur' = cur /\ seen' = seen /\ offset' = offset
      /\ handle' = handle /\ changed' = changed
  BY DEF CopyChunk, walk
<1>2. /\ InFile /\ AfterStat /\ cur \in Files /\ handle # 0 /\ handle \in Versions
      /\ handle \in Version0 /\ src[cur] \in Version0
  <2>1. InFile /\ AfterStat /\ cur \in Files /\ handle # 0 /\ handle \in Version0
    BY <1>1 DEF BaseInv, StageInv, InFile, AfterStat, TypeOK
  <2>2. QED BY <2>1, Clock DEF BaseInv, TypeOK
<1>3. /\ partial \in [Files -> FileStates] /\ data \in Seq(Versions) /\ now \in Version0
      /\ now > 0 /\ size \in Nat /\ count \in CountType
  <2>1. partial \in [Files -> FileStates] /\ count \in CountType /\ now \in Versions
    BY DEF BaseInv, TypeOK, CountType
  <2>2. data \in Seq(Versions) BY <1>2, <2>1 DEF FileStates
  <2>3. now \in Version0 /\ now > 0 BY <2>1, Clock
  <2>4. size \in Nat BY <1>2, StatFacts
  <2>5. QED BY <2>1, <2>2, <2>3, <2>4
<1>4. /\ File(Append(data, handle), now) \in FileStates
      /\ File(Append(data, handle), now).data = Append(data, handle)
      /\ File(Append(data, handle), now).mtime = now
      /\ File(Append(data, handle), now).written = now
  <2> HIDE DEF data
  <2>1. Append(data, handle) \in Seq(Versions) BY <1>2, <1>3
  <2>2. QED BY <1>3, <2>1, FileFacts
<1>5. /\ partial' \in [Files -> FileStates]
      /\ \A f \in Files : f # cur => partial'[f] = partial[f]
      /\ Chunk => partial'[cur].data = Append(data, handle)
      /\ partial'[cur] = partial[cur] \/ (partial'[cur].mtime = now /\ partial'[cur].written = now)
  BY <1>1, <1>2, <1>3, <1>4
<1>6. /\ pc' \in {"copying", "renaming"}
      /\ DoneIs(count, count', count.filesDone, count.bytesDone + (IF Chunk THEN 1 ELSE 0)) \/ End
  <2>1. count.bytesDone + 1 \in Nat BY <1>3 DEF CountType
  <2>2. Chunk => DoneIs(count, count', count.filesDone, count.bytesDone + 1)
    BY <1>3, <2>1, CountUpdates
  <2>3. QED BY <1>1, <2>2
<1> HIDE DEF Chunk
<1>7. TypeOK'
  <2>1. count' \in CountType BY <1>3, <1>6 DEF DoneIs
  <2>2. QED BY <1>1, <1>5, <1>6, <2>1 DEF BaseInv, TypeOK, PC, CountType
<1>8. StageInv'
  <2>1. Exists(partial'[cur]) BY <1>1, <1>3, <1>5 DEF BaseInv, StageInv, Exists
  <2>2. QED BY <1>1, <1>2, <1>6, <2>1 DEF BaseInv, StageInv, InFile, Exists
<1>9. PastInv'
  <2>1. \A f \in Files : partial'[f].mtime = partial'[f].written /\ partial'[f].written <= now
    BY <1>2, <1>3, <1>5, Clock DEF BaseInv, PastInv
  <2>2. QED BY <1>1, <1>2, <1>6, <2>1 DEF BaseInv, PastInv, Past, AfterStat, InFile
<1>10. ASSUME PrefixInv PROVE PrefixInv'
  <2>1. /\ meta[cur] = seen
        /\ src[cur] # 0 /\ src[cur] = seen.mtime => handle = seen.mtime
        /\ handle = seen.mtime => IsPrefixOf(data, handle)
    BY <1>1, <1>10 DEF PrefixInv, SidecarInv, CopyInv
  <2>2. StampInv' BY <1>1, <1>10 DEF PrefixInv, StampInv, NoCoincidence
  <2>3. CASE Len(data) < size /\ Chunk
    <3>1. pc' = "copying" BY <1>1, <2>3 DEF Chunk
    <3>2. handle = seen.mtime => IsPrefixOf(partial'[cur].data, handle)
      BY <1>2, <1>3, <1>5, <2>1, <2>3, LongerPrefix
    <3>3. SidecarInv'
      BY <1>1, <1>5, <1>10, <2>1, <3>1, <3>2 DEF PrefixInv, SidecarInv
    <3>4. CopyInv' BY <1>1, <2>1, <3>1, <3>2 DEF CopyInv
    <3>5. QED BY <2>2, <3>3, <3>4 DEF PrefixInv
  <2>4. CASE ~(Len(data) < size) /\ End
    <3>1. handle = seen.mtime => data = Content(handle)
      BY <1>2, <1>3, <2>1, <2>4, WholePrefix
    <3>2. SidecarInv' BY <1>1, <1>10, <2>4 DEF PrefixInv, SidecarInv
    <3>3. CopyInv' BY <1>1, <2>1, <2>4, <3>1 DEF CopyInv
    <3>4. QED BY <2>2, <3>2, <3>3 DEF PrefixInv
  <2>5. QED BY <1>1, <2>3, <2>4
<1>11. ASSUME WalkInv PROVE WalkInv'
  BY <1>1, <1>2, <1>6, <1>11 DEF WalkInv, InFile, AfterStat, Copied, NoCoincidence
<1>12. ASSUME CountInv PROVE CountInv'
  <2>1. ASSUME changed = {}, FileCountInv, DoneBefore' = DoneBefore,
               \A S : Chunks(S)' = Chunks(S), Existing' = Existing
        PROVE  FileCountInv'
    <3>1. handle = src[cur] /\ Len(data) <= size /\ size = Stat(src[cur]).size
      BY <1>1, <2>1 DEF FileCountInv
    <3>2. Extra = Len(data) BY <1>1 DEF Extra
    <3>3. Cardinality(Chunks(DoneBefore)) \in Nat
      <4>1. DoneBefore \subseteq Files BY DEF DoneBefore, Existing
      <4>2. QED BY <4>1, ChunksFinite
    <3>4. CASE Len(data) < size /\ Chunk
      <4>1. pc' = "copying" /\ Len(partial'[cur].data) = Len(data) + 1 /\ pc' = pc
        BY <1>1, <1>2, <1>3, <1>5, <3>4 DEF Chunk
      <4>2. Extra' = Len(data) + 1 BY <1>1, <4>1 DEF Extra
      <4>3. DoneIs(count, count', count.filesDone, count.bytesDone + 1)
        <5>1. ~End BY <1>1, <4>1
        <5>2. QED BY <1>6, <3>4, <5>1
      <4>4. Counts(count.filesDone, count.bytesDone, DoneBefore, Extra)'
        BY <1>3, <2>1, <3>2, <3>3, <4>2, <4>3 DEF FileCountInv, Counts, DoneIs
      <4>5. Len(data) + 1 <= size BY <1>3, <3>4
      <4>6. QED BY <1>1, <2>1, <3>1, <4>1, <4>4, <4>5 DEF FileCountInv
    <3>5. CASE ~(Len(data) < size) /\ End
      <4>1. Len(data) = size BY <1>3, <3>1, <3>5
      <4>2. Extra' = Stat(src[cur]).size BY <1>1, <3>5 DEF Extra
      <4>3. Counts(count.filesDone, count.bytesDone, DoneBefore, Extra)'
        BY <2>1, <3>1, <3>2, <3>5, <4>1, <4>2 DEF FileCountInv, Counts
      <4>4. QED BY <1>1, <2>1, <3>5, <4>3 DEF FileCountInv
    <3>6. QED BY <1>1, <3>4, <3>5
  <2>2. InFile' BY <1>6 DEF InFile
  <2>3. count'.filesTotal = count.filesTotal /\ count'.bytesTotal = count.bytesTotal
    BY <1>6 DEF DoneIs
  <2>4. QED BY <1>1, <1>2, <1>12, <2>1, <2>2, <2>3, InFileCounts
<1>13. QED BY <1>7, <1>8, <1>9, <1>10, <1>11, <1>12 DEF BaseInv

LEMMA RenamePreserves ==
  ASSUME BaseInv, Rename
  PROVE  /\ BaseInv' /\ (PrefixInv => PrefixInv') /\ (WalkInv => WalkInv')
         /\ (CountInv => CountInv')
<1> DEFINE Replaced == /\ tgt' = [tgt EXCEPT ![cur] = partial[cur]]
                       /\ partial' = [partial EXCEPT ![cur] = NoFile]
                       /\ pc' = "unmeta"
           Removed == /\ tgt' = [tgt EXCEPT ![cur] = NoFile]
                      /\ partial' = partial /\ pc' = "renaming"
<1>1. /\ pc = "renaming"
      /\ Replaced \/ Removed
      /\ now' = now /\ root' = root /\ src' = src /\ meta' = meta
      /\ jobs' = jobs /\ todo' = todo /\ cur' = cur /\ seen' = seen /\ offset' = offset
      /\ handle' = handle /\ count' = count /\ changed' = changed
  BY DEF Rename, walk
<1>2. InFile /\ AfterStat /\ cur \in Files /\ src[cur] \in Version0
  BY <1>1 DEF BaseInv, StageInv, InFile, AfterStat, TypeOK
<1>3. /\ tgt' \in [Files -> FileStates] /\ partial' \in [Files -> FileStates]
      /\ \A f \in Files : f # cur => tgt'[f] = tgt[f] /\ partial'[f] = partial[f]
      /\ Replaced => tgt'[cur] = partial[cur] /\ partial'[cur] = NoFile
      /\ Removed => tgt'[cur] = NoFile /\ partial'[cur] = partial[cur]
  BY <1>1, <1>2, NoFileFacts DEF BaseInv, TypeOK
<1>4. pc' \in {"unmeta", "renaming"} /\ (pc' = "renaming" => Removed) /\ (pc' = "unmeta" => Replaced)
  BY <1>1
<1>5. TypeOK' BY <1>1, <1>3, <1>4 DEF BaseInv, TypeOK, PC
<1>6. StageInv'
  <2>1. pc' = "renaming" => Exists(partial'[cur])
    BY <1>1, <1>3, <1>4 DEF BaseInv, StageInv
  <2>2. QED BY <1>1, <1>2, <1>4, <2>1 DEF BaseInv, StageInv, InFile, Exists
<1>7. PastInv'
  <2>1. 0 <= now /\ now # 0 BY Clock DEF BaseInv, TypeOK
  <2>2. \A f \in Files : partial'[f].mtime = partial'[f].written /\ partial'[f].written <= now
    BY <1>1, <1>3, <2>1, NoFileFacts DEF BaseInv, PastInv
  <2>3. \A f \in Files : /\ tgt'[f].mtime <= now
                         /\ tgt'[f].mtime = now => tgt'[f].written = now \/ src[f] = now
    BY <1>1, <1>2, <1>3, <2>1, NoFileFacts DEF BaseInv, PastInv
  <2>4. QED BY <1>1, <1>2, <1>4, <2>2, <2>3 DEF BaseInv, PastInv, Past, AfterStat, InFile
<1>8. ASSUME PrefixInv PROVE PrefixInv'
  <2>1. IsPrefixOf(NoFile.data, src[cur]) BY <1>2, NoFileFacts, EmptyPrefix
  <2>2. SidecarInv' BY <1>1, <1>2, <1>3, <1>4, <1>8, <2>1 DEF PrefixInv, SidecarInv
  <2>3. CopyInv' BY <1>1, <1>3, <1>4, <1>8 DEF PrefixInv, CopyInv
  <2>4. StampInv'
    <3>1. src[cur] # 0 => src[cur] = tgt'[cur].written \/ tgt'[cur].mtime # src[cur]
      BY <1>1, <1>2, <1>3, NoFileFacts DEF BaseInv, PastInv
    <3>2. QED BY <1>1, <1>3, <1>8, <3>1 DEF PrefixInv, StampInv, NoCoincidence
  <2>5. QED BY <2>2, <2>3, <2>4 DEF PrefixInv
<1>9. ASSUME WalkInv PROVE WalkInv'
  BY <1>1, <1>2, <1>3, <1>4, <1>9 DEF WalkInv, InFile, AfterStat, Copied, NoCoincidence
<1>10. ASSUME CountInv PROVE CountInv'
  <2>1. ASSUME changed = {}, FileCountInv, DoneBefore' = DoneBefore,
               \A S : Chunks(S)' = Chunks(S), Existing' = Existing
        PROVE  FileCountInv'
    <3>1. Extra' = Extra BY <1>1, <1>4 DEF Extra
    <3>2. QED BY <1>1, <1>4, <2>1, <3>1 DEF FileCountInv, Counts
  <2>2. InFile' BY <1>4 DEF InFile
  <2>3. QED BY <1>1, <1>2, <1>10, <2>1, <2>2, InFileCounts
<1>11. QED BY <1>5, <1>6, <1>7, <1>8, <1>9, <1>10 DEF BaseInv

LEMMA RemoveMetaPreserves ==
  ASSUME BaseInv, RemoveMeta
  PROVE  /\ BaseInv' /\ (PrefixInv => PrefixInv') /\ (WalkInv => WalkInv')
         /\ (CountInv => CountInv')
<1>1. /\ pc = "unmeta" /\ pc' = "stamping"
      /\ meta' = meta \/ meta' = [meta EXCEPT ![cur] = NoStat]
      /\ now' = now /\ root' = root /\ src' = src /\ tgt' = tgt /\ partial' = partial
      /\ jobs' = jobs /\ todo' = todo /\ cur' = cur /\ seen' = seen /\ offset' = offset
      /\ handle' = handle /\ count' = count /\ changed' = changed
  BY DEF RemoveMeta, walk
<1>2. InFile /\ AfterStat /\ cur \in Files
  BY <1>1 DEF BaseInv, StageInv, InFile, AfterStat, TypeOK
<1>3. /\ meta' \in [Files -> Stats]
      /\ \A f \in Files : meta'[f] = meta[f] \/ meta'[f] = NoStat
  BY <1>1, <1>2, NoStatFacts DEF BaseInv, TypeOK
<1>4. TypeOK' BY <1>1, <1>3 DEF BaseInv, TypeOK, PC
<1>5. StageInv' BY <1>1, <1>2 DEF BaseInv, StageInv, InFile
<1>6. PastInv'
  <2>1. \A f \in Files : Past(f, 0) BY Clock DEF BaseInv, TypeOK, Past
  <2>2. \A f \in Files : Past(f, meta'[f].mtime)
    BY <1>3, <2>1, NoStatFacts DEF BaseInv, PastInv
  <2>3. QED BY <1>1, <1>2, <2>2 DEF BaseInv, PastInv, Past, AfterStat, InFile
<1>7. ASSUME PrefixInv PROVE PrefixInv'
  BY <1>1, <1>3, <1>7, NoStatFacts DEF PrefixInv, SidecarInv, CopyInv, StampInv, NoCoincidence
<1>8. ASSUME WalkInv PROVE WalkInv'
  BY <1>1, <1>2, <1>8 DEF WalkInv, InFile, AfterStat, Copied, NoCoincidence
<1>9. ASSUME CountInv PROVE CountInv'
  <2>1. ASSUME changed = {}, FileCountInv, DoneBefore' = DoneBefore,
               \A S : Chunks(S)' = Chunks(S), Existing' = Existing
        PROVE  FileCountInv'
    <3>1. Extra' = Extra BY <1>1 DEF Extra
    <3>2. QED BY <1>1, <2>1, <3>1 DEF FileCountInv, Counts
  <2>2. InFile' BY <1>1 DEF InFile
  <2>3. QED BY <1>1, <1>2, <1>9, <2>1, <2>2, InFileCounts
<1>10. QED BY <1>4, <1>5, <1>6, <1>7, <1>8, <1>9 DEF BaseInv

LEMMA StampPreserves ==
  ASSUME BaseInv, StampMtime
  PROVE  /\ BaseInv' /\ (PrefixInv => PrefixInv') /\ (PrefixInv /\ WalkInv => WalkInv')
         /\ (CountInv => CountInv')
<1>1. /\ pc = "stamping"
      /\ tgt' = tgt \/ tgt' = [tgt EXCEPT ![cur].mtime = seen.mtime]
      /\ count' = [count EXCEPT !.filesDone = @ + 1]
      /\ pc' = (IF root = "dir" THEN "walking" ELSE "verifying")
      /\ now' = now /\ root' = root /\ src' = src /\ partial' = partial /\ meta' = meta
      /\ jobs' = jobs /\ todo' = todo /\ changed' = changed
      /\ cur' = "none" /\ seen' = NoStat /\ offset' = 0 /\ handle' = 0
  BY DEF StampMtime, LeaveFile
<1>2. /\ InFile /\ AfterStat /\ cur \in Files /\ src[cur] \in Version0 /\ seen.mtime \in Version0
      /\ root # "dir" => cur = root
      /\ root = "dir" => cur \notin todo
  BY <1>1, StatsFacts DEF BaseInv, StageInv, InFile, AfterStat, TypeOK
<1>3. /\ tgt' \in [Files -> FileStates]
      /\ \A f \in Files : /\ tgt'[f].data = tgt[f].data /\ tgt'[f].written = tgt[f].written
                          /\ f # cur => tgt'[f] = tgt[f]
      /\ tgt'[cur].mtime \in {tgt[cur].mtime, seen.mtime}
  <2>1. tgt \in [Files -> FileStates] BY DEF BaseInv, TypeOK
  <2>2. tgt[cur] \in FileStates BY <1>2, <2>1
  <2>3. ASSUME NEW file \in FileStates, NEW time \in Version0
        PROVE  /\ [file EXCEPT !.mtime = time] \in FileStates
               /\ [file EXCEPT !.mtime = time].data = file.data
               /\ [file EXCEPT !.mtime = time].written = file.written
               /\ [file EXCEPT !.mtime = time].mtime = time
    BY DEF FileStates
  <2> DEFINE stamped == [tgt[cur] EXCEPT !.mtime = seen.mtime]
  <2>4. /\ stamped \in FileStates /\ stamped.data = tgt[cur].data
        /\ stamped.written = tgt[cur].written /\ stamped.mtime = seen.mtime
    BY <1>2, <2>2, <2>3
  <2>5. tgt' = tgt \/ tgt' = [tgt EXCEPT ![cur] = stamped] BY <1>1
  <2> HIDE DEF stamped
  <2>6. QED BY <1>2, <2>1, <2>4, <2>5
<1>4. DoneIs(count, count', count.filesDone + 1, count.bytesDone) /\ count \in CountType
  <2>1. count \in CountType BY DEF BaseInv, TypeOK, CountType
  <2>2. count.filesDone + 1 \in Nat /\ count.bytesDone \in Nat BY <2>1 DEF CountType
  <2>3. QED BY <1>1, <2>1, <2>2, CountUpdates
<1>5. pc' \in {"walking", "verifying"} /\ (pc' = "walking" <=> root = "dir") BY <1>1
<1>6. TypeOK'
  BY <1>1, <1>3, <1>4, <1>5, Clock, NoStatFacts DEF BaseInv, TypeOK, PC, CountType, DoneIs
<1>7. StageInv' BY <1>1, <1>5 DEF StageInv, InFile
<1>8. PastInv'
  <2>1. Past(cur, seen.mtime) BY <1>2 DEF BaseInv, PastInv
  <2>2. \A f \in Files : /\ tgt'[f].mtime <= now
                         /\ tgt'[f].mtime = now => tgt'[f].written = now \/ src[f] = now
    BY <1>2, <1>3, <2>1 DEF BaseInv, PastInv, Past
  <2>3. QED BY <1>1, <1>5, <2>2 DEF BaseInv, PastInv, Past, AfterStat, InFile
<1>9. ASSUME PrefixInv PROVE PrefixInv'
  <2>1. src[cur] # 0 /\ src[cur] = seen.mtime => tgt[cur].data = Content(src[cur])
    BY <1>1, <1>9 DEF PrefixInv, CopyInv
  <2>2. StampInv' BY <1>1, <1>2, <1>3, <1>9, <2>1 DEF PrefixInv, StampInv, NoCoincidence
  <2>3. SidecarInv' BY <1>1, <1>5, <1>9 DEF PrefixInv, SidecarInv
  <2>4. CopyInv' BY <1>5 DEF CopyInv
  <2>5. QED BY <2>2, <2>3, <2>4 DEF PrefixInv
<1>10. ASSUME PrefixInv, WalkInv PROVE WalkInv'
  <2>1. \A f \in Files : f = cur => Copied(f)'
    <3>1. src[cur] # 0 /\ src[cur] = seen.mtime => tgt[cur].data = Content(src[cur])
      BY <1>1, <1>10 DEF PrefixInv, CopyInv
    <3>2. cur \notin changed => seen.mtime = src[cur] BY <1>2, <1>10 DEF WalkInv
    <3>3. tgt'[cur].data = tgt[cur].data /\ src'[cur] = src[cur] BY <1>1, <1>2, <1>3
    <3>4. src[cur] # 0 /\ cur \notin changed => tgt'[cur].data = Content(src[cur])
      BY <3>1, <3>2, <3>3
    <3>5. QED BY <1>1, <3>3, <3>4 DEF Copied
  <2>2. \A f \in Files : root = "dir" /\ f \notin todo \cup {cur} => Copied(f)'
    BY <1>1, <1>2, <1>3, <1>10 DEF WalkInv, Copied, NoCoincidence
  <2>3. QED BY <1>1, <1>2, <1>5, <2>1, <2>2 DEF WalkInv, InFile, AfterStat
<1>11. ASSUME CountInv PROVE CountInv'
  <2> SUFFICES ASSUME changed = {} PROVE CountInv' BY <1>1 DEF CountInv
  <2>1. Existing' = Existing /\ (\A S : Chunks(S)' = Chunks(S)) /\ Existing \subseteq Files
    BY <1>1, SameChunks DEF Existing
  <2>2. SourceTree' = SourceTree BY <1>1, <2>1 DEF SourceTree
  <2>3. /\ FileCountInv /\ Counts(count.filesTotal, count.bytesTotal, SourceTree, 0)
    BY <1>2, <1>11 DEF CountInv
  <2>4. Counts(count.filesTotal, count.bytesTotal, SourceTree, 0)'
    BY <1>4, <2>1, <2>2, <2>3 DEF Counts, DoneIs
  <2>5. /\ src[cur] # 0 /\ Extra = Stat(src[cur]).size /\ Stat(src[cur]).size \in Nat
        /\ Counts(count.filesDone, count.bytesDone, DoneBefore, Stat(src[cur]).size)
        /\ cur \in Existing
    BY <1>1, <1>2, <2>3, StatFacts DEF FileCountInv, Extra, Existing
  <2>6. DoneBefore \in SUBSET Files /\ cur \notin DoneBefore BY <2>1 DEF DoneBefore
  <2>7. Counts(count.filesDone + 1, count.bytesDone, DoneBefore \cup {cur}, 0)
    <3>1. /\ Cardinality(DoneBefore \cup {cur}) = Cardinality(DoneBefore) + 1
          /\ Cardinality(Chunks(DoneBefore \cup {cur})) = Cardinality(Chunks(DoneBefore)) + Stat(src[cur]).size
      BY <1>2, <2>6, ChunksAdd
    <3>2. Cardinality(Chunks(DoneBefore)) \in Nat BY <2>6, ChunksFinite
    <3>3. QED BY <2>5, <3>1, <3>2 DEF Counts
  <2>8. CASE root = "dir"
    <3>1. DoneBefore \cup {cur} = Existing \ todo /\ todo \subseteq Existing
      BY <1>2, <2>3, <2>5, <2>8 DEF DoneBefore, FileCountInv
    <3>2. Counts(count.filesDone, count.bytesDone, Existing \ todo, 0)'
      BY <1>1, <1>4, <2>1, <2>7, <3>1 DEF Counts, DoneIs
    <3>3. pc' = "walking" /\ todo' \subseteq Existing' BY <1>1, <2>1, <2>8, <3>1
    <3>4. QED BY <2>4, <3>2, <3>3 DEF CountInv, InFile
  <2>9. CASE root # "dir"
    <3>1. DoneBefore \cup {cur} = SourceTree BY <1>2, <2>5, <2>9 DEF DoneBefore, SourceTree
    <3>2. count.filesDone + 1 = count.filesTotal /\ count.bytesDone = count.bytesTotal
      BY <2>3, <2>7, <3>1 DEF Counts
    <3>3. CountersAgree' BY <1>4, <3>2 DEF CountersAgree, DoneIs
    <3>4. QED BY <1>5, <2>4, <2>9, <3>3 DEF CountInv, InFile
  <2>10. QED BY <2>8, <2>9
<1>12. QED BY <1>6, <1>7, <1>8, <1>9, <1>10, <1>11 DEF BaseInv

-----------------------------------------------------------------------------
(* Verification *)

LEMMA VerifyPreserves ==
  ASSUME BaseInv, quick_verify \/ first_missing_target_file
  PROVE  /\ BaseInv' /\ (PrefixInv => PrefixInv') /\ (WalkInv => WalkInv') /\ CountInv'
<1>1. /\ pc \in {"verifying", "rewalking"}
      /\ pc' \in {"rewalking", "completed", "failed"}
      /\ pc' = "rewalking" => root = "dir"
      /\ todo' \subseteq todo \cup Existing
      /\ UNCHANGED <<now, root, src, target, jobs, cur, seen, offset, handle, count, changed>>
  <2>1. CASE quick_verify BY <2>1 DEF quick_verify
  <2>2. CASE first_missing_target_file
    <3>1. /\ pc = "rewalking" /\ root = "dir"
          /\ (\E f \in todo : /\ pc' \in {"rewalking", "failed"}
                              /\ todo' \in {todo \ {f}, {}})
             \/ (pc' = "completed" /\ todo' = todo)
          /\ UNCHANGED <<now, root, src, target, jobs, cur, seen, offset, handle, count, changed>>
      BY <2>2 DEF first_missing_target_file, BaseInv, StageInv
    <3>2. QED BY <3>1
  <2>3. QED BY <2>1, <2>2
<1>2. /\ now' = now /\ root' = root /\ src' = src /\ tgt' = tgt /\ partial' = partial
      /\ meta' = meta /\ jobs' = jobs /\ cur' = cur /\ seen' = seen /\ offset' = offset
      /\ handle' = handle /\ count' = count /\ changed' = changed
  BY <1>1 DEF target
<1>3. TypeOK' BY <1>1, <1>2 DEF BaseInv, TypeOK, PC, Existing
<1>4. StageInv' BY <1>1, <1>2 DEF StageInv, InFile
<1>5. PastInv' BY <1>1, <1>2 DEF BaseInv, PastInv, Past, AfterStat, InFile
<1>6. ASSUME PrefixInv PROVE PrefixInv'
  BY <1>1, <1>2, <1>6 DEF PrefixInv, SidecarInv, CopyInv, StampInv, NoCoincidence
<1>7. ASSUME WalkInv PROVE WalkInv'
  BY <1>1, <1>2, <1>7 DEF WalkInv, InFile, AfterStat, Copied, NoCoincidence
<1>8. CountInv' BY <1>1 DEF CountInv, InFile
<1>9. QED BY <1>3, <1>4, <1>5, <1>6, <1>7, <1>8 DEF BaseInv

LEMMA FailPreserves ==
  ASSUME BaseInv, Fail
  PROVE  /\ BaseInv' /\ WalkInv' /\ CountInv'
         /\ "open" \notin FailAt => (PrefixInv => PrefixInv')
BY FailedPreserves DEF Fail

-----------------------------------------------------------------------------
(* The theorems *)

LEMMA InitInvs == Init => BaseInv /\ PrefixInv /\ WalkInv /\ CountInv
<1> SUFFICES ASSUME Init PROVE BaseInv /\ PrefixInv /\ WalkInv /\ CountInv OBVIOUS
<1>1. /\ now = 1 /\ root \in Files \cup {"dir"} /\ pc = "idle" /\ jobs = 0 /\ todo = {}
      /\ cur = "none" /\ seen = NoStat /\ offset = 0 /\ handle = 0 /\ count = ZeroCount
      /\ changed = {} /\ src \in [Files -> {0, 1}]
      /\ tgt = [f \in Files |-> NoFile] /\ partial = [f \in Files |-> NoFile]
      /\ meta = [f \in Files |-> NoStat]
  BY DEF Init
<1>2. 0 \in Version0 /\ 1 \in Version0 /\ 1 \in Versions /\ 0 \in 0 .. MaxJobs
  BY Clock, RelayAssumption
<1>3. TypeOK
  <2>1. src \in [Files -> Version0] BY <1>1, <1>2
  <2>2. tgt \in [Files -> FileStates] /\ partial \in [Files -> FileStates]
    BY <1>1, NoFileFacts
  <2>3. meta \in [Files -> Stats] /\ seen \in Stats BY <1>1, NoStatFacts
  <2>4. QED BY <1>1, <1>2, <2>1, <2>2, <2>3 DEF TypeOK, PC, ZeroCount
<1>4. StageInv BY <1>1 DEF StageInv, InFile
<1>5. \A f \in Files : /\ src[f] \in {0, 1} /\ meta[f].mtime = 0 /\ partial[f] = NoFile
                       /\ tgt[f] = NoFile
  BY <1>1, NoStatFacts
<1>6. PastInv
  BY <1>1, <1>5, NoFileFacts DEF PastInv, Past, AfterStat, InFile
<1>7. PrefixInv
  BY <1>1, <1>5, NoFileFacts DEF PrefixInv, SidecarInv, CopyInv, StampInv
<1>8. WalkInv /\ CountInv BY <1>1 DEF WalkInv, CountInv, AfterStat, InFile
<1>9. QED BY <1>3, <1>4, <1>6, <1>7, <1>8 DEF BaseInv

LEMMA StutterInvs ==
  ASSUME UNCHANGED vars
  PROVE  /\ (BaseInv => BaseInv') /\ (PrefixInv => PrefixInv') /\ (WalkInv => WalkInv')
         /\ (CountInv => CountInv')
<1>1. /\ now' = now /\ root' = root /\ src' = src /\ tgt' = tgt /\ partial' = partial
      /\ meta' = meta /\ jobs' = jobs /\ cur' = cur /\ seen' = seen /\ offset' = offset
      /\ handle' = handle /\ count' = count /\ changed' = changed /\ pc' = pc /\ todo' = todo
  BY DEF vars, target, walk
<1>2. BaseInv => BaseInv'
  BY <1>1 DEF BaseInv, TypeOK, StageInv, PastInv, Past, AfterStat, InFile
<1>3. PrefixInv => PrefixInv'
  BY <1>1 DEF PrefixInv, SidecarInv, CopyInv, StampInv, NoCoincidence
<1>4. WalkInv => WalkInv'
  BY <1>1 DEF WalkInv, InFile, AfterStat, Copied, NoCoincidence
<1>5. CountInv => CountInv'
  BY <1>1 DEF CountInv, InFile, Counts, Chunks, SourceTree, Existing, CountersAgree,
                    FileCountInv, DoneBefore, Extra
<1>6. QED BY <1>2, <1>3, <1>4, <1>5

(* What one step preserves: only a cut-off in the await between the sidecar  *)
(* and the writer breaks what the sidecar says.                              *)
LEMMA NextPreserves ==
  ASSUME BaseInv, [Next]_vars
  PROVE  /\ BaseInv'
         /\ CountInv => CountInv'
         /\ "open" \notin FailAt /\ PrefixInv /\ WalkInv => PrefixInv' /\ WalkInv'
<1>1. CASE UNCHANGED vars BY <1>1, StutterInvs
<1>2. CASE Tick BY <1>2, TickPreserves
<1>3. CASE \E f \in Files : Vanish(f) \/ \E inPlace \in BOOLEAN : Change(f, inPlace)
  <2>1. PICK f \in Files : Vanish(f) \/ \E inPlace \in BOOLEAN : Change(f, inPlace) BY <1>3
  <2>2. \E inPlace \in BOOLEAN : Change(f, inPlace) \/ Vanish(f) BY <2>1
  <2>3. QED BY <2>2, ChangePreserves
<1>4. CASE relay_transfer BY <1>4, RelayPreserves
<1>5. CASE count_tree BY <1>5, CountTreePreserves
<1>6. CASE relay_dir BY <1>6, RelayDirPreserves
<1>7. CASE StatSource BY <1>7, StatSourcePreserves
<1>8. CASE TruncateMeta \/ WriteMeta BY <1>8, MetaPreserves
<1>9. CASE OpenFiles BY <1>9, OpenPreserves
<1>10. CASE CopyChunk BY <1>10, CopyPreserves
<1>11. CASE Rename BY <1>11, RenamePreserves
<1>12. CASE RemoveMeta BY <1>12, RemoveMetaPreserves
<1>13. CASE StampMtime BY <1>13, StampPreserves
<1>14. CASE quick_verify \/ first_missing_target_file BY <1>14, VerifyPreserves
<1>15. CASE Fail BY <1>15, FailPreserves
<1>16. QED
  BY <1>1, <1>2, <1>3, <1>4, <1>5, <1>6, <1>7, <1>8, <1>9, <1>10, <1>11, <1>12, <1>13,
     <1>14, <1>15 DEF Next

(* Every variable of the relay keeps its type, with a partial and a target   *)
(* file always a sequence of chunks of existing versions, and the counters   *)
(* natural numbers, however jobs, cut-offs and source changes interleave.    *)
THEOREM TypeCorrect == Spec => []TypeOK
<1>1. Init => BaseInv BY InitInvs
<1>2. BaseInv /\ [Next]_vars => BaseInv' BY NextPreserves
<1>3. BaseInv => TypeOK BY DEF BaseInv
<1>4. QED BY <1>1, <1>2, <1>3, PTL DEF Spec

(* The counters of a job during which the source did not change agree when   *)
(* verification starts: resumed, skipped and copied files were each counted  *)
(* once, by every route through _relay_dir and _relay_file.                  *)
THEOREM CountersCorrect == Spec => []QuietJobAddsUp
<1>1. Init => BaseInv /\ CountInv BY InitInvs
<1>2. BaseInv /\ CountInv /\ [Next]_vars => BaseInv' /\ CountInv' BY NextPreserves
<1>3. CountInv => QuietJobAddsUp BY DEF CountInv, QuietJobAddsUp
<1>4. QED BY <1>1, <1>2, <1>3, PTL DEF Spec

CopyCorrectInv == BaseInv /\ PrefixInv /\ WalkInv

LEMMA CopyCorrectInvariant == "open" \notin FailAt => (Spec => []CopyCorrectInv)
<1> SUFFICES ASSUME "open" \notin FailAt PROVE Spec => []CopyCorrectInv OBVIOUS
<1>1. Init => CopyCorrectInv BY InitInvs DEF CopyCorrectInv
<1>2. CopyCorrectInv /\ [Next]_vars => CopyCorrectInv' BY NextPreserves DEF CopyCorrectInv
<1>3. QED BY <1>1, <1>2, PTL DEF Spec

(* If no job is cut off between the write of a new sidecar and the truncation *)
(* of the old partial (the await "open"), _relay_file only ever appends to a  *)
(* prefix of the source it has open, as long as that is the one it saw.       *)
THEOREM ResumeCorrect == "open" \notin FailAt => (Spec => []ResumeOntoPrefix)
<1>1. CopyCorrectInv => ResumeOntoPrefix
  <2>1. Stat(handle) = seen /\ CopyCorrectInv => handle = seen.mtime
    BY StatFacts DEF CopyCorrectInv, BaseInv, TypeOK
  <2>2. QED BY <2>1 DEF CopyCorrectInv, PrefixInv, CopyInv, ResumeOntoPrefix
<1>2. QED BY <1>1, CopyCorrectInvariant, PTL

(* Under the same hypothesis, a target file that _is_up_to_date would skip   *)
(* between jobs has the content of the source, whatever sequence of copies,  *)
(* cut-offs, failed set_mtime calls and source changes led there.            *)
THEOREM SkipCorrect == "open" \notin FailAt => (Spec => []SkipIsSound)
<1>1. CopyCorrectInv => SkipIsSound
  <2> SUFFICES ASSUME CopyCorrectInv, NEW f \in Files, src[f] # 0, NoCoincidence(f),
                      is_up_to_date(Stat(src[f]), tgt[f])
               PROVE  tgt[f].data = Content(src[f])
    BY DEF SkipIsSound
  <2>1. Stat(src[f]).mtime = src[f] BY StatFacts DEF CopyCorrectInv, BaseInv, TypeOK
  <2>2. tgt[f].mtime = src[f] BY <2>1 DEF is_up_to_date
  <2>3. QED BY <2>2 DEF CopyCorrectInv, PrefixInv, StampInv
<1>2. QED BY <1>1, CopyCorrectInvariant, PTL

(* Under the same hypothesis, a job that quick_verify passed has copied      *)
(* every file that did not change since the job started, although sizes and  *)
(* counters are all that is compared.                                        *)
THEOREM CompletionCorrect == "open" \notin FailAt => (Spec => []CompletedMeansCopied)
<1>1. CopyCorrectInv => CompletedMeansCopied
  BY DEF CopyCorrectInv, WalkInv, Copied, CompletedMeansCopied
<1>2. QED BY <1>1, CopyCorrectInvariant, PTL

(* A file that is on the target, or staged for it, still is after a step.    *)
StagedStep ==
  \A f \in Files : Exists(tgt[f]) \/ Exists(partial[f]) =>
    Exists(tgt'[f]) \/ Exists(partial'[f])

LEMMA StagedByStep == ASSUME BaseInv, Next PROVE StagedStep
<1>1. CASE UNCHANGED <<tgt, partial>> BY <1>1 DEF StagedStep
<1>2. CASE OpenFiles
  <2>1. cur \in Files BY <1>2 DEF OpenFiles, BaseInv, StageInv, InFile
  <2>2. /\ tgt' = tgt
        /\ partial' \in {partial, [partial EXCEPT ![cur] = File(<<>>, now)]}
    BY <1>2 DEF OpenFiles
  <2>3. File(<<>>, now).mtime = now /\ now > 0 BY Clock DEF File, BaseInv, TypeOK
  <2>4. QED BY <2>1, <2>2, <2>3 DEF StagedStep, Exists, BaseInv, TypeOK
<1>3. CASE CopyChunk
  <2>1. cur \in Files BY <1>3 DEF CopyChunk, BaseInv, StageInv, InFile
  <2>2. /\ tgt' = tgt
        /\ \/ partial' = partial
           \/ partial' = [partial EXCEPT ![cur] = File(Append(partial[cur].data, handle), now)]
    BY <1>3 DEF CopyChunk
  <2>3. File(Append(partial[cur].data, handle), now).mtime = now /\ now > 0
    BY Clock DEF File, BaseInv, TypeOK
  <2>4. QED BY <2>1, <2>2, <2>3 DEF StagedStep, Exists, BaseInv, TypeOK
<1>4. CASE Rename
  <2>1. cur \in Files /\ Exists(partial[cur])
    BY <1>4 DEF Rename, BaseInv, StageInv, InFile
  <2>2. \/ /\ tgt' = [tgt EXCEPT ![cur] = partial[cur]]
           /\ partial' = [partial EXCEPT ![cur] = NoFile]
        \/ /\ tgt' = [tgt EXCEPT ![cur] = NoFile]
           /\ partial' = partial
    BY <1>4 DEF Rename
  <2>3. QED BY <2>1, <2>2 DEF StagedStep, BaseInv, TypeOK
<1>5. CASE StampMtime
  <2>1. cur \in Files /\ partial' = partial
    BY <1>5 DEF StampMtime, BaseInv, StageInv, InFile
  <2>2. tgt' = tgt \/ (seen.mtime > 0 /\ tgt' = [tgt EXCEPT ![cur].mtime = seen.mtime])
    BY <1>5 DEF StampMtime
  <2>3. QED BY <2>1, <2>2 DEF StagedStep, Exists, BaseInv, TypeOK, FileStates
<1>6. QED
  BY <1>1, <1>2, <1>3, <1>4, <1>5
  DEF Next, Tick, Vanish, Change, relay_transfer, count_tree, relay_dir, StatSource,
      TruncateMeta, WriteMeta, RemoveMeta, quick_verify, first_missing_target_file, Fail,
      target

(* No step of the relay leaves a file with neither a target nor a staged     *)
(* partial where there was one, for every choice of cut-offs: the fallback   *)
(* that removes the target before the rename keeps the partial.              *)
THEOREM StagingCorrect == Spec => TargetOrStaged
<1>1. Init => BaseInv BY InitInvs
<1>2. BaseInv /\ [Next]_vars => BaseInv' BY NextPreserves
<1>3. BaseInv /\ [Next]_vars => [StagedStep]_vars BY StagedByStep
<1>4. QED BY <1>1, <1>2, <1>3, PTL DEF Spec, TargetOrStaged, StagedStep
=============================================================================
