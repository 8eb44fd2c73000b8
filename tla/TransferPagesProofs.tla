------------------------ MODULE TransferPagesProofs ------------------------
(* Proofs about the browser's side of the transfers: NewTransfer, for every  *)
(* catalog of servers, artifacts and placements, and TransferCenter, for     *)
(* every number of jobs, of listings in flight and of failures.              *)
EXTENDS NewTransfer, TransferCenter, BagFacts, TLAPS, NaturalsInduction, WellFoundedInduction

-----------------------------------------------------------------------------
(* NEW-TRANSFER DIALOG                                                       *)

-----------------------------------------------------------------------------
(* The operators the form is built with *)

(* find() returns an element of what it searches, or nothing when that is    *)
(* empty: a set of positions has a least one.                                *)
LEMMA FirstOfElement ==
  ASSUME NEW S, S \subseteq Nat
  PROVE  /\ S = {} => FirstOf(S) = None
         /\ S # {} => FirstOf(S) \in S
<1>1. ASSUME S # {} PROVE \E i \in S : \A k \in S : i <= k
  <2>1. PICK i \in S : \A k \in S : <<k, i>> \notin OpToRel(<, Nat)
    BY <1>1, NatLessThanWellFounded, WFMin, Zenon
  <2>2. \A k \in S : ~(k < i) BY <2>1 DEF OpToRel
  <2>3. QED BY <2>2
<1>2. QED BY <1>1 DEF FirstOf

(* Positions of a sequence are natural numbers. *)
LEMMA Positions ==
  /\ DOMAIN Servers \subseteq Nat /\ DOMAIN Placements \subseteq Nat
  /\ DOMAIN Artifacts \subseteq Nat /\ (Artifacts # <<>> => Artifacts[1] \in ToSet(Artifacts))
<1>1. /\ DOMAIN Servers = 1 .. Len(Servers) /\ Len(Servers) \in Nat
      /\ DOMAIN Placements = 1 .. Len(Placements) /\ Len(Placements) \in Nat
      /\ DOMAIN Artifacts = 1 .. Len(Artifacts) /\ Len(Artifacts) \in Nat
  BY NewTransferAssumption
<1>2. Artifacts # <<>> => 1 \in DOMAIN Artifacts BY <1>1, NewTransferAssumption
<1>3. Artifacts # <<>> => Artifacts[1] \in ToSet(Artifacts) BY <1>2 DEF ToSet
<1>4. QED BY <1>1, <1>3

(* firstTargetServer and the peer search return a server of the set they are *)
(* given, or none.                                                           *)
LEMMA FirstServerElement ==
  ASSUME NEW S, S \subseteq ToSet(Servers)
  PROVE  FirstServer(S) \in S \cup {None}
<1> DEFINE K == {k \in DOMAIN Servers : Servers[k] \in S /\ loaded}
<1>1. K \subseteq Nat BY Positions
<1>2. FirstOf(K) = None \/ FirstOf(K) \in K BY <1>1, FirstOfElement
<1>3. QED BY <1>2 DEF FirstServer

(* A placement's artifact and server are in the catalog. *)
LEMMA PlacementFields ==
  ASSUME NEW p \in DOMAIN Placements
  PROVE  Placements[p].artifact \in ToSet(Artifacts) /\ Placements[p].server \in ToSet(Servers)
<1>1. Placements[p] \in ToSet(Placements) BY DEF ToSet
<1>2. QED BY <1>1, NewTransferAssumption

(* The first placement of an artifact is one of its placements. *)
LEMMA FirstPlacement ==
  ASSUME NEW a
  PROVE  FirstOf(PlacementsOf(a)) \in PlacementsOf(a) \cup {None}
<1>1. PlacementsOf(a) \subseteq Nat BY Positions DEF PlacementsOf, PlacementIds
<1>2. QED BY <1>1, FirstOfElement

(* Peers are registered servers other than the source. *)
LEMMA PeersAreOthers ==
  ASSUME NEW a, NEW source
  PROVE  peerServerIds(a, source) \subseteq ToSet(Servers) \ {source}
BY PlacementFields DEF peerServerIds, PlacementIds

(* suggestedTargetServer never returns the source, and returns a registered  *)
(* server, none, or the current target.                                      *)
LEMMA SuggestionAvoidsSource ==
  ASSUME NEW current, NEW source, NEW peers, peers \subseteq ToSet(Servers) \ {source}
  PROVE  LET s == suggestedTargetServer(current, peers, source)
         IN  /\ s = None \/ s # source
             /\ s \in ToSet(Servers) \cup {None, current}
<1>1. FirstServer(peers \cap Enabled) \in (peers \cap Enabled) \cup {None}
  BY FirstServerElement
<1>2. FirstServer(Enabled \ {source}) \in (Enabled \ {source}) \cup {None}
  BY FirstServerElement, NewTransferAssumption
<1>3. QED
  BY <1>1, <1>2, NewTransferAssumption DEF suggestedTargetServer, firstTargetServer

-----------------------------------------------------------------------------
(* Type correctness *)

FormType ==
  [artifact : ToSet(Artifacts) \cup {None}, placement : (DOMAIN Placements) \cup {None},
   target : ToSet(Servers) \cup {None}, path : Paths, touched : BOOLEAN,
   strategy : {"auto", "local_relay"}]

(* A request for a plan is a record; before the catalog is there nothing is  *)
(* chosen.                                                                   *)
TypeInv ==
  /\ TypeOK
  /\ ask = None \/ ask = [request |-> ask.request, sent |-> ask.sent]
  /\ ~loaded => form.artifact = None

LEMMA SuggestedIsPath ==
  ASSUME NEW a \in ToSet(Artifacts), NEW s \in ToSet(Servers)
  PROVE  Suggested(a, s) \in Paths
BY DEF Paths

LEMMA BlankType == Blank \in FormType
BY DEF Blank, FormType, Paths

(* The seeded form: of the right type, without a path, with nothing chosen   *)
(* before the catalog is there, and never aimed at its own source.           *)
LEMMA SeedType ==
  ASSUME NEW prefill
  PROVE  /\ Seed(prefill) \in FormType
         /\ Seed(prefill).path = <<>>
         /\ ~loaded => Seed(prefill).artifact = None
         /\ Seed(prefill).target = None \/ Seed(prefill).target # Source(Seed(prefill))
<1> DEFINE p == IF prefill \in PlacementIds THEN prefill ELSE None
           a == IF p # None THEN Placements[p].artifact ELSE FirstArtifact
           q == IF p # None THEN p ELSE FirstOf(PlacementsOf(a))
           t == suggestedTargetServer(None, peerServerIds(a, ServerOf(q)), ServerOf(q))
<1>1. p \in PlacementIds \cup {None} /\ PlacementIds \subseteq DOMAIN Placements
  BY DEF PlacementIds
<1>2. a \in ToSet(Artifacts) \cup {None} /\ (~loaded => a = None)
  <2>1. CASE p # None BY <2>1, <1>1, PlacementFields DEF PlacementIds
  <2>2. CASE p = None BY <2>2, Positions DEF FirstArtifact
  <2>3. QED BY <2>1, <2>2
<1>3. q \in (DOMAIN Placements) \cup {None}
  BY <1>1, FirstPlacement DEF PlacementsOf
<1> HIDE DEF p, a, q
<1>4. /\ t = None \/ t # ServerOf(q)
      /\ t \in ToSet(Servers) \cup {None}
  BY PeersAreOthers, SuggestionAvoidsSource
<1> HIDE DEF t
<1>5. Seed(prefill) = [artifact |-> a, placement |-> q, target |-> t,
                       path |-> <<>>, touched |-> FALSE, strategy |-> "auto"]
  <2>1. Seed(prefill) = [Blank EXCEPT !.artifact = a, !.placement = q, !.target = t]
    BY Zenon DEF Seed, p, a, q, t
  <2>2. QED BY <2>1 DEF Blank
<1>6. Seed(prefill).target = None \/ Seed(prefill).target # Source(Seed(prefill))
  BY <1>4, <1>5 DEF Source
<1>7. QED BY <1>2, <1>3, <1>4, <1>5, <1>6 DEF FormType, Paths

(* Asking for a path: the path of this form, or what was there before. *)
LEMMA AskPathType ==
  ASSUME NEW f \in FormType, NEW otherwise \in Paths \cup {None}
  PROVE  AskPath(f, otherwise) \in Paths \cup {None}
BY SuggestedIsPath DEF AskPath, WantsPath, FormType

(* The flags are Boolean. *)
Flags == {loaded, mounted, open, hint, planning, creating, post} \subseteq BOOLEAN

LEMMA TypeSplit ==
  TypeInv <=> /\ form \in FormType /\ suggest \in Paths \cup {None} /\ Flags
              /\ ask = None \/ ask = [request |-> ask.request, sent |-> ask.sent]
              /\ ~loaded => form.artifact = None
BY DEF TypeInv, TypeOK, FormType, Flags

LEMMA InitType == Init => TypeInv
<1> SUFFICES ASSUME Init PROVE TypeInv OBVIOUS
<1>1. form \in FormType BY BlankType DEF Init
<1>2. ~loaded => form.artifact = None BY DEF Init, Blank
<1>3. QED BY <1>1, <1>2, TypeSplit DEF Init, Flags

(* Asking for a plan keeps the request a record and planning a Boolean. *)
LEMMA AskPlanType ==
  ASSUME TypeInv, NEW f, AskPlan(f)
  PROVE  /\ ask' = None \/ ask' = [request |-> ask'.request, sent |-> ask'.sent]
         /\ planning' \in BOOLEAN
<1>1. CASE buildRequest(f) = None BY <1>1 DEF AskPlan, TypeInv, TypeOK
<1>2. CASE buildRequest(f) # None BY <1>2 DEF AskPlan, TypeInv, TypeOK
<1>3. QED BY <1>1, <1>2

(* A change of the open form keeps the types. *)
LEMMA ChangeType ==
  ASSUME TypeInv, NEW f \in FormType, Change(f), Rest, loaded \/ f.artifact = form.artifact
  PROVE  TypeInv'
<1>1. form' \in FormType BY DEF Change
<1>2. suggest' \in Paths \cup {None} BY AskPathType DEF Change, TypeInv, TypeOK
<1>3. /\ ask' = None \/ ask' = [request |-> ask'.request, sent |-> ask'.sent]
      /\ planning' \in BOOLEAN
  <2>1. CASE AskPlan(f) BY <2>1, AskPlanType
  <2>2. CASE UNCHANGED preview BY <2>2 DEF preview, TypeInv, TypeOK
  <2>3. QED BY <2>1, <2>2 DEF Change
<1>4. Flags' BY <1>3 DEF Flags, Rest, TypeInv, TypeOK
<1>5. ~loaded' => form'.artifact = None BY DEF Change, Rest, TypeInv
<1>6. QED BY <1>1, <1>2, <1>3, <1>4, <1>5 DEF TypeInv, TypeOK, FormType, Flags

(* Opening keeps the types. *)
LEMMA OpenType ==
  ASSUME TypeInv, NEW old \in FormType, NEW s \in Paths \cup {None}, NEW r, NEW b \in BOOLEAN,
         NEW prefill,
         r = None \/ r = [request |-> r.request, sent |-> r.sent],
         OpenWith(old, s, r, b, Seed(prefill)), loaded' = loaded,
         {mounted', creating', post'} \subseteq BOOLEAN
  PROVE  TypeInv'
<1>1. form' \in FormType BY SeedType DEF OpenWith
<1>2. suggest' \in Paths \cup {None}
  <2>1. AskPath(old, s) \in Paths \cup {None} BY AskPathType
  <2>2. Seed(prefill) \in FormType BY SeedType
  <2>3. AskPath(Seed(prefill), AskPath(old, s)) \in Paths \cup {None}
    BY <2>1, <2>2, AskPathType
  <2>4. QED BY <2>3 DEF OpenWith
<1>3. ask' = None \/ ask' = [request |-> ask'.request, sent |-> ask'.sent]
  BY DEF OpenWith
<1>4. Flags' BY DEF Flags, OpenWith, TypeInv, TypeOK
<1>5. ~loaded' => form'.artifact = None BY SeedType DEF OpenWith
<1>6. QED BY <1>1, <1>2, <1>3, <1>4, <1>5 DEF TypeInv, TypeOK, FormType, Flags

(* The fields an edit writes are of the right type. *)
LEMMA EditForms ==
  ASSUME TypeInv
  PROVE  /\ \A a \in ArtifactIds :
              LET p == FirstOf(PlacementsOf(a))
                  t == suggestedTargetServer(form.target, peerServerIds(a, ServerOf(p)), ServerOf(p))
              IN  [form EXCEPT !.artifact = a, !.placement = p, !.touched = FALSE,
                               !.target = t] \in FormType
         /\ \A p \in PlacementsOf(form.artifact) :
              [form EXCEPT !.placement = p,
                 !.target = IF @ \in {None, ServerOf(p)} THEN firstTargetServer(ServerOf(p))
                            ELSE @] \in FormType
         /\ \A s \in ServerIds : [form EXCEPT !.target = s] \in FormType
         /\ \A path \in Paths, b \in BOOLEAN :
              [form EXCEPT !.path = path, !.touched = b] \in FormType
         /\ \A path \in Paths : [form EXCEPT !.path = path] \in FormType
         /\ \A s \in {"auto", "local_relay"} : [form EXCEPT !.strategy = s] \in FormType
<1>0. form \in FormType BY DEF TypeInv, TypeOK, FormType
<1>1. ASSUME NEW a \in ArtifactIds
      PROVE  LET p == FirstOf(PlacementsOf(a))
                 t == suggestedTargetServer(form.target, peerServerIds(a, ServerOf(p)), ServerOf(p))
             IN  [form EXCEPT !.artifact = a, !.placement = p, !.touched = FALSE,
                              !.target = t] \in FormType
  <2> DEFINE p == FirstOf(PlacementsOf(a))
             t == suggestedTargetServer(form.target, peerServerIds(a, ServerOf(p)), ServerOf(p))
  <2>1. p \in (DOMAIN Placements) \cup {None}
    BY FirstPlacement DEF PlacementsOf, PlacementIds
  <2>2. a \in ToSet(Artifacts) BY DEF ArtifactIds
  <2> HIDE DEF p
  <2>3. t \in ToSet(Servers) \cup {None, form.target}
    BY PeersAreOthers, SuggestionAvoidsSource
  <2> HIDE DEF t
  <2>4. form.target \in ToSet(Servers) \cup {None} BY <1>0 DEF FormType
  <2>5. [form EXCEPT !.artifact = a, !.placement = p, !.touched = FALSE, !.target = t] \in FormType
    BY <1>0, <2>1, <2>2, <2>3, <2>4 DEF FormType
  <2>6. QED BY <2>5, Zenon DEF p, t
<1>2. ASSUME NEW p \in PlacementsOf(form.artifact)
      PROVE  [form EXCEPT !.placement = p,
                !.target = IF @ \in {None, ServerOf(p)} THEN firstTargetServer(ServerOf(p))
                           ELSE @] \in FormType
  <2>1. p \in DOMAIN Placements BY DEF PlacementsOf, PlacementIds
  <2>2. firstTargetServer(ServerOf(p)) \in ToSet(Servers) \cup {None}
    BY FirstServerElement, NewTransferAssumption DEF firstTargetServer
  <2>3. QED BY <1>0, <2>1, <2>2 DEF FormType
<1>3. \A s \in ServerIds : [form EXCEPT !.target = s] \in FormType
  BY <1>0 DEF FormType, ServerIds
<1>4. \A path \in Paths, b \in BOOLEAN :
        [form EXCEPT !.path = path, !.touched = b] \in FormType
  BY <1>0 DEF FormType
<1>5. \A path \in Paths : [form EXCEPT !.path = path] \in FormType BY <1>0 DEF FormType
<1>6. \A s \in {"auto", "local_relay"} : [form EXCEPT !.strategy = s] \in FormType
  BY <1>0 DEF FormType
<1>7. QED BY <1>1, <1>2, <1>3, <1>4, <1>5, <1>6, Zenon

(* Each edit but replan is a Change to a form of the right type, made when   *)
(* the catalog is there or leaving the artifact alone.                       *)
EditTo(f) == f \in FormType /\ Editing /\ Change(f) /\ Rest /\ (loaded \/ f.artifact = form.artifact)

LEMMA EditsAreChanges ==
  ASSUME TypeInv, Edit
  PROVE  replan \/ \E f \in FormType : EditTo(f)
<1>0. form \in FormType BY DEF TypeInv, TypeOK, FormType
<1>1. ASSUME NEW a \in ArtifactIds, chooseArtifact(a) PROVE \E f \in FormType : EditTo(f)
  <2>1. loaded BY DEF ArtifactIds
  <2>2. QED BY <1>1, <2>1, EditForms, Zenon DEF chooseArtifact, EditTo
<1>2. ASSUME NEW p \in PlacementsOf(form.artifact), chooseSource(p)
      PROVE  \E f \in FormType : EditTo(f)
  <2>1. loaded BY DEF PlacementsOf, PlacementIds
  <2>2. QED BY <1>2, <2>1, EditForms, Zenon DEF chooseSource, EditTo
<1>3. ASSUME NEW s \in ServerIds, chooseTarget(s) PROVE \E f \in FormType : EditTo(f)
  <2>1. loaded BY DEF ServerIds
  <2>2. QED BY <1>3, <2>1, EditForms, Zenon DEF chooseTarget, EditTo
<1>4. ASSUME NEW path \in {Typed, <<>>}, typePath(path) PROVE \E f \in FormType : EditTo(f)
  <2>1. path \in Paths BY DEF Paths
  <2> DEFINE f == [form EXCEPT !.path = path, !.touched = TRUE]
  <2>2. f \in FormType BY <2>1, EditForms, Zenon
  <2>3. f.artifact = form.artifact BY <1>0 DEF FormType
  <2>4. QED BY <1>4, <2>2, <2>3, Zenon DEF typePath, EditTo
<1>5. ASSUME NEW s \in {"auto", "local_relay"}, setStrategy(s) PROVE \E f \in FormType : EditTo(f)
  <2> DEFINE f == [form EXCEPT !.strategy = s]
  <2>2. f \in FormType BY EditForms, Zenon
  <2>3. f.artifact = form.artifact BY <1>0 DEF FormType
  <2>4. QED BY <1>5, <2>2, <2>3, Zenon DEF setStrategy, EditTo
<1>6. QED BY <1>1, <1>2, <1>3, <1>4, <1>5, Zenon DEF Edit

(* An answer to the suggestion shows a path, which the open dialog then      *)
(* plans for, or only the hint.                                              *)
Shows(path) ==
  /\ form' = [form EXCEPT !.path = path]
  /\ hint' = (path = <<>>)
  /\ IF open /\ path # form.path THEN AskPlan([form EXCEPT !.path = path]) ELSE UNCHANGED preview

LEMMA SuggestionCases ==
  ASSUME SuggestionArrives
  PROVE  /\ suggest # None /\ suggest' = None
         /\ Shows(suggest) \/ Shows(<<>>) \/ (hint' = TRUE /\ UNCHANGED <<form, preview>>)
         /\ UNCHANGED <<loaded, mounted, open, creating, post>>
BY Zenon DEF SuggestionArrives, Shows

LEMMA SuggestionType ==
  ASSUME TypeInv, SuggestionArrives
  PROVE  TypeInv'
<1>0. /\ form \in FormType /\ suggest \in Paths /\ <<>> \in Paths /\ Flags
      /\ suggest' = None /\ UNCHANGED <<loaded, mounted, open, creating, post>>
  BY SuggestionCases DEF TypeInv, TypeOK, FormType, Paths, Flags
<1>1. ASSUME NEW path \in Paths, Shows(path) PROVE TypeInv'
  <2>1. form' \in FormType BY <1>1, EditForms, Zenon DEF Shows
  <2>2. form'.artifact = form.artifact BY <1>0, <1>1 DEF Shows, FormType
  <2>3. /\ ask' = None \/ ask' = [request |-> ask'.request, sent |-> ask'.sent]
        /\ planning' \in BOOLEAN
    <3>1. CASE AskPlan([form EXCEPT !.path = path]) BY <3>1, AskPlanType
    <3>2. CASE UNCHANGED preview BY <3>2 DEF preview, TypeInv, TypeOK
    <3>3. QED BY <1>1, <3>1, <3>2 DEF Shows
  <2>4. hint' \in BOOLEAN BY <1>1 DEF Shows
  <2>5. QED BY <1>0, <2>1, <2>2, <2>3, <2>4 DEF TypeInv, TypeOK, FormType, Flags
<1>2. CASE hint' = TRUE /\ UNCHANGED <<form, preview>>
  BY <1>0, <1>2 DEF TypeInv, TypeOK, FormType, Flags, preview
<1>3. QED BY <1>0, <1>1, <1>2, SuggestionCases

LEMMA NextType == TypeInv /\ [Next]_vars => TypeInv'
<1> SUFFICES ASSUME TypeInv, [Next]_vars PROVE TypeInv'
  OBVIOUS
<1>0. /\ form \in FormType /\ suggest \in Paths \cup {None} /\ Flags
      /\ Blank \in FormType /\ Blank.artifact = None
      /\ {loaded, mounted, open, hint, planning, creating, post} \subseteq BOOLEAN
      /\ ask = None \/ ask = [request |-> ask.request, sent |-> ask.sent]
  BY BlankType DEF TypeInv, TypeOK, FormType, Flags, Blank
<1> USE DEF fields, preview
<1>1. CASE CatalogLoads BY <1>1 DEF CatalogLoads, TypeInv, TypeOK
<1>2. CASE Mount
  <2>1. CASE open
    <3>1. /\ OpenWith(Blank, None, None, FALSE, Seed(None)) /\ loaded' = loaded
          /\ {mounted', creating', post'} \subseteq BOOLEAN
      BY <1>0, <1>2, <2>1 DEF Mount
    <3>2. QED BY <1>0, <3>1, OpenType
  <2>2. CASE ~open BY <1>2, <2>2 DEF Mount, TypeInv, TypeOK
  <2>3. QED BY <2>1, <2>2
<1>3. CASE Unmount BY <1>0, <1>3 DEF Unmount, TypeInv, TypeOK, FormType
<1>4. CASE openNewTransfer
  <2>1. /\ OpenWith(form, suggest, ask, planning, Seed(None)) /\ loaded' = loaded
        /\ {mounted', creating', post'} \subseteq BOOLEAN /\ planning \in BOOLEAN
    BY <1>0, <1>4 DEF openNewTransfer
  <2>2. QED BY <1>0, <2>1, OpenType
<1>5. CASE closeNewTransfer BY <1>5 DEF closeNewTransfer, Closes, TypeInv, TypeOK
<1>6. ASSUME NEW p \in PlacementIds, OpenFromRow(p) PROVE TypeInv'
  <2>1. /\ OpenWith(Blank, None, None, FALSE, Seed(p)) /\ loaded' = loaded
        /\ {mounted', creating', post'} \subseteq BOOLEAN
    BY <1>0, <1>6 DEF OpenFromRow
  <2>2. QED BY <1>0, <2>1, OpenType
<1>7. CASE Edit
  <2>1. CASE replan
    <3>1. /\ AskPlan(form) /\ UNCHANGED <<form, suggest>>
          /\ UNCHANGED <<loaded, mounted, open, hint, creating, post>>
      BY <2>1 DEF replan, Rest
    <3>2. /\ ask' = None \/ ask' = [request |-> ask'.request, sent |-> ask'.sent]
          /\ planning' \in BOOLEAN
      BY <3>1, AskPlanType
    <3>3. QED BY <3>1, <3>2 DEF TypeInv, TypeOK
  <2>2. CASE \E f \in FormType : EditTo(f) BY <2>2, ChangeType DEF EditTo
  <2>3. QED BY <1>7, <2>1, <2>2, EditsAreChanges
<1>8. CASE SuggestionArrives BY <1>8, SuggestionType
<1>9. CASE DebounceEnds BY <1>0, <1>9 DEF DebounceEnds, TypeInv, TypeOK
<1>10. CASE PlanArrives BY <1>10 DEF PlanArrives, TypeInv, TypeOK
<1>11. CASE submit BY <1>11 DEF submit, TypeInv, TypeOK
<1>12. CASE Created
  <2>1. CASE open BY <1>12, <2>1 DEF Created, Closes, TypeInv, TypeOK
  <2>2. CASE ~open BY <1>12, <2>2 DEF Created, TypeInv, TypeOK
  <2>3. QED BY <2>1, <2>2
<1>13. CASE CreateFails BY <1>13 DEF CreateFails, TypeInv, TypeOK
<1>14. CASE UNCHANGED vars BY <1>14 DEF vars, TypeInv, TypeOK
<1>15. QED
  BY <1>1, <1>2, <1>3, <1>4, <1>5, <1>6, <1>7, <1>8, <1>9, <1>10, <1>11, <1>12, <1>13, <1>14
     DEF Next

(* Every field of the dialog keeps its type, whatever the catalog. *)
THEOREM TypeCorrect == Spec => []TypeOK
<1>1. TypeInv => TypeOK BY DEF TypeInv
<1>2. QED BY <1>1, InitType, NextType, PTL DEF Spec

-----------------------------------------------------------------------------
(* The plan beside the form *)

(* While the dialog is open with a complete form, a request on its way is    *)
(* that form's, so the answer that ends the planning is too. The property    *)
(* alone is not inductive: it says nothing while the dialog is planning.     *)
PlanInv ==
  /\ PlanIsForForm
  /\ open /\ ask # None /\ buildRequest(form) # None => ask.request = buildRequest(form)

(* A step after which the dialog is closed or its form incomplete keeps it. *)
LEMMA PlanIdle ==
  ASSUME ~open' \/ buildRequest(form') = None
  PROVE  PlanInv'
BY DEF PlanInv, PlanIsForForm, buildRequest

(* A step that asks for the plan of the form it leaves keeps it. *)
LEMMA PlanAsked ==
  ASSUME NEW f, form' = f, AskPlan(f)
  PROVE  PlanInv'
<1>1. CASE buildRequest(f) = None BY <1>1, PlanIdle
<1>2. CASE buildRequest(f) # None
  <2>1. planning' = TRUE /\ ask' = [request |-> buildRequest(f), sent |-> FALSE]
    BY <1>2 DEF AskPlan
  <2>2. buildRequest(form)' = buildRequest(f) BY Zenon DEF buildRequest
  <2>3. QED BY <2>1, <2>2 DEF PlanInv, PlanIsForForm
<1>3. QED BY <1>1, <1>2

(* So does a step that leaves alone what a plan depends on. *)
LEMMA PlanKept ==
  ASSUME PlanInv, buildRequest(form') = buildRequest(form), UNCHANGED <<open, preview>>
  PROVE  PlanInv'
BY DEF PlanInv, PlanIsForForm, buildRequest, preview

(* The typed mark is not part of a request. *)
LEMMA SameKeySameRequest ==
  ASSUME NEW f \in FormType, NEW g \in FormType, PlanKey(f) = PlanKey(g)
  PROVE  buildRequest(f) = buildRequest(g)
<1>1. /\ f.artifact = g.artifact /\ f.placement = g.placement
      /\ f.target = g.target /\ f.path = g.path
  BY DEF PlanKey, FormType
<1>2. [f EXCEPT !.touched = FALSE] = [g EXCEPT !.touched = FALSE] BY DEF PlanKey
<1>3. QED BY <1>1, <1>2, Zenon DEF buildRequest

LEMMA NoPathNoRequest ==
  ASSUME NEW f, f.path = <<>> \/ f.artifact = None
  PROVE  buildRequest(f) = None
BY DEF buildRequest

LEMMA OpenedIdle ==
  ASSUME NEW old, NEW s, NEW r, NEW b, NEW prefill, OpenWith(old, s, r, b, Seed(prefill))
  PROVE  buildRequest(form') = None
<1>1. form' = Seed(prefill) BY DEF OpenWith
<1>2. Seed(prefill).path = <<>> BY SeedType
<1>3. QED BY <1>1, <1>2, NoPathNoRequest

LEMMA NextPlan == TypeInv /\ PlanInv /\ [Next]_vars => PlanInv'
<1> SUFFICES ASSUME TypeInv, PlanInv, [Next]_vars PROVE PlanInv'
  OBVIOUS
<1>0. form \in FormType BY DEF TypeInv, TypeOK, FormType
<1> USE DEF fields, preview
<1>1. CASE CatalogLoads BY <1>1, PlanKept DEF CatalogLoads
<1>2. CASE Mount
  <2>1. CASE open BY <1>2, <2>1, OpenedIdle, PlanIdle DEF Mount
  <2>2. CASE ~open BY <1>2, <2>2, PlanIdle DEF Mount
  <2>3. QED BY <2>1, <2>2
<1>3. CASE Unmount
  <2>1. form'.artifact = None BY <1>3 DEF Unmount, Blank
  <2>2. QED BY <2>1, NoPathNoRequest, PlanIdle
<1>4. CASE openNewTransfer BY <1>4, OpenedIdle, PlanIdle DEF openNewTransfer
<1>5. CASE closeNewTransfer BY <1>5, PlanIdle DEF closeNewTransfer, Closes
<1>6. ASSUME NEW p \in PlacementIds, OpenFromRow(p) PROVE PlanInv'
  BY <1>6, OpenedIdle, PlanIdle DEF OpenFromRow
<1>7. CASE Edit
  <2>1. CASE replan BY <2>1, PlanAsked DEF replan
  <2>2. ASSUME NEW f \in FormType, EditTo(f) PROVE PlanInv'
    <3>1. form' = f BY <2>2 DEF EditTo, Change
    <3>2. CASE PlanKey(f) # PlanKey(form)
      BY <2>2, <3>1, <3>2, PlanAsked DEF EditTo, Change
    <3>3. CASE PlanKey(f) = PlanKey(form)
      BY <1>0, <2>2, <3>1, <3>3, SameKeySameRequest, PlanKept DEF EditTo, Change, Rest
    <3>4. QED BY <3>2, <3>3
  <2>3. QED BY <1>7, <2>1, <2>2, EditsAreChanges
<1>8. CASE SuggestionArrives
  <2>0. open' = open BY <1>8, SuggestionCases
  <2>1. ASSUME NEW path, Shows(path) PROVE PlanInv'
    <3>1. CASE ~open BY <2>0, <3>1, PlanIdle
    <3>2. CASE open /\ path # form.path BY <2>1, <3>2, PlanAsked DEF Shows
    <3>3. CASE open /\ path = form.path
      <4>1. form' = form BY <1>0, <2>1, <3>3 DEF Shows, FormType
      <4>2. QED BY <2>0, <2>1, <3>3, <4>1, PlanKept DEF Shows
    <3>4. QED BY <3>1, <3>2, <3>3
  <2>2. CASE hint' = TRUE /\ UNCHANGED <<form, preview>> BY <2>0, <2>2, PlanKept
  <2>3. QED BY <1>8, <2>1, <2>2, SuggestionCases
<1>9. CASE DebounceEnds
  <2>1. /\ ask' = [request |-> ask.request, sent |-> TRUE] /\ ask # None
        /\ UNCHANGED <<open, form, plan, planning>>
    BY <1>9 DEF DebounceEnds, TypeInv
  <2>2. QED BY <2>1 DEF PlanInv, PlanIsForForm, buildRequest
<1>10. CASE PlanArrives BY <1>10 DEF PlanArrives, PlanInv, PlanIsForForm, buildRequest
<1>11. CASE submit BY <1>11, PlanKept DEF submit
<1>12. CASE Created
  <2>1. CASE open BY <1>12, <2>1, PlanIdle DEF Created, Closes
  <2>2. CASE ~open BY <1>12, <2>2, PlanIdle DEF Created
  <2>3. QED BY <2>1, <2>2
<1>13. CASE CreateFails BY <1>13, PlanKept DEF CreateFails
<1>14. CASE UNCHANGED vars BY <1>14, PlanKept DEF vars
<1>15. QED
  BY <1>1, <1>2, <1>3, <1>4, <1>5, <1>6, <1>7, <1>8, <1>9, <1>10, <1>11, <1>12, <1>13, <1>14
     DEF Next

(* The plan shown is the plan of the form shown, for every catalog: the      *)
(* sequence number of the plan effect is enough to drop every stale answer.  *)
THEOREM PlanCorrect == Spec => []PlanIsForForm
<1>1. Init => PlanInv BY DEF Init, PlanInv, PlanIsForForm
<1>2. PlanInv => PlanIsForForm BY DEF PlanInv
<1>3. QED BY <1>1, <1>2, InitType, NextType, NextPlan, PTL DEF Spec

-----------------------------------------------------------------------------
(* The suggested path *)

(* While the open dialog wants a path, a suggestion on its way is the one    *)
(* for its artifact and target.                                              *)
PathInv ==
  /\ SuggestionIsForForm
  /\ open /\ WantsPath(form) /\ suggest # None => suggest = Suggested(form.artifact, form.target)

LEMMA NotWantedKeeps ==
  ASSUME ~open' \/ ~WantsPath(form)'
  PROVE  PathInv'
BY DEF PathInv, SuggestionIsForForm

LEMMA SuggestedIsSome ==
  ASSUME NEW f \in FormType, WantsPath(f)
  PROVE  Suggested(f.artifact, f.target) # None
<1>1. f.artifact \in ToSet(Artifacts) /\ f.target \in ToSet(Servers) BY DEF WantsPath, FormType
<1>2. QED BY <1>1, SuggestedIsPath, NewTransferAssumption

(* What a path depends on besides the path: equal keys want the same. *)
LEMMA SameKeySamePath ==
  ASSUME NEW f, NEW g, PathKey(f) = PathKey(g)
  PROVE  WantsPath(f) = WantsPath(g) /\ Suggested(f.artifact, f.target) = Suggested(g.artifact, g.target)
<1>1. f.touched = g.touched /\ f.artifact = g.artifact /\ f.target = g.target /\ Source(f) = Source(g)
  BY DEF PathKey
<1>2. QED BY <1>1 DEF WantsPath

(* Steps that leave the catalog alone see the same sources. *)
LEMMA SameCatalog ==
  ASSUME loaded' = loaded
  PROVE  WantsPath(form)' = WantsPath(form')
BY DEF WantsPath, Source, PlacementsOf, PlacementIds, ServerOf

(* A step that asks for the path of the form it leaves keeps it. *)
LEMMA PathAsked ==
  ASSUME NEW f \in FormType, NEW otherwise, form' = f, suggest' = AskPath(f, otherwise),
         loaded' = loaded
  PROVE  PathInv'
<1>1. WantsPath(form)' = WantsPath(f) BY SameCatalog
<1>2. CASE WantsPath(f)
  <2>1. suggest' = Suggested(f.artifact, f.target) /\ suggest' # None
    BY <1>2, SuggestedIsSome DEF AskPath
  <2>2. QED BY <2>1 DEF PathInv, SuggestionIsForForm
<1>3. CASE ~WantsPath(f) BY <1>1, <1>3, NotWantedKeeps
<1>4. QED BY <1>2, <1>3

(* So does one that leaves the key, the path, the hint and the suggestion. *)
LEMMA PathKept ==
  ASSUME PathInv, PathKey(form') = PathKey(form), form'.path = form.path \/ form'.touched,
         UNCHANGED <<loaded, open, hint, suggest>>
  PROVE  PathInv'
<1>1. WantsPath(form)' = WantsPath(form') BY SameCatalog
<1>2. /\ WantsPath(form') = WantsPath(form)
      /\ Suggested(form'.artifact, form'.target) = Suggested(form.artifact, form.target)
  BY SameKeySamePath
<1>3. CASE form'.touched BY <1>1, <1>3, NotWantedKeeps DEF WantsPath
<1>4. CASE form'.path = form.path
  BY <1>1, <1>2, <1>4 DEF PathInv, SuggestionIsForForm, Suggested
<1>5. QED BY <1>3, <1>4

LEMMA OpenedPath ==
  ASSUME NEW old, NEW s, NEW r, NEW b, NEW prefill, OpenWith(old, s, r, b, Seed(prefill)),
         loaded' = loaded
  PROVE  PathInv'
<1>1. Seed(prefill) \in FormType BY SeedType
<1>2. form' = Seed(prefill) /\ suggest' = AskPath(Seed(prefill), AskPath(old, s))
  BY DEF OpenWith
<1>3. QED BY <1>1, <1>2, PathAsked

(* An edit that keeps the key keeps the path, or marks it as typed. *)
LEMMA EditPaths ==
  ASSUME TypeInv, Edit
  PROVE  form'.path = form.path \/ form'.touched
<1>0. form \in FormType BY DEF TypeInv, TypeOK, FormType
<1>1. ASSUME NEW a \in ArtifactIds, chooseArtifact(a) PROVE form'.path = form.path
  BY <1>0, <1>1 DEF chooseArtifact, Change, FormType
<1>2. ASSUME NEW p \in PlacementsOf(form.artifact), chooseSource(p) PROVE form'.path = form.path
  BY <1>0, <1>2 DEF chooseSource, Change, FormType
<1>3. ASSUME NEW s \in ServerIds, chooseTarget(s) PROVE form'.path = form.path
  BY <1>0, <1>3 DEF chooseTarget, Change, FormType
<1>4. ASSUME NEW path \in {Typed, <<>>}, typePath(path) PROVE form'.touched
  BY <1>0, <1>4 DEF typePath, Change, FormType
<1>5. ASSUME NEW s \in {"auto", "local_relay"}, setStrategy(s) PROVE form'.path = form.path
  BY <1>0, <1>5 DEF setStrategy, Change, FormType
<1>6. CASE replan BY <1>6 DEF replan
<1>7. QED BY <1>1, <1>2, <1>3, <1>4, <1>5, <1>6, Zenon DEF Edit

LEMMA NextPath == TypeInv /\ PathInv /\ [Next]_vars => PathInv'
<1> SUFFICES ASSUME TypeInv, PathInv, [Next]_vars PROVE PathInv'
  OBVIOUS
<1>0. form \in FormType BY DEF TypeInv, TypeOK, FormType
<1> USE DEF fields, preview
<1>1. CASE CatalogLoads
  <2>1. form' = form /\ form.artifact = None BY <1>1 DEF CatalogLoads, TypeInv
  <2>2. ~WantsPath(form)' BY <2>1 DEF WantsPath
  <2>3. QED BY <2>2, NotWantedKeeps
<1>2. CASE Mount
  <2>1. CASE open BY <1>2, <2>1, OpenedPath DEF Mount
  <2>2. CASE ~open BY <1>2, <2>2, NotWantedKeeps DEF Mount
  <2>3. QED BY <2>1, <2>2
<1>3. CASE Unmount
  <2>1. ~WantsPath(form)' BY <1>3 DEF Unmount, WantsPath, Blank
  <2>2. QED BY <2>1, NotWantedKeeps
<1>4. CASE openNewTransfer BY <1>4, OpenedPath DEF openNewTransfer
<1>5. CASE closeNewTransfer BY <1>5, NotWantedKeeps DEF closeNewTransfer, Closes
<1>6. ASSUME NEW p \in PlacementIds, OpenFromRow(p) PROVE PathInv'
  BY <1>6, OpenedPath DEF OpenFromRow
<1>7. CASE Edit
  <2>1. CASE replan BY <2>1, PathKept DEF replan, Rest
  <2>2. ASSUME NEW f \in FormType, EditTo(f) PROVE PathInv'
    <3>1. form' = f /\ UNCHANGED <<loaded, open, hint>> BY <2>2 DEF EditTo, Change, Rest
    <3>2. CASE PathKey(f) # PathKey(form)
      BY <2>2, <3>1, <3>2, PathAsked DEF EditTo, Change
    <3>3. CASE PathKey(f) = PathKey(form)
      <4>1. suggest' = suggest BY <2>2, <3>3 DEF EditTo, Change
      <4>2. QED BY <1>7, <3>1, <3>3, <4>1, EditPaths, PathKept
    <3>4. QED BY <3>2, <3>3
  <2>3. QED BY <1>7, <2>1, <2>2, EditsAreChanges
<1>8. CASE SuggestionArrives
  <2>0. suggest' = None /\ UNCHANGED <<open, loaded>> /\ suggest # None
    BY <1>8, SuggestionCases
  <2>1. CASE ~open BY <2>0, <2>1, NotWantedKeeps
  <2>2. ASSUME open, NEW path, Shows(path), path \in {suggest, <<>>} PROVE PathInv'
    <3>1. /\ form'.path = path /\ form'.artifact = form.artifact /\ form'.target = form.target
          /\ form'.placement = form.placement /\ form'.touched = form.touched
      BY <1>0, <2>2 DEF Shows, FormType
    <3>2. WantsPath(form)' = WantsPath(form)
      BY <2>0, <3>1 DEF WantsPath, Source, PlacementsOf, PlacementIds, ServerOf
    <3>3. CASE WantsPath(form)
      <4>1. suggest = Suggested(form.artifact, form.target)
        BY <2>0, <2>2, <3>3 DEF PathInv
      <4>2. QED BY <2>0, <2>2, <3>1, <4>1 DEF PathInv, SuggestionIsForForm, Suggested
    <3>4. CASE ~WantsPath(form) BY <3>2, <3>4, NotWantedKeeps
    <3>5. QED BY <3>3, <3>4
  <2>3. CASE hint' = TRUE BY <2>0, <2>3 DEF PathInv, SuggestionIsForForm
  <2>4. QED BY <1>8, <2>1, <2>2, <2>3, SuggestionCases
<1>9. CASE DebounceEnds BY <1>9, PathKept DEF DebounceEnds
<1>10. CASE PlanArrives BY <1>10, PathKept DEF PlanArrives
<1>11. CASE submit BY <1>11, PathKept DEF submit
<1>12. CASE Created
  <2>1. CASE open BY <1>12, <2>1, NotWantedKeeps DEF Created, Closes
  <2>2. CASE ~open BY <1>12, <2>2, NotWantedKeeps DEF Created
  <2>3. QED BY <2>1, <2>2
<1>13. CASE CreateFails BY <1>13, PathKept DEF CreateFails
<1>14. CASE UNCHANGED vars BY <1>14, PathKept DEF vars
<1>15. QED
  BY <1>1, <1>2, <1>3, <1>4, <1>5, <1>6, <1>7, <1>8, <1>9, <1>10, <1>11, <1>12, <1>13, <1>14
     DEF Next

(* A path that is shown as suggested is the suggestion for this artifact and *)
(* target, for every catalog and however late the answers are.               *)
THEOREM SuggestionCorrect == Spec => []SuggestionIsForForm
<1>1. Init => PathInv BY DEF Init, PathInv, SuggestionIsForForm
<1>2. PathInv => SuggestionIsForForm BY DEF PathInv
<1>3. QED BY <1>1, <1>2, InitType, NextType, NextPath, PTL DEF Spec

-----------------------------------------------------------------------------
(* The target *)

NotAtSource == Source(form') # Source(form) /\ loaded => form'.target = None \/ form'.target # Source(form')

LEMMA OpenedElsewhere ==
  ASSUME NEW old, NEW s, NEW r, NEW b, NEW prefill, OpenWith(old, s, r, b, Seed(prefill))
  PROVE  NotAtSource
<1>1. form' = Seed(prefill) BY DEF OpenWith
<1>2. QED BY <1>1, SeedType DEF NotAtSource

(* Whatever the peers, no edit but the target select, no opening and no      *)
(* answer aims the transfer at the server it reads from.                     *)
THEOREM TargetCorrect == Spec => NeverAimedAtSource
<1>1. TypeInv /\ [Next]_vars => [NotAtSource]_vars
  <2> SUFFICES ASSUME TypeInv, Next PROVE NotAtSource OBVIOUS
  <2>0. form \in FormType BY DEF TypeInv, TypeOK, FormType
  <2> USE DEF fields, preview
  <2>1. ASSUME UNCHANGED form PROVE NotAtSource BY <2>1 DEF NotAtSource
  <2>2. CASE CatalogLoads \/ closeNewTransfer \/ DebounceEnds \/ PlanArrives \/ submit \/ CreateFails
    BY <2>1, <2>2
       DEF CatalogLoads, closeNewTransfer, Closes, DebounceEnds, PlanArrives, submit, CreateFails
  <2>3. CASE Mount
    <3>1. CASE open BY <2>3, <3>1, OpenedElsewhere DEF Mount
    <3>2. CASE ~open BY <2>1, <2>3, <3>2 DEF Mount
    <3>3. QED BY <3>1, <3>2
  <2>4. CASE Unmount BY <2>4 DEF Unmount, Blank, NotAtSource
  <2>5. CASE openNewTransfer BY <2>5, OpenedElsewhere DEF openNewTransfer
  <2>6. ASSUME NEW p \in PlacementIds, OpenFromRow(p) PROVE NotAtSource
    BY <2>6, OpenedElsewhere DEF OpenFromRow
  <2>7. ASSUME NEW a \in ArtifactIds, chooseArtifact(a) PROVE NotAtSource
    <3> DEFINE p == FirstOf(PlacementsOf(a))
               t == suggestedTargetServer(form.target, peerServerIds(a, ServerOf(p)), ServerOf(p))
    <3>1. form' = [form EXCEPT !.artifact = a, !.placement = p, !.touched = FALSE, !.target = t]
      BY <2>7, Zenon DEF chooseArtifact, Change
    <3> HIDE DEF p
    <3>2. t = None \/ t # ServerOf(p) BY PeersAreOthers, SuggestionAvoidsSource
    <3> HIDE DEF t
    <3>3. form'.placement = p /\ form'.target = t BY <2>0, <3>1 DEF FormType
    <3>4. Source(form') \in {ServerOf(p), None} BY <3>3 DEF Source
    <3>5. QED BY <3>2, <3>3, <3>4 DEF NotAtSource
  <2>8. ASSUME NEW p \in PlacementsOf(form.artifact), chooseSource(p) PROVE NotAtSource
    <3>1. FirstServer(Enabled \ {ServerOf(p)}) \in (Enabled \ {ServerOf(p)}) \cup {None}
      BY FirstServerElement, NewTransferAssumption
    <3>2. /\ form'.placement = p
          /\ form'.target = IF form.target \in {None, ServerOf(p)}
                            THEN firstTargetServer(ServerOf(p)) ELSE form.target
      BY <2>0, <2>8 DEF chooseSource, Change, FormType
    <3>3. Source(form') \in {ServerOf(p), None} BY <3>2 DEF Source
    <3>4. form'.target = None \/ form'.target # ServerOf(p) BY <3>1, <3>2 DEF firstTargetServer
    <3>5. QED BY <3>3, <3>4 DEF NotAtSource
  <2>9. ASSUME form'.placement = form.placement, form'.artifact = form.artifact PROVE NotAtSource
    BY <2>9 DEF NotAtSource, Source
  <2>10. ASSUME NEW s \in ServerIds, chooseTarget(s) PROVE NotAtSource
    BY <2>0, <2>9, <2>10 DEF chooseTarget, Change, FormType
  <2>11. ASSUME NEW path \in {Typed, <<>>}, typePath(path) PROVE NotAtSource
    BY <2>0, <2>9, <2>11 DEF typePath, Change, FormType
  <2>12. ASSUME NEW s \in {"auto", "local_relay"}, setStrategy(s) PROVE NotAtSource
    BY <2>0, <2>9, <2>12 DEF setStrategy, Change, FormType
  <2>13. CASE replan BY <2>1, <2>13 DEF replan
  <2>14. CASE SuggestionArrives
    <3>1. \/ UNCHANGED form
          \/ form' = [form EXCEPT !.path = suggest] \/ form' = [form EXCEPT !.path = <<>>]
      BY <2>14, SuggestionCases DEF Shows
    <3>2. QED BY <2>0, <2>1, <2>9, <3>1 DEF FormType
  <2>15. CASE Created BY <2>1, <2>15 DEF Created, Closes
  <2>16. CASE Edit
    BY <2>7, <2>8, <2>10, <2>11, <2>12, <2>13, <2>16, Zenon DEF Edit
  <2>17. QED
    BY <2>2, <2>3, <2>4, <2>5, <2>6, <2>14, <2>15, <2>16, Zenon DEF Next
<1>2. QED BY <1>1, InitType, NextType, PTL DEF Spec, NeverAimedAtSource, NotAtSource

-----------------------------------------------------------------------------
(* TRANSFER CENTER                                                           *)

(* The requests in flight are a bag of records. *)
WellFormed(r) == r = [op |-> r.op, job |-> r.job, served |-> r.served, answer |-> r.answer]
CenterInv ==
  /\ IsABag(requests) /\ \A r \in BagToSet(requests) : WellFormed(r)
  /\ BusyIsInFlight
  /\ PollingFollowsList

(* What is in flight after a request is made, after one is served and after  *)
(* one is over.                                                              *)
LEMMA RequestMade ==
  ASSUME CenterInv, NEW rs, \A r \in rs : WellFormed(r), requests' = With(rs, requests)
  PROVE  /\ IsABag(requests') /\ \A r \in BagToSet(requests') : WellFormed(r)
         /\ \A op : InFlight(op) \/ (\E r \in rs : r.op = op) => InFlight(op)'
<1>1. IsABag(requests') /\ BagToSet(requests') = BagToSet(requests) \cup rs
  BY BagSum, SetToBagFact DEF With, CenterInv
<1>2. \A r \in BagToSet(requests') : WellFormed(r)  BY <1>1 DEF CenterInv
<1>3. ASSUME NEW op, InFlight(op) \/ (\E r \in rs : r.op = op) PROVE InFlight(op)'
  BY <1>1, <1>3 DEF InFlight
<1> QED  BY <1>1, <1>2, <1>3

LEMMA RequestOver ==
  ASSUME CenterInv, NEW r \in BagToSet(requests)
  PROVE  LET B == Without(r, requests)
         IN  /\ IsABag(B) /\ \A q \in BagToSet(B) : WellFormed(q)
             /\ \A op : InFlight(op) /\ op # r.op => \E q \in BagToSet(B) : q.op = op
<1> DEFINE B == Without(r, requests)
<1>1. /\ IsABag(B) /\ BagToSet(B) \subseteq BagToSet(requests)
      /\ \A e \in BagToSet(requests) : e # r => e \in BagToSet(B)
  BY BagRemoveOne DEF Without, CenterInv
<1>2. \A q \in BagToSet(B) : WellFormed(q)  BY <1>1 DEF CenterInv
<1>3. ASSUME NEW op, InFlight(op), op # r.op PROVE \E q \in BagToSet(B) : q.op = op
  BY <1>1, <1>3 DEF InFlight
<1> QED  BY <1>1, <1>2, <1>3

LEMMA RequestReplaced ==
  ASSUME CenterInv, NEW r \in BagToSet(requests), NEW q, WellFormed(q),
         requests' = With({q}, Without(r, requests))
  PROVE  /\ IsABag(requests') /\ \A e \in BagToSet(requests') : WellFormed(e)
         /\ \A op : InFlight(op) /\ op # r.op => InFlight(op)'
         /\ InFlight(q.op)'
<1> DEFINE B == Without(r, requests)
<1>1. /\ IsABag(B) /\ \A e \in BagToSet(B) : WellFormed(e)
      /\ \A op : InFlight(op) /\ op # r.op => \E e \in BagToSet(B) : e.op = op
  BY RequestOver
<1>2. requests' = With({q}, B)  OBVIOUS
<1> HIDE DEF B
<1>3. IsABag(requests') /\ BagToSet(requests') = BagToSet(B) \cup {q}
  <2>1. requests' = B (+) SetToBag({q}) /\ IsABag(B)  BY <1>1, <1>2 DEF With
  <2>2. IsABag(B (+) SetToBag({q})) /\ BagToSet(B (+) SetToBag({q})) = BagToSet(B) \cup {q}
    BY <2>1, BagAddOne, Zenon
  <2> QED  BY <2>1, <2>2, Zenon
<1>4. ASSUME NEW op, InFlight(op), op # r.op PROVE InFlight(op)'
  BY <1>1, <1>3, <1>4 DEF InFlight
<1>5. InFlight(q.op)'  BY <1>3 DEF InFlight
<1>6. \A e \in BagToSet(requests') : WellFormed(e)  BY <1>1, <1>3
<1> QED  BY <1>3, <1>4, <1>5, <1>6

LEMMA NewRequests ==
  /\ WellFormed(Jobs1) /\ Jobs1.op = "listJobs"
  /\ WellFormed(Batches1) /\ Batches1.op = "listBatches"
  /\ \A op, job : WellFormed(Request(op, job))
BY DEF WellFormed, Jobs1, Batches1, Request

(* Steps that only make requests, serve them or end a change. *)
LEMMA StoreKept ==
  ASSUME CenterInv, UNCHANGED <<page, list, groups, timer>>,
         IsABag(requests'), \A r \in BagToSet(requests') : WellFormed(r),
         \A op \in Listings : InFlight(op) => InFlight(op)'
  PROVE  CenterInv'
<1>1. /\ InFlight("listJobs") => InFlight("listJobs")'
      /\ InFlight("listBatches") => InFlight("listBatches")'
  BY DEF Listings
<1>2. BusyIsInFlight'  BY <1>1 DEF CenterInv, BusyIsInFlight, list, groups
<1>3. Active(jobs, batches)' <=> Active(jobs, batches)
  BY DEF Active, isActiveTransferState, isActiveBatchState, list, groups
<1>4. PollingFollowsList'
  BY <1>1, <1>3 DEF CenterInv, PollingFollowsList, isActiveBatchState, list, groups
<1> QED  BY <1>2, <1>4 DEF CenterInv

LEMMA SendKeeps ==
  ASSUME CenterInv, NEW op, NEW job, Send(op, job)
  PROVE  CenterInv'
<1>1. requests' = With({Request(op, job)}, requests) /\ UNCHANGED <<page, list, groups, timer>>
  BY DEF Send
<1>2. \A r \in {Request(op, job)} : WellFormed(r)  BY NewRequests
<1> QED  BY <1>1, <1>2, RequestMade, StoreKept

LEMMA Answered ==
  ASSUME NEW r, WellFormed(r), NEW a
  PROVE  /\ WellFormed([r EXCEPT !.served = TRUE, !.answer = a])
         /\ [r EXCEPT !.served = TRUE, !.answer = a].op = r.op
<1> DEFINE R == [op : {r.op}, job : {r.job}, served : {r.served, TRUE}, answer : {r.answer, a}]
           q == [r EXCEPT !.served = TRUE, !.answer = a]
<1>1. r \in R  BY DEF WellFormed
<1>2. q \in R /\ q.op = r.op  BY <1>1
<1> HIDE DEF q
<1>3. q = [op |-> q.op, job |-> q.job, served |-> q.served, answer |-> q.answer]  BY <1>2
<1> QED  BY <1>2, <1>3, Zenon DEF WellFormed, q

LEMMA ServeKeeps ==
  ASSUME CenterInv, NEW r \in BagToSet(requests), Serve(r)
  PROVE  CenterInv'
<1>1. PICK a : Answer(r, a)  BY DEF Serve, ServeList
<1> DEFINE q == [r EXCEPT !.served = TRUE, !.answer = a]
<1>2. WellFormed(r)  BY DEF CenterInv
<1>3. WellFormed(q) /\ q.op = r.op  BY <1>2, Answered
<1>4. requests' = With({q}, Without(r, requests))  BY <1>1 DEF Answer
<1> HIDE DEF q
<1>5. /\ IsABag(requests') /\ \A e \in BagToSet(requests') : WellFormed(e)
      /\ \A op : InFlight(op) /\ op # r.op => InFlight(op)'
      /\ InFlight(q.op)'
  BY <1>3, <1>4, RequestReplaced
<1>6. \A op \in Listings : InFlight(op) => InFlight(op)'  BY <1>3, <1>5
<1>7. UNCHANGED <<page, list, groups, timer>>  BY DEF Serve
<1> QED  BY <1>5, <1>6, <1>7, StoreKept

(* Opening a page, a tick and a load by hand: the flags go up with the       *)
(* requests.                                                                 *)
LEMMA LoadKeeps ==
  ASSUME CenterInv, tick \/ loadJobs \/ OpenTransfers \/ OpenProject
  PROVE  CenterInv'
<1> USE DEF list, groups
<1>0. /\ BusyIsInFlight /\ PollingFollowsList
      /\ WellFormed(Jobs1) /\ Jobs1.op = "listJobs"
      /\ WellFormed(Batches1) /\ Batches1.op = "listBatches"
  BY NewRequests DEF CenterInv
<1>1. PICK rs \in {{Jobs1}, {Batches1}, {Jobs1, Batches1}} :
        /\ requests' = With(rs, requests)
        /\ loading' => loading \/ Jobs1 \in rs
        /\ batchesLoading' => batchesLoading \/ Batches1 \in rs
        /\ page' = "transfers" => Jobs1 \in rs \/ (page = "transfers" /\ UNCHANGED timer)
  BY DEF tick, loadJobs, OpenTransfers, OpenProject
<1>2. \A r \in rs : WellFormed(r)  BY <1>0, <1>1
<1>3. /\ IsABag(requests') /\ \A r \in BagToSet(requests') : WellFormed(r)
      /\ \A op : InFlight(op) \/ (\E r \in rs : r.op = op) => InFlight(op)'
  BY <1>1, <1>2, RequestMade
<1>4. /\ InFlight("listJobs") \/ Jobs1 \in rs => InFlight("listJobs")'
      /\ InFlight("listBatches") \/ Batches1 \in rs => InFlight("listBatches")'
  BY <1>0, <1>3
<1>5. BusyIsInFlight'  BY <1>0, <1>1, <1>4 DEF BusyIsInFlight
<1>6. jobs' = jobs /\ batches' = batches /\ error' = error
  BY DEF tick, loadJobs, OpenTransfers, OpenProject
<1>7. Active(jobs, batches)' <=> Active(jobs, batches)
  BY <1>6 DEF Active, isActiveTransferState, isActiveBatchState
<1>8. timer' => Active(jobs, batches)
  BY <1>0 DEF PollingFollowsList, tick, loadJobs, OpenTransfers, OpenProject, LeavePage, syncPolling
<1>9. page' = "project" /\ isActiveBatchState(batches) => timer'
  BY <1>0 DEF PollingFollowsList, tick, loadJobs, OpenTransfers, OpenProject, syncPolling, Active
<1>10. page' = "transfers" /\ Active(jobs, batches) => timer' \/ InFlight("listJobs")' \/ error
  BY <1>0, <1>1, <1>4 DEF PollingFollowsList
<1>11. PollingFollowsList'
  BY <1>6, <1>7, <1>8, <1>9, <1>10 DEF PollingFollowsList, isActiveBatchState
<1> QED  BY <1>3, <1>5, <1>11 DEF CenterInv

(* A listing that arrives clears its flag and sets the timer to the law. *)
LEMMA ListingKeeps ==
  ASSUME CenterInv, NEW r \in BagToSet(requests), JobsArrive(r) \/ BatchesArrive(r)
  PROVE  CenterInv'
<1> USE DEF list, groups
<1>0. BusyIsInFlight  BY DEF CenterInv
<1>1. requests' = Without(r, requests)  BY DEF JobsArrive, BatchesArrive
<1>2. /\ IsABag(requests') /\ \A q \in BagToSet(requests') : WellFormed(q)
      /\ \A op : InFlight(op) /\ op # r.op => InFlight(op)'
  BY <1>1, RequestOver DEF InFlight
<1>3. BusyIsInFlight'
  BY <1>0, <1>2 DEF BusyIsInFlight, JobsArrive, BatchesArrive
<1>4. timer' = Active(jobs, batches)'
  BY DEF JobsArrive, BatchesArrive, syncPolling, Active, isActiveTransferState, isActiveBatchState
<1>5. isActiveBatchState(batches)' => Active(jobs, batches)'  BY DEF Active
<1>6. PollingFollowsList'  BY <1>4, <1>5 DEF PollingFollowsList
<1> QED  BY <1>2, <1>3, <1>6 DEF CenterInv

(* A change that was accepted is followed by a listing. *)
LEMMA ChangeKeeps ==
  ASSUME CenterInv, NEW r \in BagToSet(requests), ChangeArrives(r)
  PROVE  CenterInv'
<1> USE DEF list, groups
<1>0. /\ BusyIsInFlight /\ PollingFollowsList /\ r.op \notin Listings
      /\ WellFormed(Jobs1) /\ Jobs1.op = "listJobs"
      /\ WellFormed(Batches1) /\ Batches1.op = "listBatches"
  BY NewRequests DEF CenterInv, ChangeArrives
<1>1. PICK q \in {Jobs1, Batches1} :
        /\ requests' = With({q}, Without(r, requests))
        /\ loading' => loading \/ q = Jobs1
        /\ batchesLoading' => batchesLoading \/ q = Batches1
  BY DEF ChangeArrives
<1>2. /\ IsABag(requests') /\ \A e \in BagToSet(requests') : WellFormed(e)
      /\ \A op : InFlight(op) /\ op # r.op => InFlight(op)'
      /\ InFlight(q.op)'
  BY <1>0, <1>1, RequestReplaced
<1>3. /\ InFlight("listJobs") \/ q = Jobs1 => InFlight("listJobs")'
      /\ InFlight("listBatches") \/ q = Batches1 => InFlight("listBatches")'
  BY <1>0, <1>2 DEF Listings
<1>4. BusyIsInFlight'  BY <1>0, <1>1, <1>3 DEF BusyIsInFlight
<1>5. UNCHANGED <<page, jobs, error, batches, timer>>  BY DEF ChangeArrives
<1>6. Active(jobs, batches)' <=> Active(jobs, batches)
  BY <1>5 DEF Active, isActiveTransferState, isActiveBatchState
<1>7. PollingFollowsList'
  BY <1>0, <1>3, <1>5, <1>6 DEF PollingFollowsList, isActiveBatchState
<1> QED  BY <1>2, <1>4, <1>7 DEF CenterInv

(* A request that fails clears its flag; a failed list of jobs is an error.  *)
LEMMA FailureKeeps ==
  ASSUME CenterInv, NEW r \in BagToSet(requests), Fails(r) \/ Refused(r)
  PROVE  CenterInv'
<1> USE DEF list, groups
<1>0. BusyIsInFlight /\ PollingFollowsList  BY DEF CenterInv
<1>1. requests' = Without(r, requests)  BY DEF Fails, Refused
<1>2. /\ IsABag(requests') /\ \A q \in BagToSet(requests') : WellFormed(q)
      /\ \A op : InFlight(op) /\ op # r.op => InFlight(op)'
  BY <1>1, RequestOver DEF InFlight
<1>3. CASE Refused(r)
  <2>1. UNCHANGED <<page, list, groups, timer>> /\ r.op \notin Listings  BY <1>3 DEF Refused
  <2> QED  BY <1>2, <2>1, StoreKept
<1>4. CASE Fails(r)
  <2>1. BusyIsInFlight'  BY <1>0, <1>2, <1>4 DEF BusyIsInFlight, Fails
  <2>2. UNCHANGED <<page, jobs, batches, timer>> /\ (r.op = "listJobs" => error')
        /\ (r.op # "listJobs" => error' = error)
    BY <1>4 DEF Fails
  <2>3. Active(jobs, batches)' <=> Active(jobs, batches)
    BY <2>2 DEF Active, isActiveTransferState, isActiveBatchState
  <2>4. PollingFollowsList'
    BY <1>0, <1>2, <2>2, <2>3 DEF PollingFollowsList, isActiveBatchState
  <2> QED  BY <1>2, <2>1, <2>4 DEF CenterInv
<1> QED  BY <1>3, <1>4

LEMMA CenterStep == CenterInv /\ [CenterNext]_centerVars => CenterInv'
<1> SUFFICES ASSUME CenterInv, [CenterNext]_centerVars PROVE CenterInv'
  OBVIOUS
<1>1. ASSUME UNCHANGED <<requests, page, list, groups, timer>> PROVE CenterInv'
  <2>1. IsABag(requests') /\ (\A r \in BagToSet(requests') : WellFormed(r))
        /\ (\A op \in Listings : InFlight(op) => InFlight(op)')
    BY <1>1 DEF CenterInv, InFlight
  <2> QED  BY <1>1, <2>1, StoreKept
<1>2. CASE tick \/ loadJobs \/ OpenTransfers \/ OpenProject  BY <1>2, LoadKeeps
<1>3. CASE LeaveForOther
  <2>1. UNCHANGED <<requests, list, groups>> /\ page' = "other" /\ timer' = FALSE
    BY <1>3 DEF LeaveForOther, stopPolling
  <2>2. BusyIsInFlight'  BY <2>1 DEF CenterInv, BusyIsInFlight, InFlight, list, groups
  <2>3. PollingFollowsList'  BY <2>1 DEF PollingFollowsList
  <2> QED  BY <2>1, <2>2, <2>3 DEF CenterInv
<1>4. CASE createTransfer \/ clearHistory \/ syncProject \/ \E j \in Jobs : cancelJob(j) \/ retryJob(j)
  BY <1>4, SendKeeps DEF createTransfer, clearHistory, syncProject, cancelJob, retryJob
<1>5. ASSUME NEW j \in Jobs, JobEnds(j) PROVE CenterInv'  BY <1>1, <1>5 DEF JobEnds
<1>6. ASSUME NEW r \in BagToSet(requests), Serve(r) \/ Arrive(r) \/ Fails(r) \/ Refused(r)
      PROVE  CenterInv'
  BY <1>6, ServeKeeps, ListingKeeps, ChangeKeeps, FailureKeeps DEF Arrive
<1>7. CASE UNCHANGED centerVars  BY <1>1, <1>7 DEF centerVars
<1> QED  BY <1>2, <1>3, <1>4, <1>5, <1>6, <1>7 DEF CenterNext, Visit, UserAct

LEMMA CenterStart == CenterInit => CenterInv
<1> SUFFICES ASSUME CenterInit PROVE CenterInv  OBVIOUS
<1>1. IsABag(requests) /\ BagToSet(requests) = {}  BY EmptyBagFact DEF CenterInit
<1>2. BusyIsInFlight  BY DEF CenterInit, BusyIsInFlight
<1>3. PollingFollowsList  BY DEF CenterInit, PollingFollowsList
<1> QED  BY <1>1, <1>2, <1>3 DEF CenterInv

(* transferStore never waits for an answer that does not come: a loading     *)
(* flag is up only while a request whose end clears it is in flight, for any *)
(* number of jobs, of overlapping listings and of failures.                  *)
THEOREM CenterBusyCorrect == CenterSpec => []BusyIsInFlight
<1>1. CenterInv => BusyIsInFlight  BY DEF CenterInv
<1> QED  BY <1>1, CenterStart, CenterStep, PTL DEF CenterSpec

(* The polling law (transferStore.ts, syncPolling): the timer never runs for *)
(* a list without anything active, and where a page shows something active   *)
(* it runs, or the list is being loaded, or the page says that failed.       *)
THEOREM PollingCorrect == CenterSpec => []PollingFollowsList
<1>1. CenterInv => PollingFollowsList  BY DEF CenterInv
<1> QED  BY <1>1, CenterStart, CenterStep, PTL DEF CenterSpec
=============================================================================
