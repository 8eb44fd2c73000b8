---------------------------- MODULE NewTransfer ----------------------------
(* The new-transfer dialog (frontend/src/features/transfers/                 *)
(* NewTransferDialog.tsx): a form seeded when it opens, a target path that   *)
(* the backend suggests until the user types one, and a plan that is asked   *)
(* for after every change, debounced. Answers come late; a sequence number   *)
(* drops the ones that a newer request has superseded, so only the newest    *)
(* suggestion and the newest plan are kept here. React runs the effects of a *)
(* change after it, with the values of that render.                          *)
EXTENDS Integers, Sequences, SequencesExt

CONSTANTS Servers,     \* sequence of registered server ids
          Enabled,     \* the enabled ones
          Artifacts,   \* sequence of artifact ids
          Placements,  \* sequence of records [artifact, server], numbered from 1
          Projects,    \* set of sets of artifacts
          None         \* "", null or undefined

Suggested(a, s) == <<a, s>>
Typed == <<"typed">>

(* A target path is none, typed by the user, or what the backend suggests    *)
(* for an artifact and a server.                                             *)
Paths == {<<>>, Typed} \cup {Suggested(a, s) : a \in ToSet(Artifacts), s \in ToSet(Servers)}

ASSUME NewTransferAssumption ==
  /\ Servers \in Seq(ToSet(Servers)) /\ Artifacts \in Seq(ToSet(Artifacts))
  /\ Placements \in Seq(ToSet(Placements))
  /\ Enabled \subseteq ToSet(Servers)
  /\ ToSet(Placements) \subseteq [artifact : ToSet(Artifacts), server : ToSet(Servers)]
  /\ None \notin ToSet(Servers) \cup ToSet(Artifacts) \cup Paths
  /\ None \notin DOMAIN Servers \cup DOMAIN Placements

VARIABLES
  loaded,    \* the catalog and the server list are in their stores
  mounted,   \* the transfers page is mounted
  open,      \* dialog.open of the store
  form, hint,                    \* the component: fields and path hint
  suggest,                       \* the suggestion in flight
  plan, planning, ask,           \* the plan shown, the busy line, the request
  creating,                      \* the component's busy flag
  post                           \* POST /transfers in flight

fields == <<form, hint, suggest>>
preview == <<plan, planning, ask>>
vars == <<loaded, mounted, open, fields, preview, creating, post>>

ArtifactIds == IF loaded THEN ToSet(Artifacts) ELSE {}
PlacementIds == IF loaded THEN DOMAIN Placements ELSE {}
PlacementsOf(a) == {p \in PlacementIds : Placements[p].artifact = a}
ServerIds == IF loaded THEN ToSet(Servers) ELSE {}
FirstArtifact == IF loaded /\ Artifacts # <<>> THEN Artifacts[1] ELSE None

FirstOf(S) == IF S = {} THEN None ELSE CHOOSE i \in S : \A k \in S : i <= k
ServerOf(p) == IF p = None THEN None ELSE Placements[p].server

-----------------------------------------------------------------------------
(* The target suggestion. Server lists are searched in order. *)

FirstServer(S) ==
  LET i == FirstOf({k \in DOMAIN Servers : Servers[k] \in S /\ loaded})
  IN  IF i = None THEN None ELSE Servers[i]

firstTargetServer(exclude) == FirstServer(Enabled \ {exclude})

(* Mutant of peerServerIds: the source is a peer of itself. *)
peerServersAll(a, source) ==
  LET mates == UNION {P \in Projects : a \in P}
  IN  {Placements[p].server : p \in {q \in PlacementIds : Placements[q].artifact \in mates}}

(* The servers with a placement of an artifact of a project of a. *)
peerServerIds(a, source) ==
  LET mates == UNION {P \in Projects : a \in P}
  IN  {Placements[p].server : p \in {q \in PlacementIds : Placements[q].artifact \in mates}}
        \ {source}

suggestedTargetServer(current, peers, source) ==
  IF current \in peers THEN current
  ELSE IF peers \cap Enabled # {} THEN FirstServer(peers \cap Enabled)
  ELSE IF current \in {None, source} THEN firstTargetServer(source)
  ELSE current

-----------------------------------------------------------------------------
(* The form *)

Blank == [artifact |-> None, placement |-> None, target |-> None,
          path |-> <<>>, touched |-> FALSE, strategy |-> "auto"]
Source(f) == IF f.placement \in PlacementsOf(f.artifact) THEN ServerOf(f.placement) ELSE None

buildRequest(f) ==
  IF None \in {f.artifact, f.placement, f.target} \/ f.path = <<>> THEN None
  ELSE [f EXCEPT !.touched = FALSE]

(* What the dialog shows when it opens, from the row it was opened on. *)
Seed(prefill) ==
  LET p == IF prefill \in PlacementIds THEN prefill ELSE None
      a == IF p # None THEN Placements[p].artifact ELSE FirstArtifact
      q == IF p # None THEN p ELSE FirstOf(PlacementsOf(a))
  IN  [Blank EXCEPT !.artifact = a, !.placement = q,
         !.target = suggestedTargetServer(None, peerServerIds(a, ServerOf(q)), ServerOf(q))]

-----------------------------------------------------------------------------
(* Effects *)

(* The path is asked for while it is not typed and the servers differ. *)
WantsPath(f) ==
  ~f.touched /\ f.target \notin {None, Source(f)} /\ f.artifact # None

(* Mutant of AskPath: the request for the old target is not cancelled. *)
AskPathOnce(f, otherwise) ==
  IF otherwise # None THEN otherwise
  ELSE IF WantsPath(f) THEN Suggested(f.artifact, f.target) ELSE None

AskPath(f, otherwise) == IF WantsPath(f) THEN Suggested(f.artifact, f.target) ELSE otherwise

PathKey(f) == <<f.touched, f.artifact, f.target, Source(f)>>

(* Mutant of AskPlan: a request that was sent is not replaced. *)
AskPlanUnlessSent(f) ==
  IF buildRequest(f) = None \/ (ask # None /\ ask.sent)
  THEN UNCHANGED <<plan, ask, planning>>
  ELSE /\ ask' = [request |-> buildRequest(f), sent |-> FALSE]
       /\ planning' = TRUE
       /\ UNCHANGED plan

(* A complete form asks for a plan after the debounce; an incomplete one     *)
(* drops the plan and the debounce, but not a request that was sent.         *)
AskPlan(f) ==
  IF buildRequest(f) = None
  THEN /\ plan' = None
       /\ ask' = IF ask # None /\ ask.sent THEN ask ELSE None
       /\ UNCHANGED planning
  ELSE /\ ask' = [request |-> buildRequest(f), sent |-> FALSE]
       /\ planning' = TRUE
       /\ UNCHANGED plan

PlanKey(f) == [f EXCEPT !.touched = FALSE]

(* A change of the open form and the effects it triggers. *)
Change(f) ==
  /\ form' = f
  /\ suggest' = IF PathKey(f) # PathKey(form) THEN AskPath(f, suggest) ELSE suggest
  /\ IF PlanKey(f) # PlanKey(form) THEN AskPlan(f) ELSE UNCHANGED preview

(* Opening runs the effects twice: with the fields of the last time, then    *)
(* with the seeded ones.                                                     *)
OpenWith(old, oldSuggest, oldAsk, oldPlanning, f) ==
  /\ open' = TRUE
  /\ form' = f /\ hint' = FALSE /\ plan' = None
  /\ suggest' = AskPath(f, AskPath(old, oldSuggest))
  /\ ask' = IF buildRequest(old) = None /\ oldAsk # None /\ oldAsk.sent THEN oldAsk ELSE None
  /\ planning' = (oldPlanning \/ buildRequest(old) # None)

-----------------------------------------------------------------------------
(* Opening and closing *)

CatalogLoads ==
  /\ ~loaded
  /\ loaded' = TRUE
  /\ UNCHANGED <<mounted, open, fields, preview, creating, post>>

(* The button of the page, and a row of the workspace, which also mounts the *)
(* page: a new component starts from nothing.                                *)
openNewTransfer ==
  /\ mounted /\ ~open
  /\ OpenWith(form, suggest, ask, planning, Seed(None))
  /\ UNCHANGED <<loaded, mounted, creating, post>>

OpenFromRow(p) ==
  /\ ~mounted
  /\ mounted' = TRUE
  /\ OpenWith(Blank, None, None, FALSE, Seed(p))
  /\ creating' = FALSE
  /\ UNCHANGED <<loaded, post>>

(* The store keeps dialog.open when the page goes. *)
Mount ==
  /\ ~mounted
  /\ mounted' = TRUE
  /\ IF open THEN OpenWith(Blank, None, None, FALSE, Seed(None))
     ELSE UNCHANGED <<open, fields, preview>>
  /\ UNCHANGED <<loaded, creating, post>>

Unmount ==
  /\ mounted
  /\ mounted' = FALSE
  /\ form' = Blank /\ hint' = FALSE /\ suggest' = None
  /\ plan' = None /\ planning' = FALSE /\ ask' = None /\ creating' = FALSE
  /\ UNCHANGED <<loaded, open, post>>

(* Escape, the overlay and the cross close the dialog also while it posts. *)
Closes ==
  /\ open' = FALSE
  /\ plan' = None /\ ask' = IF ask # None /\ ask.sent THEN ask ELSE None
  /\ UNCHANGED <<form, hint, suggest, planning>>

closeNewTransfer ==
  /\ mounted /\ open
  /\ Closes
  /\ UNCHANGED <<loaded, mounted, creating, post>>

-----------------------------------------------------------------------------
(* Editing *)

Editing == mounted /\ open
Rest == UNCHANGED <<loaded, mounted, open, hint, creating, post>>

(* A select whose value is not among its options shows the first one, and    *)
(* choosing what is shown is no change.                                      *)
Shown(value, options, first) == IF value \in options THEN value ELSE first

(* A new artifact voids the typed path and re-aims the target. *)
chooseArtifact(a) ==
  LET p == FirstOf(PlacementsOf(a))
      source == ServerOf(p)
  IN  /\ Editing /\ a # Shown(form.artifact, ArtifactIds, Artifacts[1])
      /\ Change([form EXCEPT !.artifact = a, !.placement = p, !.touched = FALSE,
                   !.target = suggestedTargetServer(@, peerServerIds(a, source), source)])
      /\ Rest

chooseSource(p) ==
  LET source == ServerOf(p)
  IN  /\ Editing
      /\ p # Shown(form.placement, PlacementsOf(form.artifact), FirstOf(PlacementsOf(form.artifact)))
      /\ Change([form EXCEPT !.placement = p,
                   !.target = IF @ \in {None, source} THEN firstTargetServer(source) ELSE @])
      /\ Rest

chooseTarget(s) ==
  /\ Editing /\ s # Shown(form.target, ServerIds, Servers[1])
  /\ Change([form EXCEPT !.target = s])
  /\ Rest

typePath(path) ==
  /\ Editing /\ path # form.path
  /\ Change([form EXCEPT !.path = path, !.touched = TRUE])
  /\ Rest

setStrategy(s) ==
  /\ Editing /\ s # form.strategy
  /\ Change([form EXCEPT !.strategy = s])
  /\ Rest

(* After direct transfers were set up: once more with the same form. *)
replan ==
  /\ Editing /\ plan # None /\ form.target \notin {None, Source(form)} /\ Source(form) # None
  /\ AskPlan(form)
  /\ UNCHANGED <<form, suggest>> /\ Rest

-----------------------------------------------------------------------------
(* Answers *)

(* The backend suggests a path, or none when the server has no root. *)
SuggestionArrives ==
  /\ suggest # None
  /\ suggest' = None
  /\ LET Show(path) ==
           /\ form' = [form EXCEPT !.path = path]
           /\ hint' = (path = <<>>)
           /\ IF open /\ path # form.path THEN AskPlan([form EXCEPT !.path = path])
              ELSE UNCHANGED preview
     IN  \/ Show(suggest)
         \/ Show(<<>>)
         \/ hint' = TRUE /\ UNCHANGED <<form, preview>>
  /\ UNCHANGED <<loaded, mounted, open, creating, post>>

DebounceEnds ==
  /\ ask # None /\ ~ask.sent
  /\ ask' = [ask EXCEPT !.sent = TRUE]
  /\ UNCHANGED <<loaded, mounted, open, fields, plan, planning, creating, post>>

PlanArrives ==
  /\ ask # None /\ ask.sent
  /\ \/ plan' = ask.request
     \/ plan' = None
  /\ planning' = FALSE /\ ask' = None
  /\ UNCHANGED <<loaded, mounted, open, fields, creating, post>>

(* bound: one POST in flight *)
submit ==
  /\ Editing /\ ~creating /\ buildRequest(form) # None /\ ~post
  /\ creating' = TRUE /\ post' = TRUE
  /\ UNCHANGED <<loaded, mounted, open, fields, preview>>

(* A created job closes the dialog, whichever it is by now. *)
Created ==
  /\ post /\ post' = FALSE /\ creating' = FALSE
  /\ IF open THEN Closes ELSE UNCHANGED <<open, fields, preview>>
  /\ UNCHANGED <<loaded, mounted>>

CreateFails ==
  /\ post /\ post' = FALSE /\ creating' = FALSE
  /\ UNCHANGED <<loaded, mounted, open, fields, preview>>

-----------------------------------------------------------------------------
Init ==
  /\ loaded = FALSE /\ mounted = FALSE /\ open = FALSE
  /\ form = Blank /\ hint = FALSE /\ suggest = None
  /\ plan = None /\ planning = FALSE /\ ask = None
  /\ creating = FALSE /\ post = FALSE

Edit ==
  \/ \E a \in ArtifactIds : chooseArtifact(a)
  \/ \E p \in PlacementsOf(form.artifact) : chooseSource(p)
  \/ \E s \in ServerIds : chooseTarget(s)
  \/ \E path \in {Typed, <<>>} : typePath(path)
  \/ \E s \in {"auto", "local_relay"} : setStrategy(s)
  \/ replan

Next ==
  \/ CatalogLoads \/ Mount \/ Unmount
  \/ openNewTransfer \/ closeNewTransfer
  \/ \E p \in PlacementIds : OpenFromRow(p)
  \/ Edit
  \/ SuggestionArrives \/ DebounceEnds \/ PlanArrives
  \/ submit \/ Created \/ CreateFails

Spec == Init /\ [][Next]_vars

-----------------------------------------------------------------------------
(* Properties *)

(* The shape of the form and of what is awaited. *)
TypeOK ==
  /\ form \in [artifact : ToSet(Artifacts) \cup {None}, placement : (DOMAIN Placements) \cup {None},
               target : ToSet(Servers) \cup {None}, path : Paths, touched : BOOLEAN,
               strategy : {"auto", "local_relay"}]
  /\ suggest \in Paths \cup {None}
  /\ {loaded, mounted, open, hint, planning, creating, post} \subseteq BOOLEAN

(* When the dialog is not planning, the plan it shows beside a complete form *)
(* is the plan of that form: however the answers are delayed, over closing,  *)
(* reopening and re-planning, the availability shown is that of what Create  *)
(* will send.                                                                *)
PlanIsForForm ==
  open /\ ~planning /\ plan # None /\ buildRequest(form) # None => plan = buildRequest(form)

(* A path that the user did not type, shown without the manual-entry hint    *)
(* and with no suggestion on its way, is the one the backend suggests for    *)
(* this artifact on this target, never one left over from another.           *)
SuggestionIsForForm ==
  open /\ WantsPath(form) /\ form.path # <<>> /\ suggest = None /\ ~hint
    => form.path = Suggested(form.artifact, form.target)

(* Choosing an artifact or a source never aims the transfer at its own       *)
(* source: only the target select can.                                       *)
NeverAimedAtSource ==
  [][Source(form') # Source(form) /\ loaded => form'.target = None \/ form'.target # Source(form')]_vars
=============================================================================
