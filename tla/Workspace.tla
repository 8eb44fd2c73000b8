----------------------------- MODULE Workspace -----------------------------
(* The workspace catalog in the browser: four lists of the workspace store   *)
(* (frontend/src/store/workspaceStore.ts) that are loaded once and then      *)
(* patched by hand after every change, the dialogs that make the changes     *)
(* (Project, Artifact, Placement and LaunchConfigDialog, the tabs and        *)
(* ProjectDetail), and the REST client (services/workspaceApi.ts). The       *)
(* backend is the catalog with the rules of workspace/repository.py.         *)
EXTENDS Integers, Bags, FiniteSetsExt

CONSTANTS ProjectIds, ArtifactIds, PlacementIds, ConfigIds,
          ProjectOf,    \* the project of a launch configuration
          ArtifactOf,   \* the artifact of a placement
          Null,         \* null
          MaxLists,     \* bound: list requests in flight
          MaxLoads,     \* bound: and of them, while the user works
          MaxFaults,    \* bound: lost requests and answers
          MaxChanges    \* bound: changes submitted

(* An id is the hexadecimal form of a new uuid: no two records share one.    *)
Ids == ProjectIds \cup ArtifactIds \cup PlacementIds \cup ConfigIds

ASSUME WorkspaceAssumption ==
  /\ ProjectOf \in [ConfigIds -> ProjectIds] /\ ArtifactOf \in [PlacementIds -> ArtifactIds]
  /\ Null \notin Ids \cup [op : {"create", "patch", "delete"}, id : Ids]
  /\ {MaxLists, MaxLoads, MaxFaults, MaxChanges} \subseteq Nat
  /\ ProjectIds \cap (ArtifactIds \cup PlacementIds \cup ConfigIds) = {}
  /\ ArtifactIds \cap (PlacementIds \cup ConfigIds) = {} /\ PlacementIds \cap ConfigIds = {}

VARIABLES
  records,   \* the backend: revision of every record that exists
  calls,     \* bag of requests in flight
  shown,     \* the store: revision of every record in its list
  launchIds, \* the store: launch_config_ids of every listed project
  loading,   \* the kinds whose list is loading
  failed,    \* the kinds whose last load failed
  dialog,    \* the dialog that is open
  saving,    \* its busy flag
  editTarget,\* the configuration that ProjectDetail edited last
  faults,    \* lost requests and answers so far
  submitted, \* changes submitted so far
  suspect    \* history: the kinds whose list may have missed a change

store == <<shown, launchIds, loading, failed>>
forms == <<dialog, saving, editTarget>>
workspaceVars == <<records, calls, store, forms, faults, submitted, suspect>>

Kinds == {"projects", "artifacts", "placements", "launchConfigs"}
IdsOf(kind) ==
  CASE kind = "projects" -> ProjectIds
    [] kind = "artifacts" -> ArtifactIds
    [] kind = "placements" -> PlacementIds
    [] kind = "launchConfigs" -> ConfigIds
KindOf(i) == CHOOSE kind \in Kinds : i \in IdsOf(kind)

(* A record is absent, or has one of two revisions; "new" and "edited"       *)
(* differ in that an edited project references every artifact. An id is used *)
(* once.                                                                     *)
Gone == {"absent", "deleted"}
Exists(i) == records[i] \notin Gone
ConfigsOf(p) == {c \in ConfigIds : ProjectOf[c] = p}

-----------------------------------------------------------------------------
(* Requests *)

(* crossed: history, a change of the list was in flight with it. *)
ListOf(kind, crossed) == [op |-> "list", kind |-> kind, id |-> Null, served |-> FALSE,
                          crossed |-> crossed, shown |-> <<>>, launch |-> <<>>]
ChangeOf(op, i) == [op |-> op, kind |-> KindOf(i), id |-> i, served |-> FALSE]

Pending == BagToSet(calls)
Lists == {r \in Pending : r.op = "list"}
Changes == {r \in Pending : r.op # "list"}
Listing == MapThenSumSet(LAMBDA r : calls[r], Lists)
Room(n) == Listing + n <= MaxLists

Lost == faults < MaxFaults /\ faults' = faults + 1

Adding(rs, bag) == bag (+) SetToBag(rs)
Removing(r, bag) == bag (-) SetToBag({r})
Replace(r, s) == calls' = Adding({s}, Removing(r, calls))

(* The lists that a change patches. *)
Touches(r) ==
  CASE r.kind = "projects" /\ r.op = "delete" -> {"projects", "launchConfigs"}
    [] r.kind = "launchConfigs" /\ r.op # "patch" -> {"projects", "launchConfigs"}
    [] r.kind = "artifacts" /\ r.op = "delete" -> {"artifacts", "placements"}
    [] OTHER -> {r.kind}

FreshList(kind) == ListOf(kind, \E r \in Changes : kind \in Touches(r))

(* Sending a change marks the lists that it may pass. *)
Crosses(r, l) == l.op = "list" /\ l.kind \in Touches(r)
Marking(r, l) == IF Crosses(r, l) THEN [l EXCEPT !.crossed = TRUE] ELSE l
Copies(m) == IF m \in Pending THEN calls[m] ELSE 0

(* A list that the change crosses joins the copies that are marked already.  *)
Crossing(r) ==
  [m \in {Marking(r, l) : l \in Pending} |->
     Copies(m) + IF Crosses(r, m) THEN Copies([m EXCEPT !.crossed = FALSE]) ELSE 0]

Sending(r) == Adding({r}, Crossing(r))

-----------------------------------------------------------------------------
(* Loading *)

StartLoads(kinds) ==
  /\ loading' = loading \cup kinds
  /\ failed' = failed \ kinds

(* The page loads its four lists when it opens; a tab has a refresh and,     *)
(* after a failure, a retry button.                                          *)
loadWorkspace ==
  /\ dialog = Null /\ editTarget = Null /\ calls = EmptyBag /\ Room(4)
  /\ calls' = SetToBag({FreshList(kind) : kind \in Kinds})
  /\ StartLoads(Kinds)
  /\ UNCHANGED <<records, shown, launchIds, forms, faults, submitted, suspect>>

load(kind) ==
  /\ dialog = Null /\ editTarget = Null /\ kind # "placements"
  /\ kind \notin loading /\ Listing < MaxLoads
  /\ calls' = Adding({FreshList(kind)}, calls)
  /\ StartLoads({kind})
  /\ UNCHANGED <<records, shown, launchIds, forms, faults, submitted, suspect>>

normalizeRecord(i) == IF Exists(i) THEN records[i] ELSE "absent"

(* The backend answers with what it has. *)
ServeList(r) ==
  /\ r.op = "list" /\ ~r.served
  /\ Replace(r, [r EXCEPT
       !.served = TRUE,
       !.shown = [i \in IdsOf(r.kind) |-> normalizeRecord(i)],
       !.launch = IF r.kind = "projects"
                  THEN [p \in ProjectIds |-> {c \in ConfigsOf(p) : Exists(c)}] ELSE <<>>])
  /\ UNCHANGED <<records, store, forms, faults, submitted, suspect>>

(* The configuration dialog, and the project dialog of a project's page, are *)
(* seeded again when the projects change: they forget that they are saving.  *)
ReseededBy(r) ==
  /\ r.kind = "projects" /\ dialog # Null /\ dialog.op # "delete"
  /\ dialog.id \in ConfigIds \cup ProjectIds

ListArrives(r) ==
  /\ r.op = "list" /\ r.served
  /\ shown' = [i \in Ids |-> IF i \in IdsOf(r.kind) THEN r.shown[i] ELSE shown[i]]
  /\ launchIds' = IF r.kind = "projects" THEN r.launch ELSE launchIds
  /\ loading' = loading \ {r.kind}
  /\ calls' = Removing(r, calls)
  /\ saving' \in IF ReseededBy(r) THEN IF dialog.id \in ConfigIds THEN {FALSE} ELSE {FALSE, saving}
                 ELSE {saving}
  /\ suspect' = IF r.crossed THEN suspect \cup {r.kind} ELSE suspect \ {r.kind}
  /\ UNCHANGED <<records, failed, dialog, editTarget, faults, submitted>>

(* Mutant of ListFails: only success ends the loading. *)
ListFailsLoading(r) ==
  /\ r.op = "list" /\ Lost
  /\ failed' = failed \cup {r.kind}
  /\ calls' = Removing(r, calls)
  /\ suspect' = suspect \cup {r.kind}
  /\ UNCHANGED <<records, shown, launchIds, loading, forms, submitted>>

ListFails(r) ==
  /\ r.op = "list" /\ Lost
  /\ failed' = failed \cup {r.kind} /\ loading' = loading \ {r.kind}
  /\ calls' = Removing(r, calls)
  /\ suspect' = suspect \cup {r.kind}
  /\ UNCHANGED <<records, shown, launchIds, forms, submitted>>

-----------------------------------------------------------------------------
(* Dialogs. A kind has an editor (create, patch) and a removal dialog. *)

Modal(op, i) == [op |-> op, id |-> i]
Remover(op) == op = "delete"

(* The dialog that sent a change is the open one. *)
IsOpenDialog(r) ==
  dialog # Null /\ KindOf(dialog.id) = r.kind /\ Remover(dialog.op) = Remover(r.op)

(* A record's menu is there when its list is rendered. Editors clear their   *)
(* busy flag when they open, a removal dialog keeps its own.                 *)
(* A project's page, where a configuration was edited, offers its own        *)
(* records; a configuration is edited there or on the tab.                   *)
OpenDialog(op, i) ==
  /\ dialog = Null /\ KindOf(i) \notin failed /\ Listing <= MaxLoads
  /\ IF op = "create" THEN records[i] = "absent" /\ shown[i] = "absent" ELSE shown[i] # "absent"
  /\ editTarget # Null => i \in PlacementIds \/ (i \notin ArtifactIds /\ op # "create")
  /\ dialog' = Modal(op, i)
  /\ saving' = (Remover(op) /\ \E r \in Changes : r.kind = KindOf(i) /\ Remover(r.op))
  /\ editTarget' \in IF i \in ConfigIds /\ op = "patch" THEN {i} \cup ({Null} \cap {editTarget})
                     ELSE {editTarget}
  /\ UNCHANGED <<records, calls, store, faults, submitted, suspect>>

ProjectsTab(op, p) == p \in ProjectIds /\ OpenDialog(op, p)
ArtifactsTab(op, a) == a \in ArtifactIds /\ OpenDialog(op, a)
PlacementTable(op, l) == l \in PlacementIds /\ OpenDialog(op, l)
LaunchConfigsTab(op, c) == c \in ConfigIds /\ OpenDialog(op, c)

(* The add button of a project without configurations opens the dialog on    *)
(* the configuration that was edited last, if there was one.                 *)
AddConfigOfProject(p) ==
  /\ dialog = Null /\ Listing <= MaxLoads
  /\ shown[p] # "absent" /\ \A c \in ConfigsOf(p) : shown[c] = "absent"
  /\ LET fresh == {c \in ConfigsOf(p) : records[c] = "absent"}
     IN  \/ editTarget # Null /\ dialog' = Modal("patch", editTarget)
         \/ editTarget = Null /\ \E c \in fresh : dialog' = Modal("create", c)
  /\ saving' = FALSE
  /\ UNCHANGED <<records, calls, store, editTarget, faults, submitted, suspect>>

(* Leaving the project's page forgets it. *)
LeaveProject ==
  /\ dialog = Null /\ editTarget # Null
  /\ editTarget' = Null
  /\ UNCHANGED <<records, calls, store, dialog, saving, faults, submitted, suspect>>

(* Escape, the overlay and the cross work while the dialog saves; opening it *)
(* again clears the busy flag.                                               *)
CloseDialog ==
  /\ dialog # Null
  /\ dialog' = Null /\ saving' = FALSE
  /\ UNCHANGED <<records, calls, store, editTarget, faults, submitted, suspect>>

(* bound: one change in flight *)
Submit ==
  /\ ~saving /\ Changes = {} /\ submitted < MaxChanges
  /\ submitted' = submitted + 1
  /\ calls' = Sending(ChangeOf(dialog.op, dialog.id))
  /\ saving' = TRUE
  /\ UNCHANGED <<records, store, dialog, editTarget, faults, suspect>>

EditorOf(ids) == dialog # Null /\ ~Remover(dialog.op) /\ dialog.id \in ids
RemoverOf(ids) == dialog # Null /\ Remover(dialog.op) /\ dialog.id \in ids

SubmitProject == EditorOf(ProjectIds) /\ Submit
SubmitArtifact == EditorOf(ArtifactIds) /\ Submit
SubmitPlacement == EditorOf(PlacementIds) /\ Submit
SubmitLaunchConfig == EditorOf(ConfigIds) /\ Submit

RemoveProject == RemoverOf(ProjectIds) /\ Submit
RemoveArtifact == RemoverOf(ArtifactIds) /\ Submit
RemovePlacement == RemoverOf(PlacementIds) /\ Submit
RemoveLaunchConfig == RemoverOf(ConfigIds) /\ Submit

-----------------------------------------------------------------------------
(* The backend makes a change or refuses it. *)

Referenced(a) == \E p \in ProjectIds : records[p] = "edited"
Allowed(r) ==
  LET i == r.id
  IN  CASE r.op = "create" ->
             /\ records[i] = "absent"
             /\ i \in ConfigIds => Exists(ProjectOf[i])
             /\ i \in PlacementIds => Exists(ArtifactOf[i])
        [] r.op = "patch" -> Exists(i) /\ (i \in ProjectIds => \A a \in ArtifactIds : Exists(a))
        [] r.op = "delete" ->
             /\ Exists(i)
             /\ i \in ArtifactIds =>
                  ~Referenced(i) /\ \A l \in PlacementIds : ArtifactOf[l] = i => ~Exists(l)

Applied(r) ==
  CASE r.op = "create" -> [records EXCEPT ![r.id] = "new"]
    [] r.op = "patch" -> [records EXCEPT ![r.id] = "edited"]
    [] r.op = "delete" ->
         [i \in Ids |-> IF i = r.id \/ (r.id \in ProjectIds /\ i \in ConfigsOf(r.id) /\ Exists(i))
                        THEN "deleted" ELSE records[i]]

ServeChange(r) ==
  /\ r.op # "list" /\ ~r.served /\ Allowed(r)
  /\ records' = Applied(r)
  /\ Replace(r, [r EXCEPT !.served = TRUE])
  /\ UNCHANGED <<store, forms, faults, submitted, suspect>>

-----------------------------------------------------------------------------
(* The store patches its lists by what it knows. *)

(* It is appended, so that a list that had it already has it twice. *)
createRecord(i) ==
  shown' = [shown EXCEPT ![i] = IF @ = "absent" THEN "new" ELSE "twice"] /\ UNCHANGED launchIds
(* The answer of a project has its launch_config_ids, which the backend     *)
(* derives; they cannot change while this one change is in flight.          *)
patchRecord(i) ==
  /\ shown' = [shown EXCEPT ![i] = IF @ \in {"absent", "twice"} THEN @ ELSE "edited"]
  /\ launchIds' = IF i \in ProjectIds /\ shown[i] # "absent"
                  THEN [launchIds EXCEPT ![i] = {c \in ConfigsOf(i) : Exists(c)}] ELSE launchIds

(* Mutant of deleteProject: the configurations of the project stay listed. *)
deleteProjectOnly(p) ==
  /\ shown' = [shown EXCEPT ![p] = "absent"]
  /\ launchIds' = [launchIds EXCEPT ![p] = {}]

deleteProject(p) ==
  LET cascade == IF shown[p] = "absent" THEN ConfigIds ELSE ConfigIds \ launchIds[p]
  IN  /\ shown' = [i \in Ids |-> IF i = p \/ i \in ConfigIds \ cascade THEN "absent" ELSE shown[i]]
      /\ launchIds' = [launchIds EXCEPT ![p] = {}]
deleteArtifact(a) ==
  /\ shown' = [i \in Ids |-> IF i = a \/ (i \in PlacementIds /\ ArtifactOf[i] = a)
                             THEN "absent" ELSE shown[i]]
  /\ UNCHANGED launchIds
deletePlacement(l) == shown' = [shown EXCEPT ![l] = "absent"] /\ UNCHANGED launchIds
deleteLaunchConfig(c) == shown' = [shown EXCEPT ![c] = "absent"] /\ UNCHANGED launchIds

PatchLists(r) ==
  \/ r.op = "create" /\ createRecord(r.id)
  \/ r.op = "patch" /\ patchRecord(r.id)
  \/ /\ r.op = "delete"
     /\ \/ r.id \in ProjectIds /\ deleteProject(r.id)
        \/ r.id \in ArtifactIds /\ deleteArtifact(r.id)
        \/ r.id \in PlacementIds /\ deletePlacement(r.id)
        \/ r.id \in ConfigIds /\ deleteLaunchConfig(r.id)

(* Adding or removing a configuration reloads the projects. *)
ReloadsProjects(r) == r.kind = "launchConfigs" /\ r.op # "patch"

(* A change that went through patches the lists and closes its dialog, also  *)
(* when it was opened again for something else; removing a project leads back *)
(* to the list.                                                              *)
ChangeArrives(r) ==
  /\ r.op # "list" /\ r.served
  /\ PatchLists(r)
  /\ IF ReloadsProjects(r)
     THEN /\ Room(1)
          /\ Replace(r, ListOf("projects", FALSE)) /\ StartLoads({"projects"})
     ELSE calls' = Removing(r, calls) /\ UNCHANGED <<loading, failed>>
  /\ dialog' = (IF IsOpenDialog(r) THEN Null ELSE dialog)
  /\ saving' = (saving /\ ~IsOpenDialog(r))
  /\ editTarget' = IF r.kind = "projects" /\ Remover(r.op) THEN Null ELSE editTarget
  /\ suspect' = IF /\ r.op = "delete" /\ r.id \in ProjectIds
                   /\ "projects" \in suspect \/ \E l \in Lists : l.kind = "projects"
                THEN suspect \cup {"launchConfigs"} ELSE suspect
  /\ UNCHANGED <<records, faults, submitted>>

(* A refusal, or a request or an answer that was lost: the dialog says so.   *)
ChangeFails(r) ==
  /\ r.op # "list"
  /\ IF ~r.served /\ ~Allowed(r) THEN UNCHANGED faults ELSE Lost
  /\ saving' = (saving /\ ~IsOpenDialog(r))
  /\ calls' = Removing(r, calls)
  /\ suspect' = IF r.served THEN suspect \cup Touches(r) ELSE suspect
  /\ UNCHANGED <<records, store, dialog, editTarget, submitted>>

-----------------------------------------------------------------------------
WorkspaceInit ==
  /\ \E old \in SUBSET (PlacementIds \cup ConfigIds) :
       records = [i \in Ids |-> IF i \in ProjectIds \cup ArtifactIds \cup old THEN "new" ELSE "absent"]
  /\ calls = EmptyBag
  /\ shown = [i \in Ids |-> "absent"] /\ launchIds = [p \in ProjectIds |-> {}]
  /\ loading = {} /\ failed = {}
  /\ dialog = Null /\ saving = FALSE /\ editTarget = Null
  /\ faults = 0 /\ submitted = 0 /\ suspect = Kinds

WorkspaceNext ==
  \/ loadWorkspace
  \/ \E kind \in Kinds : load(kind)
  \/ \E op \in {"create", "patch", "delete"}, i \in Ids :
       ProjectsTab(op, i) \/ ArtifactsTab(op, i) \/ PlacementTable(op, i) \/ LaunchConfigsTab(op, i)
  \/ \E p \in ProjectIds : AddConfigOfProject(p)
  \/ LeaveProject \/ CloseDialog
  \/ SubmitProject \/ SubmitArtifact \/ SubmitPlacement \/ SubmitLaunchConfig
  \/ RemoveProject \/ RemoveArtifact \/ RemovePlacement \/ RemoveLaunchConfig
  \/ \E r \in Pending :
       \/ ServeList(r) \/ ListArrives(r) \/ ListFails(r)
       \/ ServeChange(r) \/ ChangeArrives(r) \/ ChangeFails(r)

WorkspaceSpec == WorkspaceInit /\ [][WorkspaceNext]_workspaceVars

-----------------------------------------------------------------------------
(* Properties *)

(* The shape of the catalog and of the lists that show it. *)
WorkspaceTypeOK ==
  /\ records \in [Ids -> Gone \cup {"new", "edited"}]
  /\ shown \in [Ids -> {"absent", "new", "edited", "twice"}]
  /\ launchIds \in [ProjectIds -> SUBSET ConfigIds]
  /\ {loading, failed, suspect} \subseteq SUBSET Kinds
  /\ editTarget \in ConfigIds \cup {Null} /\ saving \in BOOLEAN

(* The lists are patched by hand after every change, deletions cascade in    *)
(* the backend and in the store by different rules (the store's copy of      *)
(* launch_config_ids, the backend's catalog), and projects are reloaded when *)
(* their configurations change. When nothing of a list is in flight, and no  *)
(* load of it failed or crossed a change, it is what the backend has.        *)
QuietListsAgree ==
  \A kind \in Kinds \ suspect :
    (\A l \in Lists : l.kind # kind) /\ (\A r \in Changes : kind \notin Touches(r))
      => /\ \A i \in IdsOf(kind) : shown[i] = normalizeRecord(i)
         /\ kind = "projects" =>
              \A p \in ProjectIds : Exists(p) =>
                launchIds[p] = {c \in ConfigsOf(p) : Exists(c)}

(* Loads and saves overlap and end in any order, and dialogs are closed,     *)
(* reopened for another record and reseeded meanwhile: a list that says it   *)
(* is loading, and a dialog that says it is saving, still wait for a request *)
(* in flight that will clear the flag.                                       *)
BusyIsInFlight ==
  /\ \A kind \in loading : \E l \in Lists : l.kind = kind
  /\ saving => \E r \in Changes : IsOpenDialog(r)
=============================================================================
