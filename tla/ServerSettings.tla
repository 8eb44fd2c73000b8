--------------------------- MODULE ServerSettings ---------------------------
(* Registering and configuring servers in the browser: the settings page     *)
(* and its dialogs (frontend/src/features/settings), the menu of a machine   *)
(* on the fleet page, the registry part of the console store and the REST    *)
(* client (services/api.ts), composed with the backend rules that they rely  *)
(* on: registry, host-key trust, password store and direct-auth pairs. None  *)
(* of the requests is cancelled when a dialog closes.                        *)
EXTENDS Integers, Bags

CONSTANTS Ids,         \* server ids; an id is used once
          Keys,        \* host keys
          None,        \* null
          MaxRequests, \* bound: requests in flight before another is sent by hand
          MaxSent,     \* bound: requests sent by hand, checks of pairs aside
          MaxFaults    \* bound: lost requests and answers, failed clean-ups, changed host keys

ASSUME SettingsAssumption ==
  /\ None \notin Ids \cup Keys /\ Keys # {} /\ {MaxRequests, MaxSent, MaxFaults} \subseteq Nat

VARIABLES
  registry,   \* backend: "absent", "on" (enabled), "off" or "gone"
  presented,  \* the key that a host presents now
  pending,    \* backend: the key captured by the last failed connect
  known,      \* backend: the trusted keys of a host
  passwords,  \* backend: the stored password, named by the server it was typed for
  keyPairs,   \* backend: <<source, target>> with a dedicated key
  requests,   \* bag of requests in flight
  servers,    \* store: the registry list
  listState,  \* store: serversLoading and serversError
  dialog,     \* settings page: None, "add" or the edited server
  wizard,     \* ServerDialog: step, activeId, result, saving, trusting
  auth,       \* ServerDialog: None, "failed", or the loaded password status
  editor,     \* LocalAuthSection: what was typed, and its phase
  section,    \* DirectTransferSection: state, pair list and rows
  removal,    \* settings page: the server to remove and the busy flag
  sent,       \* such requests so far
  faults,     \* such faults so far
  consented,  \* history: the <<host, key>> prompts that the user confirmed
  suspect     \* history: the list may have missed a change

backend == <<registry, presented, pending, known, passwords, keyPairs>>
list == <<servers, listState>>
page == <<dialog, wizard, auth, editor, section, removal>>
vars == <<backend, requests, list, page, sent, faults, consented, suspect>>

Exists(i) == registry[i] \in {"on", "off"}

-----------------------------------------------------------------------------
(* Requests *)

(* here: the component that awaits it is mounted. crossed: history, a change *)
(* or a fresher list was in flight with the list.                            *)
Request(op, i) ==
  [op |-> op, id |-> i, arg |-> None, key |-> None, here |-> TRUE, crossed |-> FALSE,
   served |-> FALSE, kind |-> "", rows |-> <<>>]

RegistryChanges == {"create", "patch", "delete", "toggle", "fleetDelete"}
DirectActions == {"check", "setup", "revoke"}
PasswordActions == {"setPassword", "deletePassword"}
SectionOps == DirectActions \cup PasswordActions \cup {"pairs"}

InFlight == BagToSet(requests)
Waiting(ops) == {r \in InFlight : r.op \in ops}
Room == BagCardinality(requests) < MaxRequests

(* Every copy of a request with one of the operations gets the flag. Two     *)
(* requests become one when they differ in the flag only.                    *)
Flagged(r, ops, flag, value) == IF r.op \in ops THEN [r EXCEPT ![flag] = value] ELSE r
Copies(r, bag) == IF r \in BagToSet(bag) THEN bag[r] ELSE 0
Flagging(ops, flag, value, bag) ==
  [m \in {Flagged(r, ops, flag, value) : r \in BagToSet(bag)} |->
     Copies(m, bag) + (IF m.op \in ops THEN Copies(Flagged(m, ops, flag, ~value), bag) ELSE 0)]
Adding(rs, bag) == bag (+) SetToBag(rs)
Removing(r, bag) == bag (-) SetToBag({r})

(* The sections of the form go away: nobody awaits their requests any more. *)
Unmounting(bag) == Flagging(SectionOps, "here", FALSE, bag)

(* A list that is in flight when a change or another list is sent may be     *)
(* older than what follows.                                                  *)
Crossing(bag) == Flagging({"list"}, "crossed", TRUE, bag)
Sending(r, bag) == Adding({r}, IF r.op \in RegistryChanges \cup {"list"} THEN Crossing(bag) ELSE bag)
List == [Request("list", None) EXCEPT !.crossed = Waiting(RegistryChanges) # {}]

ByHand == Room /\ sent < MaxSent /\ sent' = sent + 1
Fault == faults < MaxFaults /\ faults' = faults + 1

-----------------------------------------------------------------------------
(* Pair rows. A peer is what the row shows of one source -> this server.     *)

Configured(peer) == peer \in {"keyReady", "keyOk", "keyFailed"}
setupReasonAllowed(peer) == peer = "fixable"
IdleRow(peer) == [current |-> peer, busy |-> "", confirming |-> FALSE]

(* A source without a listed pair gets a fresh placeholder at every render.  *)
Peer(pairs, i) == IF pairs[i] = "unlisted" THEN "unchecked" ELSE pairs[i]

NoPairs == [i \in Ids |-> "unlisted"]
SectionOf(state, pairs) ==
  [state |-> state, pairs |-> pairs, rows |-> [i \in Ids |-> IdleRow(Peer(pairs, i))]]
NoSection == SectionOf("unmounted", NoPairs)
NoEditor == [typed |-> None, phase |-> "idle"]

-----------------------------------------------------------------------------
(* Opening and closing *)

NoResult == <<None, "none", None>>
Form(active) == [step |-> "form", active |-> active, result |-> NoResult,
                 saving |-> FALSE, trusting |-> FALSE]

(* The form step of the edit dialog mounts the two sections, whose pair list *)
(* loads by itself.                                                          *)
Mounting(i, bag) == Adding({Request("pairs", i)}, bag)

OpenAdd ==
  /\ dialog = None /\ removal.target = None
  /\ dialog' = "add" /\ wizard' = Form(None)
  /\ auth' = None /\ editor' = NoEditor /\ section' = NoSection
  /\ UNCHANGED <<backend, requests, list, removal, sent, faults, consented, suspect>>

OpenEdit(i) ==
  /\ dialog = None /\ removal.target = None
  /\ ~listState.error /\ servers[i] # "absent" /\ Room
  /\ dialog' = i /\ wizard' = Form(i)
  /\ auth' = None /\ editor' = NoEditor /\ section' = SectionOf("loading", NoPairs)
  /\ requests' = Mounting(i, Adding({Request("auth", i)}, requests))
  /\ UNCHANGED <<backend, list, removal, sent, faults, consented, suspect>>

(* What lands in a closed dialog is overwritten when it opens. *)
Closed ==
  /\ dialog' = None /\ wizard' = Form(None)
  /\ auth' = None /\ editor' = NoEditor /\ section' = NoSection

(* Escape, the overlay and the cross close it at any time. *)
onClose ==
  /\ dialog # None /\ Closed
  /\ requests' = Unmounting(requests)
  /\ UNCHANGED <<backend, list, removal, sent, faults, consented, suspect>>

OpenRemove(i) ==
  /\ dialog = None /\ removal.target = None
  /\ ~listState.error /\ servers[i] # "absent"
  /\ removal' = [removal EXCEPT !.target = i]
  /\ UNCHANGED <<backend, requests, list, dialog, wizard, auth, editor, section, sent, faults,
                 consented, suspect>>

CloseRemove ==
  /\ removal.target # None
  /\ removal' = [removal EXCEPT !.target = None]
  /\ UNCHANGED <<backend, requests, list, dialog, wizard, auth, editor, section, sent, faults,
                 consented, suspect>>

(* A load clears the error of the last one; its success does not clear an    *)
(* error that came meanwhile.                                                *)
Reloading == [loading |-> TRUE, error |-> FALSE]

loadServers ==
  /\ dialog = None /\ listState.error /\ Room
  /\ requests' = Sending(List, requests) /\ listState' = Reloading
  /\ UNCHANGED <<backend, servers, page, sent, faults, consented, suspect>>

-----------------------------------------------------------------------------
(* Registry changes *)

(* enabled: what the form or the machine's entry asks for. *)
Change(op, i, enabled) ==
  /\ ByHand
  /\ requests' = Sending([Request(op, i) EXCEPT !.arg = enabled], requests)
  /\ UNCHANGED <<backend, list, faults, consented, suspect>>

submit(enabled) ==
  /\ dialog # None /\ wizard.step = "form" /\ ~wizard.saving /\ ~wizard.trusting
  /\ wizard' = [wizard EXCEPT !.saving = TRUE]
  /\ \/ /\ dialog = "add"
        /\ \E i \in Ids : registry[i] = "absent" /\ Waiting({"create"}) = {} /\ Change("create", i, enabled)
     \/ dialog # "add" /\ Change("patch", dialog, enabled)
  /\ UNCHANGED <<dialog, auth, editor, section, removal>>

removeServer ==
  /\ removal.target # None /\ ~removal.busy
  /\ removal' = [removal EXCEPT !.busy = TRUE]
  /\ Change("delete", removal.target, "off")
  /\ UNCHANGED <<dialog, wizard, auth, editor, section>>

(* The fleet page shows an entry of the last frame, however old, and asks    *)
(* for the opposite of what it says. Leaving the settings page for it closes *)
(* the dialogs.                                                              *)
OnFleetPage == dialog = None /\ removal.target = None

toggleEnabled(i, enabled) ==
  /\ OnFleetPage /\ registry[i] # "absent" /\ Change("toggle", i, enabled) /\ UNCHANGED page
FleetRemove(i) ==
  /\ OnFleetPage /\ registry[i] # "absent" /\ Change("fleetDelete", i, "off") /\ UNCHANGED page

-----------------------------------------------------------------------------
(* Testing a connection and trusting a host key *)

Testing == [wizard EXCEPT !.step = "testing", !.result = NoResult]

(* The form's test button, and try again on the result. The sections go with *)
(* the form.                                                                 *)
runTest ==
  /\ dialog # None /\ wizard.active # None /\ ByHand
  /\ \/ wizard.step = "form" /\ dialog # "add" /\ ~wizard.saving
     \/ wizard.step = "result" /\ wizard.result[2] \in {"error", "failed"}
  /\ wizard' = Testing
  /\ editor' = NoEditor /\ section' = NoSection
  /\ requests' = Unmounting(Adding({Request("test", wizard.active)}, requests))
  /\ UNCHANGED <<backend, list, dialog, auth, removal, faults, consented, suspect>>

BackToForm ==
  /\ dialog # None /\ wizard.step = "result" /\ ~wizard.trusting
  /\ wizard.result[2] \in {"failed", "hostkey"}
  /\ wizard' = [wizard EXCEPT !.step = "form", !.result = NoResult]
  /\ IF dialog = "add" THEN UNCHANGED <<requests, section>>
     ELSE Room /\ requests' = Mounting(dialog, requests) /\ section' = SectionOf("loading", NoPairs)
  /\ UNCHANGED <<backend, list, dialog, auth, editor, removal, sent, faults, consented, suspect>>

(* The prompt is the one of the result that is shown, the server the one the *)
(* dialog is about.                                                          *)
trustAndRetry ==
  /\ dialog # None /\ wizard.step = "result" /\ wizard.result[2] = "hostkey"
  /\ ~wizard.trusting /\ wizard.active # None /\ ByHand
  /\ wizard' = [wizard EXCEPT !.trusting = TRUE]
  /\ requests' = Adding({[Request("trust", wizard.active) EXCEPT
                            !.arg = wizard.result[1], !.key = wizard.result[3]]}, requests)
  /\ consented' = consented \cup {<<wizard.result[1], wizard.result[3]>>}
  /\ UNCHANGED <<backend, list, dialog, auth, editor, section, removal, faults, suspect>>

-----------------------------------------------------------------------------
(* The password of the edited server *)

Mounted == dialog \in Ids /\ wizard.step = "form"
Loaded == auth \notin {None, "failed"}

typePassword ==
  /\ Mounted /\ Loaded /\ editor.phase = "idle" /\ editor.typed = None
  /\ editor' = [editor EXCEPT !.typed = dialog]
  /\ UNCHANGED <<backend, requests, list, dialog, wizard, auth, section, removal, sent, faults,
                 consented, suspect>>

CancelPassword ==
  /\ Mounted /\ editor.phase = "idle" /\ editor.typed # None
  /\ editor' = [editor EXCEPT !.typed = None]
  /\ UNCHANGED <<backend, requests, list, dialog, wizard, auth, section, removal, sent, faults,
                 consented, suspect>>

save ==
  /\ Mounted /\ Loaded /\ editor.phase = "idle" /\ editor.typed # None /\ ByHand
  /\ editor' = [editor EXCEPT !.phase = "saving"]
  /\ requests' = Adding({[Request("setPassword", dialog) EXCEPT !.arg = editor.typed]}, requests)
  /\ UNCHANGED <<backend, list, dialog, wizard, auth, section, removal, faults, consented, suspect>>

(* After its confirmation. *)
clear ==
  /\ Mounted /\ auth = "set" /\ editor.phase = "idle" /\ editor.typed = None /\ ByHand
  /\ editor' = [editor EXCEPT !.phase = "clearing"]
  /\ requests' = Adding({Request("deletePassword", dialog)}, requests)
  /\ UNCHANGED <<backend, list, dialog, wizard, auth, section, removal, faults, consented, suspect>>

RetryAuth ==
  /\ Mounted /\ auth = "failed" /\ Room
  /\ auth' = None /\ requests' = Adding({Request("auth", dialog)}, requests)
  /\ UNCHANGED <<backend, list, dialog, wizard, editor, section, removal, sent, faults, consented, suspect>>

-----------------------------------------------------------------------------
(* The rows of the direct-transfer section: one per other enabled server *)

Sources == {i \in Ids \ {dialog} : servers[i] = "on"}
Row(i) == section.rows[i]

run(i, action) ==
  /\ Mounted /\ section.state = "loaded" /\ i \in Sources /\ Row(i).busy = ""
  /\ IF action = "check" THEN Room /\ UNCHANGED sent ELSE ByHand
  /\ CASE action = "check" -> ~Row(i).confirming
       [] action = "setup" -> ~Row(i).confirming /\ setupReasonAllowed(Row(i).current)
       [] action = "revoke" -> Row(i).confirming
  /\ section' = [section EXCEPT !.rows[i].busy = action]
  /\ requests' = Adding({[Request(action, i) EXCEPT !.arg = dialog]}, requests)
  /\ UNCHANGED <<backend, list, dialog, wizard, auth, editor, removal, faults, consented, suspect>>

ConfirmRevoke(i, yes) ==
  /\ Mounted /\ section.state = "loaded" /\ i \in Sources /\ Row(i).busy = ""
  /\ Row(i).confirming = ~yes /\ Configured(Row(i).current)
  /\ section' = [section EXCEPT !.rows[i].confirming = yes]
  /\ UNCHANGED <<backend, requests, list, dialog, wizard, auth, editor, removal, sent, faults,
                 consented, suspect>>

RetryPairs ==
  /\ Mounted /\ section.state = "failed" /\ Room
  /\ section' = [section EXCEPT !.state = "loading"]
  /\ requests' = Mounting(dialog, requests)
  /\ UNCHANGED <<backend, list, dialog, wizard, auth, editor, removal, sent, faults, consented, suspect>>

-----------------------------------------------------------------------------
(* The backend serves a request *)

Answer(r, kind) == [r EXCEPT !.served = TRUE, !.kind = kind]
Becomes(r, s) == requests' = Adding({s}, Removing(r, requests))

(* close_server retires the connection and what it captured. *)
Retired(i) == [pending EXCEPT ![i] = None]

(* Mutant of ServeChange: the password outlives the server. *)
ServeChangeKeepingPassword(r) ==
  LET to == IF r.op \in {"delete", "fleetDelete"} THEN "gone" ELSE r.arg
  IN  /\ r.op \in RegistryChanges
      /\ IF r.op = "create" THEN registry[r.id] = "absent" ELSE Exists(r.id)
      /\ registry' = [registry EXCEPT ![r.id] = to]
      /\ pending' = IF to = "on" THEN pending ELSE Retired(r.id)
      /\ Becomes(r, Answer(r, "ok"))
      /\ UNCHANGED <<presented, known, passwords, keyPairs, faults>>

(* Deleting a server cleans up after it, each part on best effort. *)
ServeChange(r) ==
  LET i == r.id
      to == IF r.op \in {"delete", "fleetDelete"} THEN "gone" ELSE r.arg
  IN  /\ r.op \in RegistryChanges
      /\ IF r.op = "create" THEN registry[i] = "absent" ELSE Exists(i)
      /\ registry' = [registry EXCEPT ![i] = to]
      /\ pending' = IF to = "on" THEN pending ELSE Retired(i)
      /\ LET dropped == [passwords EXCEPT ![i] = None]
             forgotten == {p \in keyPairs : i \notin {p[1], p[2]}}
         IN  \/ to # "gone" /\ UNCHANGED <<passwords, keyPairs, faults>>
             \/ to = "gone" /\ passwords' = dropped /\ keyPairs' = forgotten /\ UNCHANGED faults
             \/ /\ to = "gone" /\ Fault
                /\ passwords' \in {passwords, dropped} /\ keyPairs' \in {keyPairs, forgotten}
      /\ Becomes(r, Answer(r, "ok"))
      /\ UNCHANGED <<presented, known>>

(* A connect captures an unknown key; a key that contradicts a trusted one   *)
(* is an error without a prompt.                                             *)
test_connection(r) ==
  LET i == r.id
  IN  /\ r.op = "test" /\ Exists(i)
      /\ \/ /\ registry[i] = "off" /\ Becomes(r, Answer(r, "failed")) /\ UNCHANGED pending
         \/ /\ registry[i] = "on" /\ known[i] = {}
            /\ pending' = [pending EXCEPT ![i] = presented[i]]
            /\ Becomes(r, [Answer(r, "hostkey") EXCEPT !.key = presented[i]])
         \/ /\ registry[i] = "on" /\ known[i] # {} /\ pending' = Retired(i)
            /\ \E kind \in {"failed"} \cup (IF presented[i] \in known[i] THEN {"ok"} ELSE {}) :
                 Becomes(r, Answer(r, kind))
      /\ UNCHANGED <<registry, presented, known, passwords, keyPairs, faults>>

(* Mutant of trust_host_key: the key of the last connect is trusted, not the *)
(* one of the prompt.                                                        *)
TrustPending(r) ==
  /\ r.op = "trust" /\ Exists(r.id)
  /\ known' = IF pending[r.id] = None THEN known ELSE [known EXCEPT ![r.id] = @ \cup {pending[r.id]}]
  /\ pending' = Retired(r.id)
  /\ Becomes(r, Answer(r, "ok"))
  /\ UNCHANGED <<registry, presented, passwords, keyPairs, faults>>

(* What the prompt says must be what the last connect captured. The test     *)
(* that follows finds a trusted key and captures nothing.                    *)
trust_host_key(r) ==
  LET i == r.id
      matches == pending[i] # None /\ r.arg = i /\ r.key = pending[i]
  IN  /\ r.op = "trust" /\ Exists(i)
      /\ known' = IF matches THEN [known EXCEPT ![i] = @ \cup {r.key}] ELSE known
      /\ pending' = IF matches THEN Retired(i) ELSE pending
      /\ Becomes(r, Answer(r, "ok"))
      /\ UNCHANGED <<registry, presented, passwords, keyPairs, faults>>

ServePassword(r) ==
  /\ r.op \in PasswordActions /\ Exists(r.id)
  /\ passwords' = [passwords EXCEPT ![r.id] = r.arg]
  /\ pending' = Retired(r.id)
  /\ Becomes(r, Answer(r, "ok"))
  /\ UNCHANGED <<registry, presented, known, keyPairs, faults>>

ServeRead(r) ==
  /\ \/ /\ r.op = "list"
        /\ Becomes(r, [Answer(r, "ok") EXCEPT
             !.rows = [i \in Ids |-> IF Exists(i) THEN registry[i] ELSE "absent"]])
     \/ /\ r.op = "auth" /\ Exists(r.id)
        /\ Becomes(r, Answer(r, IF passwords[r.id] = None THEN "unset" ELSE "set"))
     \/ /\ r.op = "pairs" /\ Exists(r.id)
        /\ Becomes(r, [Answer(r, "ok") EXCEPT
             !.rows = [i \in Ids |-> IF <<i, r.id>> \in keyPairs THEN "keyReady" ELSE "unlisted"]])
  /\ UNCHANGED <<backend, faults>>

(* A revocation that fails half way answers as one that succeeds, and keeps  *)
(* the pair.                                                                 *)
ServeDirect(r) ==
  LET pair == <<r.id, r.arg>>
      found == pair \in keyPairs
      enabled == registry[r.id] = "on" /\ registry[r.arg] = "on"
  IN  /\ \/ /\ r.op = "check" /\ enabled /\ UNCHANGED keyPairs
            /\ \E kind \in IF found THEN {"keyOk", "keyFailed"} ELSE {"native", "fixable", "unfixable"} :
                 Becomes(r, Answer(r, kind))
         \/ /\ r.op = "setup" /\ enabled
            /\ \/ keyPairs' = keyPairs \cup {pair} /\ Becomes(r, Answer(r, "keyOk"))
               \/ UNCHANGED keyPairs /\ \E kind \in {"native", "unfixable"} : Becomes(r, Answer(r, kind))
         \/ /\ r.op = "revoke" /\ keyPairs' \in {keyPairs \ {pair}, keyPairs}
            /\ Becomes(r, Answer(r, "unchecked"))
      /\ UNCHANGED <<registry, presented, pending, known, passwords, faults>>

Serve(r) ==
  /\ ~r.served
  /\ \/ ServeChange(r) \/ test_connection(r) \/ trust_host_key(r)
     \/ ServePassword(r) \/ ServeRead(r) \/ ServeDirect(r)
  /\ UNCHANGED <<list, page, sent, consented, suspect>>

(* Telemetry, and the test on the fleet page, connect as well; a host may    *)
(* come back with another key.                                               *)
OthersConnect(i) ==
  /\ registry[i] = "on" /\ known[i] = {} /\ pending[i] # presented[i]
  /\ pending' = [pending EXCEPT ![i] = presented[i]]
  /\ UNCHANGED <<registry, presented, known, passwords, keyPairs, requests, list, page, sent, faults,
                 consented, suspect>>
Rekeyed(i) ==
  /\ Fault
  /\ \E k \in Keys \ {presented[i]} : presented' = [presented EXCEPT ![i] = k]
  /\ UNCHANGED <<registry, pending, known, passwords, keyPairs, requests, list, page, sent,
                 consented, suspect>>

-----------------------------------------------------------------------------
(* Answers arrive. The setters of the settings dialog act on the dialog that *)
(* is open by now, whoever sent the request.                                 *)

Landing(w) == wizard' = IF dialog = None THEN wizard ELSE w

(* refreshRegistry *)
Refreshing(bag) == Sending([Request("list", None) EXCEPT !.crossed = Waiting(RegistryChanges) \cap
                                                             BagToSet(bag) # {}], bag)

CreateArrives(r) ==
  LET fresh == Unmounting(Refreshing(Removing(r, requests)))
  IN  /\ r.op = "create"
      /\ requests' = Adding({Request("test", r.id)}, fresh)
      /\ listState' = Reloading
      /\ Landing([Testing EXCEPT !.active = r.id, !.saving = FALSE])
      /\ editor' = NoEditor /\ section' = NoSection
      /\ UNCHANGED <<servers, dialog, auth, removal, consented, suspect>>

(* Mutant of PatchArrives: the dialog closes without a refresh. *)
PatchArrivesUnlisted(r) ==
  /\ r.op = "patch"
  /\ requests' = Unmounting(Removing(r, requests))
  /\ Closed
  /\ UNCHANGED <<list, removal, consented, suspect>>

PatchArrives(r) ==
  /\ r.op = "patch"
  /\ requests' = Unmounting(Refreshing(Removing(r, requests)))
  /\ listState' = Reloading
  /\ Closed
  /\ UNCHANGED <<servers, removal, consented, suspect>>

(* Mutant of RemovalArrives: the dialog closes and stays busy. *)
RemovalArrivesBusy(r) ==
  /\ r.op \in {"delete", "toggle", "fleetDelete"}
  /\ requests' = Refreshing(Removing(r, requests)) /\ listState' = Reloading
  /\ removal' = IF r.op = "delete" THEN [removal EXCEPT !.target = None] ELSE removal
  /\ UNCHANGED <<servers, dialog, wizard, auth, editor, section, consented, suspect>>

RemovalArrives(r) ==
  /\ r.op \in {"delete", "toggle", "fleetDelete"}
  /\ requests' = Refreshing(Removing(r, requests)) /\ listState' = Reloading
  /\ removal' = IF r.op = "delete" THEN [target |-> None, busy |-> FALSE] ELSE removal
  /\ UNCHANGED <<servers, dialog, wizard, auth, editor, section, consented, suspect>>

ListArrives(r) ==
  /\ r.op = "list"
  /\ servers' = r.rows /\ listState' = [listState EXCEPT !.loading = FALSE]
  /\ requests' = Removing(r, requests)
  /\ suspect' = r.crossed
  /\ UNCHANGED <<page, consented>>

(* arg "chain": the test that follows a trust. *)
TestArrives(r) ==
  /\ r.op = "test"
  /\ requests' = Unmounting(Removing(r, requests))
  /\ Landing([wizard EXCEPT !.step = "result", !.result = <<r.id, r.kind, r.key>>,
                            !.trusting = @ /\ r.arg # "chain"])
  /\ editor' = NoEditor /\ section' = NoSection
  /\ UNCHANGED <<list, dialog, auth, removal, consented, suspect>>

TrustArrives(r) ==
  /\ r.op = "trust"
  /\ requests' = Unmounting(Adding({[Request("test", r.id) EXCEPT !.arg = "chain"]}, Removing(r, requests)))
  /\ Landing(Testing)
  /\ editor' = NoEditor /\ section' = NoSection
  /\ UNCHANGED <<list, dialog, auth, removal, consented, suspect>>

(* Saving reloads the status, of the saved server, into the dialog. *)
PasswordArrives(r) ==
  /\ r.op \in PasswordActions
  /\ editor' = IF r.here THEN NoEditor ELSE editor
  /\ auth' = None
  /\ requests' = Adding({Request("auth", r.id)}, Removing(r, requests))
  /\ UNCHANGED <<list, dialog, wizard, section, removal, consented, suspect>>

AuthArrives(r) ==
  /\ r.op = "auth"
  /\ auth' = IF dialog = None THEN auth ELSE r.kind
  /\ requests' = Removing(r, requests)
  /\ UNCHANGED <<list, dialog, wizard, editor, section, removal, consented, suspect>>

(* The effect that loads the pairs is cancelled when the section goes. *)
PairsArrive(r) ==
  /\ r.op = "pairs"
  /\ section' = IF r.here THEN SectionOf("loaded", r.rows) ELSE section
  /\ requests' = Removing(r, requests)
  /\ UNCHANGED <<list, dialog, wizard, auth, editor, removal, consented, suspect>>

(* The section updates the pair if it lists it, and its row follows; a row   *)
(* without a listed pair is set back to its placeholder by the same render.  *)
DirectArrives(r) ==
  LET i == r.id
      pairs == [section.pairs EXCEPT ![i] = IF @ = "unlisted" THEN @ ELSE r.kind]
  IN  /\ r.op \in DirectActions
      /\ section' = IF r.here THEN [section EXCEPT !.pairs = pairs, !.rows[i] = IdleRow(Peer(pairs, i))]
                    ELSE section
      /\ requests' = Removing(r, requests)
      /\ UNCHANGED <<list, dialog, wizard, auth, editor, removal, consented, suspect>>

Arrives(r) ==
  /\ r.served
  /\ \/ CreateArrives(r) \/ PatchArrives(r) \/ RemovalArrives(r) \/ ListArrives(r)
     \/ TestArrives(r) \/ TrustArrives(r) \/ PasswordArrives(r) \/ AuthArrives(r)
     \/ PairsArrive(r) \/ DirectArrives(r)
  /\ UNCHANGED <<backend, sent, faults>>

-----------------------------------------------------------------------------
(* Refused requests, and requests or answers that are lost *)

Refused(r) ==
  /\ ~r.served
  /\ \/ r.op = "create" /\ registry[r.id] # "absent"
     \/ r.op \notin {"create", "list", "revoke"} /\ ~Exists(r.id)
     \/ r.op \in {"check", "setup"} /\ {registry[r.id], registry[r.arg]} # {"on"}

Fails(r) ==
  /\ IF Refused(r) THEN UNCHANGED faults ELSE Fault
  /\ requests' = IF r.op = "test" THEN Unmounting(Removing(r, requests)) ELSE Removing(r, requests)
  /\ listState' = IF r.op = "list" THEN [loading |-> FALSE, error |-> TRUE] ELSE listState
  /\ CASE r.op \in {"create", "patch"} -> Landing([wizard EXCEPT !.saving = FALSE])
       [] r.op = "test" -> Landing([wizard EXCEPT !.step = "result", !.result = <<r.id, "error", None>>,
                                                  !.trusting = @ /\ r.arg # "chain"])
       [] r.op = "trust" -> Landing([wizard EXCEPT !.trusting = FALSE])
       [] OTHER -> UNCHANGED wizard
  /\ auth' = IF r.op = "auth" /\ dialog # None THEN "failed" ELSE auth
  /\ editor' = CASE r.op = "test" -> NoEditor
                 [] r.op \in PasswordActions /\ r.here -> [editor EXCEPT !.phase = "idle"]
                 [] OTHER -> editor
  /\ section' = CASE r.op = "test" -> NoSection
                  [] r.op = "pairs" /\ r.here -> [section EXCEPT !.state = "failed"]
                  [] r.op \in DirectActions /\ r.here ->
                       [section EXCEPT !.rows[r.id].busy = "", !.rows[r.id].confirming = FALSE]
                  [] OTHER -> section
  /\ removal' = IF r.op = "delete" THEN [removal EXCEPT !.busy = FALSE] ELSE removal
  /\ suspect' = (suspect \/ r.op \in RegistryChanges \cup {"list"})
  /\ UNCHANGED <<backend, servers, dialog, sent, consented>>

-----------------------------------------------------------------------------
Init ==
  /\ registry \in [Ids -> {"absent", "on"}] /\ \E i \in Ids : registry[i] = "on"
  /\ presented = [i \in Ids |-> CHOOSE k \in Keys : TRUE]
  /\ pending = [i \in Ids |-> None] /\ known = [i \in Ids |-> {}]
  /\ passwords = [i \in Ids |-> None]
  /\ keyPairs \in {{}, {p \in Ids \X Ids : p[1] # p[2] /\ Exists(p[1]) /\ Exists(p[2])}}
  /\ requests = EmptyBag
  /\ servers = [i \in Ids |-> registry[i]] /\ listState = [loading |-> FALSE, error |-> FALSE]
  /\ dialog = None /\ wizard = Form(None) /\ auth = None /\ editor = NoEditor
  /\ section = NoSection /\ removal = [target |-> None, busy |-> FALSE]
  /\ sent = 0 /\ faults = 0 /\ consented = {} /\ suspect = FALSE

Next ==
  \/ OpenAdd \/ onClose \/ CloseRemove \/ loadServers \/ removeServer
  \/ runTest \/ BackToForm \/ trustAndRetry
  \/ typePassword \/ CancelPassword \/ save \/ clear \/ RetryAuth \/ RetryPairs
  \/ \E enabled \in {"on", "off"} : submit(enabled) \/ \E i \in Ids : toggleEnabled(i, enabled)
  \/ \E i \in Ids :
       \/ OpenEdit(i) \/ OpenRemove(i) \/ FleetRemove(i)
       \/ OthersConnect(i) \/ Rekeyed(i)
       \/ \E action \in DirectActions : run(i, action)
       \/ \E yes \in BOOLEAN : ConfirmRevoke(i, yes)
  \/ \E r \in InFlight : Serve(r) \/ Arrives(r) \/ Fails(r)

Spec == Init /\ [][Next]_vars

-----------------------------------------------------------------------------
(* Properties *)

(* The shape of the registry, of the trust and of the list that shows it. *)
TypeOK ==
  /\ registry \in [Ids -> {"absent", "on", "off", "gone"}]
  /\ presented \in [Ids -> Keys] /\ pending \in [Ids -> Keys \cup {None}]
  /\ known \in [Ids -> SUBSET Keys] /\ passwords \in [Ids -> Ids \cup {None}]
  /\ keyPairs \subseteq Ids \X Ids
  /\ servers \in [Ids -> {"absent", "on", "off"}] /\ listState \in [loading : BOOLEAN, error : BOOLEAN]
  /\ dialog \in Ids \cup {None, "add"}

(* A late test result replaces what the open dialog shows, so the prompt a   *)
(* user confirms may belong to another server than the dialog, or to a key   *)
(* that the host no longer presents. Still a key is trusted for a host only  *)
(* after the user confirmed a prompt with that host and that key: the        *)
(* backend compares both with what the last connect captured.                *)
TrustWasConfirmed == \A i \in Ids, k \in Keys : k \in known[i] => <<i, k>> \in consented

(* A password that was typed for one server is never stored for another,     *)
(* whatever dialogs are closed, reopened and moved to another step while it  *)
(* is being saved; a server that is gone keeps one only if its clean-up      *)
(* failed.                                                                   *)
PasswordsStayHome ==
  \A i \in Ids : passwords[i] # None => passwords[i] = i /\ (Exists(i) \/ faults > 0)

(* No dialog stays busy: every busy state of the settings page waits for a   *)
(* request in flight that will end it, although closing and reopening resets *)
(* some of the flags and late answers set others.                            *)
BusyIsInFlight ==
  /\ listState.loading => Waiting({"list"}) # {}
  /\ wizard.saving => Waiting({"create", "patch"}) # {}
  /\ wizard.step = "testing" => Waiting({"test"}) # {}
  /\ wizard.trusting => \E r \in Waiting({"trust", "test"}) : r.op = "trust" \/ r.arg = "chain"
  /\ removal.busy => Waiting({"delete"}) # {}
  /\ editor.phase # "idle" => \E r \in Waiting(PasswordActions) : r.here /\ r.id = dialog
  /\ section.state = "loading" => \E r \in Waiting({"pairs"}) : r.here /\ r.id = dialog
  /\ \A i \in Ids : Row(i).busy # "" =>
       \E r \in Waiting({Row(i).busy}) : r.here /\ r.id = i /\ r.arg = dialog

(* Every way to change the registry ends by loading it again: with nothing   *)
(* in flight, and no load failed or overtaken, the list is the registry.     *)
QuietRegistryAgrees ==
  ~suspect /\ Waiting(RegistryChanges \cup {"list"}) = {} =>
    \A i \in Ids : servers[i] = IF Exists(i) THEN registry[i] ELSE "absent"
=============================================================================
