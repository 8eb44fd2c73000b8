------------------------------ MODULE Console ------------------------------
(* Routing, selection and fetching in the dashboard: the console store     *)
(* (frontend/src/store/consoleStore.ts), its one WebSocket                 *)
(* (services/realtime.ts), the hash routes (shell/routes.ts) and the pages *)
(* that read them (App, ServerPage, FleetPage). A list, a summary or a     *)
(* snapshot is there or is not; what it says is not modelled.              *)
EXTENDS Integers, Sequences, Bags, SequencesExt

CONSTANTS Servers,       \* server ids an address may name
          None,          \* null / undefined
          TypedHashes,   \* bound: the addresses a user types or goes back to
          MaxAttempt,    \* MAX_ATTEMPT of the reconnect backoff
          MaxRequests,   \* bound: REST requests in flight
          MaxWire        \* bound: select frames in flight

VARIABLES
  hash,       \* window.location.hash
  hashEvent,  \* a hashchange event is queued
  hidden,     \* hidden sections (utils/sections.ts)
  connected, route, selected,  \* the store
  registry, fleet,             \* the server list and the fleet summary
  snapshots,                   \* the servers whose snapshot the store has
  snapshotErrors,              \* the servers whose last fetch failed
  requests,   \* bag of REST requests in flight
  socket,     \* "none", "connecting" or "open"
  timer,      \* the reconnect timer is armed
  attempt, connection, intent, \* RealtimeClient
  wire,       \* select frames sent and not yet received
  session     \* the selection the backend holds for this connection

page == <<hash, hashEvent, hidden, route, selected>>
data == <<registry, fleet, snapshots, snapshotErrors>>
client == <<socket, timer, attempt, connection, intent, wire, session>>
vars == <<connected, requests, page, data, client>>

-----------------------------------------------------------------------------
(* Routes. The server pages stand for every page but the fleet and the      *)
(* settings; the sections for one that is always shown and one that may be  *)
(* hidden.                                                                  *)

DEFAULT_TAB == "overview"
TOGGLEABLE_SECTIONS == {"processes"}
Tabs == {DEFAULT_TAB} \cup TOGGLEABLE_SECTIONS

ServerHash(s, tab) == [head |-> "server", id |-> s, tab |-> tab]
PlainHash(head) == [head |-> head, id |-> None, tab |-> None]
Hashes == {ServerHash(s, tab) : s \in Servers \cup {None}, tab \in Tabs \cup {"other"}}
          \cup {PlainHash(head) : head \in {"fleet", "settings", "other"}}

ASSUME ConsoleAssumption ==
  /\ None \notin Servers /\ TypedHashes \subseteq Hashes
  /\ MaxAttempt \in Nat \ {0} /\ {MaxRequests, MaxWire} \subseteq Nat

ServerRoute(s, tab) == [name |-> "server", server |-> s, tab |-> tab]
PlainRoute(name) == [name |-> name, server |-> None, tab |-> None]
Routes == {ServerRoute(s, tab) : s \in Servers, tab \in Tabs}
          \cup {PlainRoute(name) : name \in {"fleet", "settings"}}

(* Unknown heads and a server hash without an id fall back to the fleet, *)
(* an unknown tab to the overview.                                       *)
parseHash(h) ==
  CASE h.head = "server" /\ h.id # None ->
         ServerRoute(h.id, IF h.tab \in Tabs THEN h.tab ELSE DEFAULT_TAB)
    [] h.head = "settings" -> PlainRoute("settings")
    [] OTHER -> PlainRoute("fleet")

routeToHash(r) ==
  IF r.name = "server" THEN ServerHash(r.server, r.tab) ELSE PlainHash(r.name)

-----------------------------------------------------------------------------
(* Fetches *)

Nothing == [data |-> FALSE, loading |-> FALSE, error |-> FALSE]
Loading(list) == [list EXCEPT !.loading = TRUE, !.error = FALSE]
Loaded(list) == [list EXCEPT !.data = TRUE, !.loading = FALSE]
Failed(list) == [list EXCEPT !.loading = FALSE, !.error = TRUE]

Request(kind, s) == [kind |-> kind, server |-> s]
InFlight(kind, s) == BagIn(Request(kind, s), requests)
One(r) == SetToBag({r})
Issue(asked) ==
  /\ BagCardinality(requests (+) asked) <= MaxRequests
  /\ requests' = requests (+) asked

(* ingestSnapshot clears the error of its server. *)
ingestSnapshot(s) ==
  snapshots' = snapshots \cup {s} /\ snapshotErrors' = snapshotErrors \ {s}

-----------------------------------------------------------------------------
(* Routing and selection *)

(* sendSelect records the intent and sends it when the socket is open. *)
sendSelect(s) ==
  /\ socket = "open" => Len(wire) < MaxWire
  /\ intent' = s
  /\ wire' = IF socket = "open" THEN Append(wire, s) ELSE wire

select(s) == selected' = s /\ sendSelect(s)

(* A deep link to a hidden section shows the overview and is rewritten. *)
HiddenSection(r) == r.name = "server" /\ r.tab \in hidden

(* applyHash together with the effects of the page it renders: ServerPage  *)
(* asks for a snapshot when it has neither one nor an error, and rewrites  *)
(* a hidden section to the overview. more are the requests the caller adds. *)
applyHash(h, more) ==
  LET r == parseHash(h)
      isServer == r.name = "server"
      moved == isServer /\ (route.name # "server" \/ route.server # r.server)
      bare == moved /\ r.server \notin snapshots /\ r.server \notin snapshotErrors
      ask == Request("snapshot", r.server)
  IN  /\ route' = r
      /\ IF moved THEN select(r.server)
         ELSE IF ~isServer /\ selected # None THEN select(None)
         ELSE UNCHANGED <<selected, intent, wire>>
      /\ Issue((IF moved THEN One(ask) ELSE EmptyBag)
               (+) (IF bare THEN One(ask) ELSE EmptyBag) (+) more)
      /\ hash' = IF HiddenSection(r) THEN ServerHash(r.server, DEFAULT_TAB) ELSE h
      /\ hashEvent' = HiddenSection(r)
      /\ UNCHANGED hidden

(* The browser delivers hashchange; the store reads the current hash. *)
HashChange ==
  /\ connected /\ hashEvent
  /\ applyHash(hash, EmptyBag)
  /\ UNCHANGED <<connected, data, socket, timer, attempt, connection, session>>

(* The user edits the address or goes back. *)
EditHash(h) ==
  /\ connected /\ h # hash
  /\ hash' = h /\ hashEvent' = TRUE
  /\ UNCHANGED <<connected, requests, hidden, route, selected, data, client>>

(* navigate(): a link of the rail, of a machine panel or of the tab bar.   *)
(* A navigation to the current hash fires no event and is applied at once. *)
navigate(h) ==
  /\ connected
  /\ \/ /\ h = hash
        /\ applyHash(h, EmptyBag)
        /\ UNCHANGED <<socket, timer, attempt, connection, session>>
     \/ /\ h # hash
        /\ hash' = h /\ hashEvent' = TRUE
        /\ UNCHANGED <<requests, hidden, route, selected, client>>
  /\ UNCHANGED <<connected, data>>

setTab(tab) ==
  /\ route.name = "server" /\ tab \notin hidden
  /\ navigate(ServerHash(route.server, tab))

(* A machine panel of the fleet page. *)
OpenServer(s) ==
  /\ route.name = "fleet" /\ fleet.data
  /\ navigate(ServerHash(s, DEFAULT_TAB))

(* The rail lists the pages and the registered servers. *)
RailLink(name) == navigate(routeToHash(PlainRoute(name)))
RailServer(s) == registry.data /\ navigate(ServerHash(s, DEFAULT_TAB))

toggleSection(tab) ==
  /\ connected /\ route.name = "settings"
  /\ hidden' = IF tab \in hidden THEN hidden \ {tab} ELSE hidden \cup {tab}
  /\ UNCHANGED <<connected, requests, hash, hashEvent, route, selected, data, client>>

-----------------------------------------------------------------------------
(* The socket *)

(* backoffDelay only chooses how long; the timer always fires later. *)
scheduleReconnect ==
  /\ timer' = TRUE
  /\ attempt' = IF attempt + 1 > MaxAttempt THEN MaxAttempt ELSE attempt + 1

(* The factory gives a connecting socket, or throws. *)
open ==
  \/ socket' = "connecting" /\ timer' = FALSE /\ UNCHANGED attempt
  \/ socket' = "none" /\ scheduleReconnect

(* connect(): the first mount of the application. It records an intent       *)
(* before the socket can open, so there always is one to replay.             *)
connect ==
  /\ ~connected
  /\ connected' = TRUE
  /\ connection' = "connecting"
  /\ open
  /\ applyHash(hash, SetToBag({Request("servers", None), Request("fleet", None)}))
  /\ registry' = Loading(registry)
  /\ fleet' = Loading(fleet)
  /\ UNCHANGED <<snapshots, snapshotErrors, session>>

(* Mutant of SocketOpens: the intent is not replayed. *)
SocketOpensBare ==
  /\ socket = "connecting"
  /\ socket' = "open" /\ attempt' = 0 /\ connection' = "live"
  /\ UNCHANGED <<connected, requests, page, data, timer, intent, wire, session>>

(* onopen resets the backoff and replays the latest intent. *)
SocketOpens ==
  /\ socket = "connecting"
  /\ socket' = "open" /\ attempt' = 0 /\ connection' = "live"
  /\ wire' = <<intent>>
  /\ UNCHANGED <<connected, requests, page, data, timer, intent, session>>

(* Mutant of SocketCloses: only the factory's failures are retried. *)
SocketClosesForGood ==
  /\ socket # "none"
  /\ socket' = "none" /\ connection' = "reconnecting"
  /\ wire' = <<>> /\ session' = None
  /\ UNCHANGED <<connected, requests, page, data, timer, attempt, intent>>

SocketCloses ==
  /\ socket # "none"
  /\ socket' = "none" /\ connection' = "reconnecting"
  /\ scheduleReconnect
  /\ wire' = <<>> /\ session' = None
  /\ UNCHANGED <<connected, requests, page, data, intent>>

ReconnectTimer ==
  /\ timer
  /\ open
  /\ UNCHANGED <<connected, requests, page, data, connection, intent, wire, session>>

(* The backend takes the next select frame. *)
SessionSelects ==
  /\ wire # <<>>
  /\ session' = Head(wire) /\ wire' = Tail(wire)
  /\ UNCHANGED <<connected, requests, page, data, socket, timer, attempt,
                 connection, intent>>

-----------------------------------------------------------------------------
(* Frames and answers *)

(* Only an open socket delivers; a malformed or a hello frame changes       *)
(* nothing, a status frame nothing that is modelled here.                   *)
FleetFrame ==
  /\ socket = "open"
  /\ fleet' = [data |-> TRUE, loading |-> FALSE, error |-> FALSE]
  /\ UNCHANGED <<connected, requests, page, client, registry, snapshots, snapshotErrors>>

ServerFrame ==
  /\ socket = "open" /\ session # None
  /\ ingestSnapshot(session)
  /\ UNCHANGED <<connected, requests, page, client, registry, fleet>>

Answered(r) == requests' = requests (-) One(r)

(* The retry of the fleet page, which has an error and no data. *)
loadFleet ==
  /\ connected /\ route.name = "fleet" /\ ~fleet.data /\ fleet.error
  /\ Issue(One(Request("fleet", None)))
  /\ fleet' = Loading(fleet)
  /\ UNCHANGED <<connected, page, client, registry, snapshots, snapshotErrors>>

(* The retry of the server page: an error and no snapshot, or a snapshot  *)
(* that says the server is unreachable. The error stays until the answer. *)
loadSnapshot ==
  /\ connected /\ route.name = "server"
  /\ route.server \in snapshots \cup snapshotErrors
  /\ Issue(One(Request("snapshot", route.server)))
  /\ UNCHANGED <<connected, page, client, data>>

Reply(r) ==
  /\ Answered(r)
  /\ registry' = IF r.kind = "servers" THEN Loaded(registry) ELSE registry
  /\ fleet' = IF r.kind = "fleet" THEN [Loaded(fleet) EXCEPT !.error = FALSE] ELSE fleet
  /\ IF r.kind = "snapshot" THEN ingestSnapshot(r.server)
     ELSE UNCHANGED <<snapshots, snapshotErrors>>
  /\ UNCHANGED <<connected, page, client>>

(* Mutant of Fail: the error of a snapshot is not stored. *)
FailSilently(r) ==
  /\ Answered(r)
  /\ registry' = IF r.kind = "servers" THEN Failed(registry) ELSE registry
  /\ fleet' = IF r.kind = "fleet" THEN Failed(fleet) ELSE fleet
  /\ UNCHANGED <<connected, page, client, snapshots, snapshotErrors>>

Fail(r) ==
  /\ Answered(r)
  /\ registry' = IF r.kind = "servers" THEN Failed(registry) ELSE registry
  /\ fleet' = IF r.kind = "fleet" THEN Failed(fleet) ELSE fleet
  /\ snapshotErrors' = IF r.kind = "snapshot" THEN snapshotErrors \cup {r.server}
                       ELSE snapshotErrors
  /\ UNCHANGED <<connected, page, client, snapshots>>

-----------------------------------------------------------------------------
Init ==
  /\ hash \in {PlainHash("fleet")} \cup TypedHashes
  /\ hashEvent = FALSE
  /\ hidden \in SUBSET TOGGLEABLE_SECTIONS
  /\ connected = FALSE /\ route = PlainRoute("fleet") /\ selected = None
  /\ registry = Nothing /\ fleet = Nothing
  /\ snapshots = {} /\ snapshotErrors = {}
  /\ requests = EmptyBag
  /\ socket = "none" /\ timer = FALSE /\ attempt = 0
  /\ connection = "connecting" /\ intent = None
  /\ wire = <<>> /\ session = None

Next ==
  \/ connect
  \/ HashChange
  \/ \E h \in TypedHashes : EditHash(h)
  \/ \E tab \in Tabs : setTab(tab)
  \/ \E s \in Servers : OpenServer(s) \/ RailServer(s)
  \/ \E name \in {"fleet", "settings"} : RailLink(name)
  \/ \E tab \in TOGGLEABLE_SECTIONS : toggleSection(tab)
  \/ SocketOpens \/ SocketCloses \/ ReconnectTimer \/ SessionSelects
  \/ FleetFrame \/ ServerFrame
  \/ loadFleet \/ loadSnapshot
  \/ \E r \in BagToSet(requests) : Reply(r) \/ Fail(r)

Spec == Init /\ [][Next]_vars

-----------------------------------------------------------------------------
(* Properties *)

(* The shape of the store, of the client and of what is in flight. *)
TypeOK ==
  /\ hash \in Hashes /\ route \in Routes
  /\ {hashEvent, connected, timer} \subseteq BOOLEAN
  /\ hidden \subseteq TOGGLEABLE_SECTIONS
  /\ {selected, intent, session} \cup ToSet(wire) \subseteq Servers \cup {None}
  /\ {registry, fleet} \subseteq [data : BOOLEAN, loading : BOOLEAN, error : BOOLEAN]
  /\ snapshots \subseteq Servers /\ snapshotErrors \subseteq Servers
  /\ socket \in {"none", "connecting", "open"} /\ attempt \in 0 .. MaxAttempt
  /\ connection \in {"connecting", "live", "reconnecting"}

(* Once the events are delivered, the backend streams the server that the  *)
(* address shows: through navigation, same-hash clicks, lost sockets and   *)
(* replayed intents, the selection of the session, of the store and of the *)
(* client never part.                                                      *)
SelectionReachesServer ==
  connected /\ ~hashEvent =>
    /\ route = parseHash(hash)
    /\ selected = route.server /\ intent = selected
    /\ socket = "open" /\ wire = <<>> => session = selected

(* The client is never stranded: without a socket the timer is armed, with *)
(* one it is not, so there is never a second socket either; and the badge  *)
(* says "live" exactly while the socket is open.                           *)
NeverStranded ==
  /\ connected => (timer <=> socket = "none")
  /\ connection = "live" <=> socket = "open"

(* No page stays a skeleton: while nothing is in flight, the fleet page    *)
(* and the page of the routed server have data or an error with a retry,   *)
(* and no list is marked as loading.                                       *)
NeverStuck ==
  connected =>
    /\ InFlight("fleet", None) \/ (~fleet.loading /\ (fleet.data \/ fleet.error))
    /\ InFlight("servers", None)
         \/ (~registry.loading /\ (registry.data \/ registry.error))
    /\ route.name = "server" =>
         \/ InFlight("snapshot", route.server)
         \/ route.server \in snapshots \cup snapshotErrors

=============================================================================
