--------------------------- MODULE ConsoleProofs ---------------------------
(* Proofs about the console's store, Console, and about the workspace store  *)
(* beside it, Workspace: for every set of servers and of records, and every  *)
(* bound. The two share no state; they share this module and its lemmas.     *)
EXTENDS Console, Workspace, BagFacts

-----------------------------------------------------------------------------
(* Routes *)

LEMMA RouteType ==
  ASSUME NEW h \in Hashes
  PROVE  /\ parseHash(h) \in Routes
         /\ parseHash(h).name = "server" => /\ parseHash(h).server \in Servers
                                            /\ parseHash(h).tab \in Tabs
         /\ parseHash(h).name # "server" => parseHash(h).server = None
<1>1. CASE h.head = "server" /\ h.id # None
  <2> DEFINE tab == IF h.tab \in Tabs THEN h.tab ELSE DEFAULT_TAB
  <2>1. parseHash(h) = ServerRoute(h.id, tab) BY <1>1 DEF parseHash
  <2>2. h.id \in Servers BY <1>1 DEF Hashes, ServerHash, PlainHash
  <2>3. tab \in Tabs BY DEF Tabs
  <2> HIDE DEF tab
  <2>4. QED BY <2>1, <2>2, <2>3 DEF Routes, ServerRoute
<1>2. CASE ~(h.head = "server" /\ h.id # None)
  <2>1. parseHash(h) \in {PlainRoute("settings"), PlainRoute("fleet")} BY <1>2 DEF parseHash
  <2>2. QED BY <2>1 DEF Routes, PlainRoute
<1>3. QED BY <1>1, <1>2

LEMMA HashTypes ==
  /\ \A s \in Servers, tab \in Tabs : ServerHash(s, tab) \in Hashes
  /\ DEFAULT_TAB \in Tabs
  /\ \A name \in {"fleet", "settings"} : routeToHash(PlainRoute(name)) \in Hashes
  /\ PlainHash("fleet") \in Hashes /\ PlainRoute("fleet") \in Routes
BY DEF Hashes, Tabs, routeToHash, PlainRoute, Routes

-----------------------------------------------------------------------------
(* Type correctness *)

Choice == Servers \cup {None}

(* The shape of what is in flight, and what the store holds before it        *)
(* connects.                                                                 *)
TypeInv ==
  /\ TypeOK
  /\ wire \in Seq(Choice)
  /\ IsABag(requests)
  /\ \A r \in BagToSet(requests) : r.kind = "snapshot" => r.server \in Servers
  /\ ~connected => route = PlainRoute("fleet")

(* What applyHash does, together with the page it renders: the route is the  *)
(* one of the address, the selection follows it, and a server page that is   *)
(* newly shown has a snapshot on its way.                                    *)
Follows(h, more) ==
  /\ route' = parseHash(h)
  /\ \/ /\ selected' = route'.server /\ intent' = selected'
        /\ wire' = IF socket = "open" THEN Append(wire, selected') ELSE wire
     \/ /\ UNCHANGED <<selected, intent, wire>>
        /\ route'.server = route.server \/ (route'.server = None /\ selected = None)
  /\ \/ /\ route'.name # "server" \/ (route.name = "server" /\ route.server = route'.server)
        /\ BagToSet(requests') = BagToSet(requests) \cup BagToSet(more)
     \/ /\ route'.name = "server"
        /\ BagToSet(requests') = BagToSet(requests) \cup BagToSet(more)
                                   \cup {Request("snapshot", route'.server)}
  /\ IsABag(requests')
  /\ hash' \in Hashes /\ hashEvent' \in BOOLEAN /\ (~hashEvent' => hash' = h)
  /\ hidden' = hidden

LEMMA ApplyHashFollows ==
  ASSUME NEW h \in Hashes, NEW more, IsABag(more), IsABag(requests), applyHash(h, more)
  PROVE  Follows(h, more)
<1> DEFINE r == parseHash(h)
           moved == r.name = "server" /\ (route.name # "server" \/ route.server # r.server)
           bare == moved /\ r.server \notin snapshots /\ r.server \notin snapshotErrors
           ask == Request("snapshot", r.server)
           X == IF moved THEN One(ask) ELSE EmptyBag
           Y == IF bare THEN One(ask) ELSE EmptyBag
<1>1. /\ route' = r
      /\ IF moved THEN select(r.server)
         ELSE IF ~(r.name = "server") /\ selected # None THEN select(None)
         ELSE UNCHANGED <<selected, intent, wire>>
      /\ requests' = requests (+) (X (+) Y (+) more)
      /\ hash' = IF HiddenSection(r) THEN ServerHash(r.server, DEFAULT_TAB) ELSE h
      /\ hashEvent' = HiddenSection(r)
      /\ UNCHANGED hidden
  BY Zenon DEF applyHash, Issue
<1>2. /\ r \in Routes
      /\ r.name = "server" => r.server \in Servers
      /\ r.name # "server" => r.server = None
  BY RouteType
<1> HIDE DEF r
<1>3. /\ IsABag(X) /\ BagToSet(X) = IF moved THEN {ask} ELSE {}
      /\ IsABag(Y) /\ BagToSet(Y) = IF bare THEN {ask} ELSE {}
  BY SetToBagFact, EmptyBagFact DEF One
<1> HIDE DEF X, Y
<1>4. IsABag(X (+) Y) /\ BagToSet(X (+) Y) = IF moved THEN {ask} ELSE {}
  <2>1. IsABag(X (+) Y) /\ BagToSet(X (+) Y) = BagToSet(X) \cup BagToSet(Y) BY <1>3, BagSum
  <2>2. QED BY <1>3, <2>1
<1>5. IsABag((X (+) Y) (+) more) /\ BagToSet((X (+) Y) (+) more) = BagToSet(X (+) Y) \cup BagToSet(more)
  BY <1>4, BagSum
<1>6. /\ IsABag(requests')
      /\ BagToSet(requests') = BagToSet(requests) \cup BagToSet(X (+) Y) \cup BagToSet(more)
  <2>1. requests' = requests (+) ((X (+) Y) (+) more) BY <1>1
  <2>2. QED BY <1>5, <2>1, BagSum
<1>7. \/ /\ route'.name # "server" \/ (route.name = "server" /\ route.server = route'.server)
         /\ BagToSet(requests') = BagToSet(requests) \cup BagToSet(more)
      \/ /\ route'.name = "server"
         /\ BagToSet(requests') = BagToSet(requests) \cup BagToSet(more)
                                    \cup {Request("snapshot", route'.server)}
  <2>1. CASE moved BY <1>1, <1>4, <1>6, <2>1
  <2>2. CASE ~moved BY <1>1, <1>4, <1>6, <2>2
  <2>3. QED BY <2>1, <2>2
<1>8. \/ /\ selected' = route'.server /\ intent' = selected'
         /\ wire' = IF socket = "open" THEN Append(wire, selected') ELSE wire
      \/ /\ UNCHANGED <<selected, intent, wire>>
         /\ route'.server = route.server \/ (route'.server = None /\ selected = None)
  <2>1. CASE moved BY <1>1, <2>1 DEF select, sendSelect
  <2>2. CASE ~moved /\ ~(r.name = "server") /\ selected # None
    BY <1>1, <1>2, <2>2 DEF select, sendSelect
  <2>3. CASE ~moved /\ ~(~(r.name = "server") /\ selected # None) BY <1>1, <1>2, <2>3
  <2>4. QED BY <2>1, <2>2, <2>3
<1>9. hash' \in Hashes /\ hashEvent' \in BOOLEAN /\ (~hashEvent' => hash' = h)
  <2>1. HiddenSection(r) \in BOOLEAN BY DEF HiddenSection
  <2>2. HiddenSection(r) => r.server \in Servers BY <1>2 DEF HiddenSection
  <2>3. QED BY <1>1, <2>1, <2>2, HashTypes
<1>10. route' = parseHash(h) BY <1>1 DEF r
<1>11. QED BY <1>1, <1>6, <1>7, <1>8, <1>9, <1>10 DEF Follows
-----------------------------------------------------------------------------
(* The steps of the page: every link either applies the current address or   *)
(* writes a new one and queues the event.                                    *)

Applies ==
  /\ connected
  /\ \E h \in Hashes : applyHash(h, EmptyBag)
  /\ UNCHANGED <<connected, data, socket, timer, attempt, connection, session>>

Readdresses ==
  /\ hash' \in Hashes /\ hashEvent' = TRUE
  /\ UNCHANGED <<connected, requests, hidden, route, selected, data, client>>

PageStep ==
  \/ HashChange
  \/ \E h \in TypedHashes : EditHash(h)
  \/ \E tab \in Tabs : setTab(tab)
  \/ \E s \in Servers : OpenServer(s) \/ RailServer(s)
  \/ \E name \in {"fleet", "settings"} : RailLink(name)

LEMMA NavigateCases ==
  ASSUME NEW h \in Hashes, navigate(h)
  PROVE  Applies \/ Readdresses
<1>1. CASE h = hash /\ applyHash(h, EmptyBag)
           /\ UNCHANGED <<socket, timer, attempt, connection, session>>
  BY <1>1 DEF navigate, Applies
<1>2. CASE h # hash /\ hash' = h /\ hashEvent' = TRUE
           /\ UNCHANGED <<requests, hidden, route, selected, client>>
  BY <1>2 DEF navigate, Readdresses
<1>3. QED BY <1>1, <1>2, Zenon DEF navigate

LEMMA PageStepCases ==
  ASSUME TypeInv, PageStep
  PROVE  Applies \/ Readdresses
<1>0. hash \in Hashes /\ TypedHashes \subseteq Hashes
  BY ConsoleAssumption DEF TypeInv, TypeOK
<1>1. CASE HashChange BY <1>0, <1>1, Zenon DEF HashChange, Applies
<1>2. ASSUME NEW h \in TypedHashes, EditHash(h) PROVE Readdresses
  BY <1>0, <1>2 DEF EditHash, Readdresses
<1>3. ASSUME NEW tab \in Tabs, setTab(tab) PROVE Applies \/ Readdresses
  <2>1. route.server \in Servers
    BY <1>3 DEF setTab, TypeInv, TypeOK, Routes, ServerRoute, PlainRoute
  <2>2. QED BY <1>3, <2>1, HashTypes, NavigateCases DEF setTab
<1>4. ASSUME NEW s \in Servers, OpenServer(s) PROVE Applies \/ Readdresses
  BY <1>4, HashTypes, NavigateCases DEF OpenServer
<1>5. ASSUME NEW s \in Servers, RailServer(s) PROVE Applies \/ Readdresses
  BY <1>5, HashTypes, NavigateCases DEF RailServer
<1>6. ASSUME NEW name \in {"fleet", "settings"}, RailLink(name) PROVE Applies \/ Readdresses
  BY <1>6, HashTypes, NavigateCases DEF RailLink
<1>7. QED BY <1>1, <1>2, <1>3, <1>4, <1>5, <1>6, Zenon DEF PageStep

(* An Applies step, in terms of Follows. *)
LEMMA AppliesFollows ==
  ASSUME TypeInv, Applies
  PROVE  \E h \in Hashes : Follows(h, EmptyBag)
<1>1. PICK h \in Hashes : applyHash(h, EmptyBag) BY DEF Applies
<1>2. QED BY <1>1, EmptyBagFact, ApplyHashFollows DEF TypeInv

LEMMA ConnectFollows ==
  ASSUME TypeInv, connect
  PROVE  \E more : /\ Follows(hash, more)
                   /\ BagToSet(more) = {Request("servers", None), Request("fleet", None)}
<1> DEFINE more == SetToBag({Request("servers", None), Request("fleet", None)})
<1>1. IsABag(more) /\ BagToSet(more) = {Request("servers", None), Request("fleet", None)}
  BY SetToBagFact
<1>2. applyHash(hash, more) BY DEF connect
<1>3. hash \in Hashes /\ IsABag(requests) BY DEF TypeInv, TypeOK
<1> HIDE DEF more
<1>4. Follows(hash, more) BY <1>1, <1>2, <1>3, ApplyHashFollows
<1>5. QED BY <1>1, <1>4

(* The parts of the type invariant that Follows touches. *)
LEMMA FollowsType ==
  ASSUME TypeInv, NEW h \in Hashes, NEW more, Follows(h, more),
         \A r \in BagToSet(more) : r.kind # "snapshot"
  PROVE  /\ hash' \in Hashes /\ route' \in Routes /\ hashEvent' \in BOOLEAN /\ hidden' = hidden
         /\ selected' \in Choice /\ intent' \in Choice /\ wire' \in Seq(Choice)
         /\ IsABag(requests')
         /\ \A r \in BagToSet(requests') : r.kind = "snapshot" => r.server \in Servers
<1>1. /\ route' \in Routes /\ route'.server \in Choice
      /\ route'.name = "server" => route'.server \in Servers
  BY RouteType DEF Follows, Choice
<1>2. selected \in Choice /\ intent \in Choice /\ wire \in Seq(Choice)
  BY DEF TypeInv, TypeOK, Choice
<1>3. selected' \in Choice /\ intent' \in Choice /\ wire' \in Seq(Choice)
  <2>1. CASE /\ selected' = route'.server /\ intent' = selected'
             /\ wire' = IF socket = "open" THEN Append(wire, selected') ELSE wire
    BY <1>1, <1>2, <2>1
  <2>2. CASE UNCHANGED <<selected, intent, wire>> BY <1>2, <2>2
  <2>3. QED BY <2>1, <2>2 DEF Follows
<1>4. \A r \in BagToSet(requests') : r.kind = "snapshot" => r.server \in Servers
  BY <1>1 DEF Follows, TypeInv, Request
<1>5. QED BY <1>1, <1>3, <1>4 DEF Follows

LEMMA WireType == ASSUME NEW w \in Seq(Choice) PROVE ToSet(w) \subseteq Choice
BY DEF ToSet

(* The type invariant, variable by variable. *)
List == [data : BOOLEAN, loading : BOOLEAN, error : BOOLEAN]

Typed ==
  /\ hash \in Hashes /\ route \in Routes
  /\ hashEvent \in BOOLEAN /\ connected \in BOOLEAN /\ timer \in BOOLEAN
  /\ hidden \subseteq TOGGLEABLE_SECTIONS
  /\ selected \in Choice /\ intent \in Choice /\ session \in Choice /\ wire \in Seq(Choice)
  /\ registry \in List /\ fleet \in List
  /\ snapshots \subseteq Servers /\ snapshotErrors \subseteq Servers
  /\ socket \in {"none", "connecting", "open"} /\ attempt \in 0 .. MaxAttempt
  /\ connection \in {"connecting", "live", "reconnecting"}
  /\ IsABag(requests)
  /\ \A r \in BagToSet(requests) : r.kind = "snapshot" => r.server \in Servers
  /\ ~connected => route = PlainRoute("fleet")

LEMMA TypeSplit == TypeInv <=> Typed
<1>1. wire \in Seq(Choice) => ToSet(wire) \subseteq Choice BY WireType
<1>2. QED BY <1>1, Zenon DEF TypeInv, TypeOK, Typed, List, Choice

LEMMA TypeJoin == Typed' => TypeInv'
<1>1. wire' \in Seq(Choice) => ToSet(wire') \subseteq Choice BY WireType
<1>2. wire' \in Seq(Choice) => ToSet(wire)' \subseteq Choice BY <1>1 DEF ToSet
<1>3. QED BY <1>2, Zenon DEF TypeInv, TypeOK, Typed, List, Choice

LEMMA InitType == Init => TypeInv
<1> SUFFICES ASSUME Init PROVE Typed BY TypeSplit
<1>1. <<>> \in Seq(Choice) OBVIOUS
<1>2. IsABag(requests) /\ BagToSet(requests) = {} BY EmptyBagFact DEF Init
<1>3. hash \in Hashes /\ route \in Routes BY HashTypes, ConsoleAssumption DEF Init
<1>4. registry \in List /\ fleet \in List BY DEF Init, Nothing, List
<1>5. attempt \in 0 .. MaxAttempt BY ConsoleAssumption DEF Init
<1>6. QED BY <1>1, <1>2, <1>3, <1>4, <1>5 DEF Init, Typed, Choice

LEMMA ListTypes ==
  ASSUME NEW list \in List
  PROVE  /\ Loading(list) \in List /\ Loaded(list) \in List /\ Failed(list) \in List
         /\ [Loaded(list) EXCEPT !.error = FALSE] \in List
         /\ Loading(list) = [list EXCEPT !.loading = TRUE, !.error = FALSE]
BY DEF Loading, Loaded, Failed, List

LEMMA SocketTypes ==
  ASSUME Typed, open
  PROVE  /\ socket' \in {"none", "connecting"} /\ timer' \in BOOLEAN /\ attempt' \in 0 .. MaxAttempt
         /\ timer' <=> socket' = "none"
<1>1. attempt \in 0 .. MaxAttempt BY DEF Typed
<1>2. CASE socket' = "connecting" /\ timer' = FALSE /\ UNCHANGED attempt BY <1>1, <1>2
<1>3. CASE socket' = "none" /\ scheduleReconnect
  <2>1. attempt' \in 0 .. MaxAttempt BY <1>1, <1>3, ConsoleAssumption DEF scheduleReconnect
  <2>2. QED BY <1>3, <2>1 DEF scheduleReconnect
<1>4. QED BY <1>2, <1>3, Zenon DEF open

LEMMA TailType ==
  ASSUME NEW w \in Seq(Choice), w # <<>>
  PROVE  /\ Head(w) \in Choice /\ Tail(w) \in Seq(Choice) /\ Len(w) \in Nat /\ Len(w) > 0
         /\ Len(Tail(w)) = Len(w) - 1
         /\ Len(w) > 1 => Tail(w)[Len(Tail(w))] = w[Len(w)]
         /\ Len(w) = 1 => Tail(w) = <<>> /\ Head(w) = w[Len(w)]
OBVIOUS

(* An answer takes one request out; the rest stays. *)
LEMMA AnsweredBag ==
  ASSUME IsABag(requests), NEW r, Answered(r)
  PROVE  /\ IsABag(requests') /\ BagToSet(requests') \subseteq BagToSet(requests)
         /\ \A e \in BagToSet(requests) : e # r => e \in BagToSet(requests')
BY BagRemoveOne DEF Answered, One

(* A retry puts one in. *)
LEMMA IssuedBag ==
  ASSUME IsABag(requests), NEW r, Issue(One(r))
  PROVE  IsABag(requests') /\ BagToSet(requests') = BagToSet(requests) \cup {r}
BY BagAddOne DEF Issue, One

LEMMA AnswerType ==
  ASSUME Typed, NEW r \in BagToSet(requests), Reply(r) \/ Fail(r)
  PROVE  Typed'
<1>1. IsABag(requests') /\ BagToSet(requests') \subseteq BagToSet(requests)
  BY AnsweredBag DEF Typed, Reply, Fail
<1>2. registry' \in List /\ fleet' \in List
  BY ListTypes DEF Typed, Reply, Fail
<1>3. snapshots' \subseteq Servers /\ snapshotErrors' \subseteq Servers
  BY DEF Typed, Reply, Fail, ingestSnapshot
<1>4. UNCHANGED <<connected, page, client>> BY DEF Reply, Fail
<1>5. QED BY <1>1, <1>2, <1>3, <1>4 DEF Typed, page, client

LEMMA NextType == TypeInv /\ [Next]_vars => TypeInv'
<1> SUFFICES ASSUME TypeInv, [Next]_vars PROVE Typed'
  BY TypeJoin
<1>0. Typed BY TypeSplit
<1> USE DEF page, data, client
<1>1. CASE connect
  <2>1. PICK more : /\ Follows(hash, more)
                    /\ BagToSet(more) = {Request("servers", None), Request("fleet", None)}
    BY <1>1, ConnectFollows
  <2>2. \A r \in BagToSet(more) : r.kind # "snapshot" BY <2>1 DEF Request
  <2>3. hash \in Hashes BY <1>0 DEF Typed
  <2>4. /\ hash' \in Hashes /\ route' \in Routes /\ hashEvent' \in BOOLEAN /\ hidden' = hidden
        /\ selected' \in Choice /\ intent' \in Choice /\ wire' \in Seq(Choice)
        /\ IsABag(requests')
        /\ \A r \in BagToSet(requests') : r.kind = "snapshot" => r.server \in Servers
    BY <2>1, <2>2, <2>3, FollowsType
  <2>5. /\ socket' \in {"none", "connecting"} /\ timer' \in BOOLEAN /\ attempt' \in 0 .. MaxAttempt
    BY <1>0, <1>1, SocketTypes DEF connect
  <2>6. registry' \in List /\ fleet' \in List BY <1>0, <1>1, ListTypes DEF connect, Typed
  <2>7. /\ connected' = TRUE /\ connection' = "connecting"
        /\ UNCHANGED <<snapshots, snapshotErrors, session>>
    BY <1>1 DEF connect
  <2>8. QED BY <1>0, <2>4, <2>5, <2>6, <2>7 DEF Typed
<1>2. CASE Applies
  <2>1. PICK h \in Hashes : Follows(h, EmptyBag) BY <1>2, AppliesFollows
  <2>2. \A r \in BagToSet(EmptyBag) : r.kind # "snapshot" BY EmptyBagFact
  <2>3. /\ hash' \in Hashes /\ route' \in Routes /\ hashEvent' \in BOOLEAN /\ hidden' = hidden
        /\ selected' \in Choice /\ intent' \in Choice /\ wire' \in Seq(Choice)
        /\ IsABag(requests')
        /\ \A r \in BagToSet(requests') : r.kind = "snapshot" => r.server \in Servers
    BY <2>1, <2>2, FollowsType
  <2>4. /\ connected = TRUE /\ connected' = connected
        /\ UNCHANGED <<data, socket, timer, attempt, connection, session>>
    BY <1>0, <1>2 DEF Applies, Typed
  <2>5. QED BY <1>0, <2>3, <2>4 DEF Typed
<1>3. CASE Readdresses BY <1>0, <1>3 DEF Readdresses, Typed
<1>4. ASSUME NEW tab \in TOGGLEABLE_SECTIONS, toggleSection(tab) PROVE Typed'
  BY <1>0, <1>4 DEF toggleSection, Typed
<1>5. CASE SocketOpens
  <2>1. <<intent>> \in Seq(Choice) /\ 0 \in 0 .. MaxAttempt
    BY <1>0, ConsoleAssumption DEF Typed
  <2>2. QED BY <1>0, <1>5, <2>1 DEF SocketOpens, Typed
<1>6. CASE SocketCloses
  <2>1. <<>> \in Seq(Choice) OBVIOUS
  <2>2. attempt' \in 0 .. MaxAttempt /\ timer' = TRUE
    BY <1>0, <1>6, ConsoleAssumption DEF SocketCloses, scheduleReconnect, Typed
  <2>3. QED BY <1>0, <1>6, <2>1, <2>2 DEF SocketCloses, Typed, Choice
<1>7. CASE ReconnectTimer
  <2>1. /\ socket' \in {"none", "connecting"} /\ timer' \in BOOLEAN /\ attempt' \in 0 .. MaxAttempt
    BY <1>0, <1>7, SocketTypes DEF ReconnectTimer
  <2>2. QED BY <1>0, <1>7, <2>1 DEF ReconnectTimer, Typed
<1>8. CASE SessionSelects
  <2>1. Head(wire) \in Choice /\ Tail(wire) \in Seq(Choice)
    BY <1>0, <1>8, TailType DEF SessionSelects, Typed
  <2>2. QED BY <1>0, <1>8, <2>1 DEF SessionSelects, Typed
<1>9. CASE FleetFrame BY <1>0, <1>9 DEF FleetFrame, Typed, List
<1>10. CASE ServerFrame BY <1>0, <1>10 DEF ServerFrame, ingestSnapshot, Typed, Choice
<1>11. CASE loadFleet
  <2>1. IsABag(requests') /\ BagToSet(requests') = BagToSet(requests) \cup {Request("fleet", None)}
    BY <1>0, <1>11, IssuedBag DEF loadFleet, Typed
  <2>2. Request("fleet", None).kind # "snapshot" BY DEF Request
  <2>3. fleet' \in List BY <1>0, <1>11, ListTypes DEF loadFleet, Typed
  <2>4. QED BY <1>0, <1>11, <2>1, <2>2, <2>3 DEF loadFleet, Typed
<1>12. CASE loadSnapshot
  <2>1. /\ IsABag(requests')
        /\ BagToSet(requests') = BagToSet(requests) \cup {Request("snapshot", route.server)}
    BY <1>0, <1>12, IssuedBag DEF loadSnapshot, Typed
  <2>2. route.server \in Servers /\ Request("snapshot", route.server).server = route.server
    BY <1>0, <1>12 DEF loadSnapshot, Request, Typed
  <2>3. QED BY <1>0, <1>12, <2>1, <2>2 DEF loadSnapshot, Typed
<1>13. ASSUME NEW r \in BagToSet(requests), Reply(r) \/ Fail(r) PROVE Typed'
  BY <1>0, <1>13, AnswerType
<1>14. CASE UNCHANGED vars BY <1>0, <1>14 DEF vars, Typed
<1>15. CASE PageStep BY <1>2, <1>3, <1>15, PageStepCases
<1>16. QED
  BY <1>1, <1>4, <1>5, <1>6, <1>7, <1>8, <1>9, <1>10, <1>11, <1>12, <1>13, <1>14, <1>15, Zenon
     DEF Next, PageStep

(* The store, the client and what is in flight keep their types. *)
THEOREM TypeCorrect == Spec => []TypeOK
<1>1. TypeInv => TypeOK BY DEF TypeInv
<1>2. QED BY <1>1, InitType, NextType, PTL DEF Spec
-----------------------------------------------------------------------------
(* The socket *)

ClientInv ==
  /\ NeverStranded
  /\ ~connected => socket = "none" /\ ~timer

LEMMA NextClient == TypeInv /\ ClientInv /\ [Next]_vars => ClientInv'
<1> SUFFICES ASSUME TypeInv, ClientInv, [Next]_vars PROVE ClientInv'
  OBVIOUS
<1>0. Typed BY TypeSplit
<1> USE DEF page, data, client
<1>1. CASE connect
  <2>1. /\ socket' \in {"none", "connecting"} /\ (timer' <=> socket' = "none")
    BY <1>0, <1>1, SocketTypes DEF connect
  <2>2. connected' = TRUE /\ connection' = "connecting" BY <1>1 DEF connect
  <2>3. QED BY <2>1, <2>2 DEF ClientInv, NeverStranded
<1>2. CASE SocketOpens
  <2>1. connected BY <1>2 DEF SocketOpens, ClientInv
  <2>2. ~timer BY <1>2, <2>1 DEF SocketOpens, ClientInv, NeverStranded
  <2>3. socket' = "open" /\ connection' = "live" /\ UNCHANGED <<connected, timer>>
    BY <1>2 DEF SocketOpens
  <2>4. QED BY <2>1, <2>2, <2>3 DEF ClientInv, NeverStranded
<1>3. CASE SocketCloses
  <2>1. connected BY <1>3 DEF SocketCloses, ClientInv
  <2>2. socket' = "none" /\ connection' = "reconnecting" /\ timer' = TRUE /\ connected' = connected
    BY <1>3 DEF SocketCloses, scheduleReconnect
  <2>3. QED BY <2>1, <2>2 DEF ClientInv, NeverStranded
<1>4. CASE ReconnectTimer
  <2>1. connected /\ socket = "none" BY <1>4 DEF ReconnectTimer, ClientInv, NeverStranded
  <2>2. /\ socket' \in {"none", "connecting"} /\ (timer' <=> socket' = "none")
    BY <1>0, <1>4, SocketTypes DEF ReconnectTimer
  <2>3. UNCHANGED <<connected, connection>> BY <1>4 DEF ReconnectTimer
  <2>4. QED BY <2>1, <2>2, <2>3 DEF ClientInv, NeverStranded
<1>5. ASSUME UNCHANGED <<connected, socket, timer, connection>> PROVE ClientInv'
  BY <1>5 DEF ClientInv, NeverStranded
<1>6. CASE PageStep
  BY <1>5, <1>6, PageStepCases DEF Applies, Readdresses
<1>7. CASE \/ \E tab \in TOGGLEABLE_SECTIONS : toggleSection(tab)
           \/ SessionSelects \/ FleetFrame \/ ServerFrame \/ loadFleet \/ loadSnapshot
           \/ \E r \in BagToSet(requests) : Reply(r) \/ Fail(r)
           \/ UNCHANGED vars
  BY <1>5, <1>7
     DEF toggleSection, SessionSelects, FleetFrame, ServerFrame, loadFleet, loadSnapshot,
         Reply, Fail, vars
<1>8. QED BY <1>1, <1>2, <1>3, <1>4, <1>6, <1>7, Zenon DEF Next, PageStep

LEMMA InitClient == Init => ClientInv
BY DEF Init, ClientInv, NeverStranded

(* However the factory fails and the socket closes, a connected client has   *)
(* a socket or an armed timer, never both, and the badge tells the truth.    *)
THEOREM ReconnectCorrect == Spec => []NeverStranded
<1>1. ClientInv => NeverStranded BY DEF ClientInv
<1>2. QED BY <1>1, InitType, NextType, InitClient, NextClient, PTL DEF Spec

-----------------------------------------------------------------------------
(* The selection *)

(* The store's selection is that of its route at every moment, and the last  *)
(* frame on the wire, or the session when there is none, is the intent.      *)
SelectionInv ==
  /\ selected = route.server /\ intent = selected
  /\ connected /\ ~hashEvent => route = parseHash(hash)
  /\ socket # "open" => wire = <<>>
  /\ socket = "open" /\ wire = <<>> => session = intent
  /\ wire # <<>> => wire[Len(wire)] = intent

LEMMA AppendLast ==
  ASSUME NEW w \in Seq(Choice), NEW c \in Choice
  PROVE  Append(w, c) # <<>> /\ Append(w, c)[Len(Append(w, c))] = c
OBVIOUS

(* Following an address keeps the selection together. *)
LEMMA FollowsSelection ==
  ASSUME TypeInv, SelectionInv, NEW h, NEW more, Follows(h, more), session' = session,
         socket' = socket \/ (socket # "open" /\ socket' # "open")
  PROVE  SelectionInv'
<1>1. route' = parseHash(h) /\ (~hashEvent' => hash' = h) BY DEF Follows
<1>2. connected' /\ ~hashEvent' => route' = parseHash(hash)' BY <1>1 DEF parseHash
<1>3. /\ selected' = route'.server /\ intent' = selected'
      /\ socket' # "open" => wire' = <<>>
      /\ socket' = "open" /\ wire' = <<>> => session' = intent'
      /\ wire' # <<>> => wire'[Len(wire')] = intent'
  <2>1. CASE /\ selected' = route'.server /\ intent' = selected'
             /\ wire' = IF socket = "open" THEN Append(wire, selected') ELSE wire
    <3>1. CASE socket = "open"
      <4>1. wire \in Seq(Choice) BY DEF TypeInv
      <4>2. wire' = Append(wire, selected') BY <2>1, <3>1
      <4>3. wire' # <<>> /\ wire'[Len(wire')] = selected' BY <4>1, <4>2
      <4>4. QED BY <2>1, <3>1, <4>3
    <3>2. CASE socket # "open" BY <2>1, <3>2 DEF SelectionInv
    <3>3. QED BY <3>1, <3>2
  <2>2. CASE /\ UNCHANGED <<selected, intent, wire>>
             /\ route'.server = route.server \/ (route'.server = None /\ selected = None)
    BY <2>2 DEF SelectionInv
  <2>3. QED BY <2>1, <2>2, Zenon DEF Follows
<1>4. QED BY <1>2, <1>3 DEF SelectionInv

LEMMA NextSelection == TypeInv /\ ClientInv /\ SelectionInv /\ [Next]_vars => SelectionInv'
<1> SUFFICES ASSUME TypeInv, ClientInv, SelectionInv, [Next]_vars PROVE SelectionInv'
  OBVIOUS
<1>0. Typed BY TypeSplit
<1> USE DEF page, data, client
<1>1. CASE connect
  <2>1. PICK more : Follows(hash, more) BY <1>1, ConnectFollows
  <2>2. socket # "open" /\ session' = session BY <1>1 DEF connect, ClientInv
  <2>3. socket' # "open" BY <1>0, <1>1, SocketTypes DEF connect
  <2>4. QED BY <2>1, <2>2, <2>3, FollowsSelection
<1>2. CASE Applies
  <2>1. PICK h \in Hashes : Follows(h, EmptyBag) BY <1>2, AppliesFollows
  <2>2. UNCHANGED <<socket, session>> BY <1>2 DEF Applies
  <2>3. QED BY <2>1, <2>2, FollowsSelection
<1>3. CASE Readdresses BY <1>3 DEF Readdresses, SelectionInv
<1>4. CASE SocketOpens
  <2>1. wire' # <<>> /\ wire'[Len(wire')] = intent BY <1>4 DEF SocketOpens
  <2>2. socket' = "open" /\ UNCHANGED <<page, connected, intent, session>>
    BY <1>4 DEF SocketOpens
  <2>3. QED BY <2>1, <2>2 DEF SelectionInv, parseHash
<1>5. CASE SocketCloses BY <1>5 DEF SocketCloses, SelectionInv, parseHash
<1>6. CASE ReconnectTimer
  <2>1. socket # "open" BY <1>6 DEF ReconnectTimer, ClientInv, NeverStranded
  <2>2. socket' # "open" BY <1>0, <1>6, SocketTypes DEF ReconnectTimer
  <2>3. UNCHANGED <<page, connected, intent, wire>> BY <1>6 DEF ReconnectTimer
  <2>4. QED BY <2>1, <2>2, <2>3 DEF SelectionInv, parseHash
<1>7. CASE SessionSelects
  <2>1. wire \in Seq(Choice) /\ wire # <<>> BY <1>0, <1>7 DEF Typed, SessionSelects
  <2>2. /\ session' = Head(wire) /\ wire' = Tail(wire)
        /\ UNCHANGED <<page, connected, socket, intent>>
    BY <1>7 DEF SessionSelects
  <2>3. socket = "open" /\ wire[Len(wire)] = intent BY <2>1 DEF SelectionInv
  <2>4. CASE Len(wire) = 1
    <3>1. wire' = <<>> /\ session' = intent BY <2>1, <2>2, <2>3, <2>4, TailType
    <3>2. QED BY <2>2, <2>3, <3>1 DEF SelectionInv, parseHash
  <2>5. CASE Len(wire) > 1
    <3>1. wire' # <<>> /\ wire'[Len(wire')] = intent BY <2>1, <2>2, <2>3, <2>5, TailType
    <3>2. QED BY <2>2, <2>3, <3>1 DEF SelectionInv, parseHash
  <2>6. Len(wire) \in Nat /\ Len(wire) > 0 BY <2>1, TailType
  <2>7. \A n \in Nat : n > 0 => n = 1 \/ n > 1 OBVIOUS
  <2>8. QED BY <2>4, <2>5, <2>6, <2>7, Zenon
<1>8. ASSUME UNCHANGED <<connected, hash, hashEvent, route, selected, client>>
      PROVE  SelectionInv'
  BY <1>8 DEF SelectionInv, parseHash
<1>9. CASE \/ \E tab \in TOGGLEABLE_SECTIONS : toggleSection(tab)
           \/ FleetFrame \/ ServerFrame \/ loadFleet \/ loadSnapshot
           \/ \E r \in BagToSet(requests) : Reply(r) \/ Fail(r)
           \/ UNCHANGED vars
  BY <1>8, <1>9
     DEF toggleSection, FleetFrame, ServerFrame, loadFleet, loadSnapshot, Reply, Fail, vars
<1>10. CASE PageStep BY <1>2, <1>3, <1>10, PageStepCases
<1>11. QED BY <1>1, <1>4, <1>5, <1>6, <1>7, <1>9, <1>10, Zenon DEF Next, PageStep

LEMMA InitSelection == Init => SelectionInv
BY DEF Init, SelectionInv, PlainRoute

(* Whatever is clicked, typed, lost and replayed, once the queued event and  *)
(* the frames are delivered the backend streams what the address shows.      *)
THEOREM SelectionCorrect == Spec => []SelectionReachesServer
<1>1. SelectionInv => SelectionReachesServer BY DEF SelectionInv, SelectionReachesServer
<1>2. QED
  BY <1>1, InitType, NextType, InitClient, NextClient, InitSelection, NextSelection, PTL DEF Spec

-----------------------------------------------------------------------------
(* The pages *)

FleetDone == ~fleet.loading /\ (fleet.data \/ fleet.error)
RegistryDone == ~registry.loading /\ (registry.data \/ registry.error)

(* NeverStuck is inductive with the types. Its parts, for a set of requests  *)
(* in flight.                                                                *)
LEMMA StuckParts ==
  NeverStuck <=>
    (connected => /\ Request("fleet", None) \in BagToSet(requests) \/ FleetDone
                  /\ Request("servers", None) \in BagToSet(requests) \/ RegistryDone
                  /\ route.name = "server" =>
                       \/ Request("snapshot", route.server) \in BagToSet(requests)
                       \/ route.server \in snapshots \cup snapshotErrors)
BY Zenon DEF NeverStuck, InFlight, BagIn, FleetDone, RegistryDone

LEMMA StuckPartsNext ==
  (connected' => /\ Request("fleet", None) \in BagToSet(requests') \/ FleetDone'
                 /\ Request("servers", None) \in BagToSet(requests') \/ RegistryDone'
                 /\ route'.name = "server" =>
                      \/ Request("snapshot", route'.server) \in BagToSet(requests')
                      \/ route'.server \in snapshots' \cup snapshotErrors')
  => NeverStuck'
BY Zenon DEF NeverStuck, InFlight, BagIn, FleetDone, RegistryDone, BagToSet, Request

(* A finished fetch leaves its list with data or an error. *)
LEMMA ListDone ==
  ASSUME NEW list \in List
  PROVE  /\ ~Loaded(list).loading /\ Loaded(list).data
         /\ ~[Loaded(list) EXCEPT !.error = FALSE].loading
         /\ [Loaded(list) EXCEPT !.error = FALSE].data
         /\ ~Failed(list).loading /\ Failed(list).error
BY DEF Loaded, Failed, List

LEMMA NextStuck == TypeInv /\ NeverStuck /\ [Next]_vars => NeverStuck'
<1> SUFFICES ASSUME TypeInv, NeverStuck, [Next]_vars PROVE NeverStuck'
  OBVIOUS
<1>0. Typed BY TypeSplit
<1> USE DEF page, data, client
<1>1. CASE connect
  <2>1. PICK more : /\ Follows(hash, more)
                    /\ BagToSet(more) = {Request("servers", None), Request("fleet", None)}
    BY <1>1, ConnectFollows
  <2>2. route.name # "server" BY <1>0, <1>1 DEF connect, Typed, PlainRoute
  <2>3. QED BY <2>1, <2>2, StuckPartsNext DEF Follows
<1>2. CASE Applies
  <2>1. PICK h \in Hashes : Follows(h, EmptyBag) BY <1>2, AppliesFollows
  <2>2. connected /\ UNCHANGED <<data, connected>> BY <1>2 DEF Applies
  <2>3. BagToSet(requests) \subseteq BagToSet(requests') BY <2>1 DEF Follows
  <2>4. route'.name = "server" =>
          \/ Request("snapshot", route'.server) \in BagToSet(requests')
          \/ route'.server \in snapshots' \cup snapshotErrors'
    BY <2>1, <2>2, <2>3, StuckParts DEF Follows
  <2>5. QED BY <2>2, <2>3, <2>4, StuckParts, StuckPartsNext DEF FleetDone, RegistryDone
<1>3. ASSUME UNCHANGED <<connected, requests, route, data>> PROVE NeverStuck'
  BY <1>3, StuckParts, StuckPartsNext DEF FleetDone, RegistryDone
<1>4. CASE FleetFrame BY <1>4, StuckParts, StuckPartsNext DEF FleetFrame, FleetDone, RegistryDone
<1>5. CASE ServerFrame
  BY <1>5, StuckParts, StuckPartsNext DEF ServerFrame, ingestSnapshot, FleetDone, RegistryDone
<1>6. CASE loadFleet
  <2>1. BagToSet(requests') = BagToSet(requests) \cup {Request("fleet", None)}
    BY <1>0, <1>6, IssuedBag DEF loadFleet, Typed
  <2>2. QED BY <1>6, <2>1, StuckParts, StuckPartsNext DEF loadFleet, RegistryDone
<1>7. CASE loadSnapshot
  <2>1. BagToSet(requests) \subseteq BagToSet(requests')
    BY <1>0, <1>7, IssuedBag DEF loadSnapshot, Typed
  <2>2. UNCHANGED <<connected, route, data>> BY <1>7 DEF loadSnapshot
  <2>3. QED BY <2>1, <2>2, StuckParts, StuckPartsNext DEF FleetDone, RegistryDone
<1>8. ASSUME NEW r \in BagToSet(requests), Reply(r) \/ Fail(r) PROVE NeverStuck'
  <2>1. \A e \in BagToSet(requests) : e # r => e \in BagToSet(requests')
    BY <1>0, <1>8, AnsweredBag DEF Reply, Fail, Typed
  <2>2. UNCHANGED <<connected, route>> BY <1>8 DEF Reply, Fail
  <2>3. CASE ~connected BY <2>2, <2>3, StuckPartsNext
  <2>4. ASSUME connected PROVE Request("fleet", None) \in BagToSet(requests') \/ FleetDone'
    <3>1. CASE r.kind = "fleet" BY <1>0, <1>8, <3>1, ListDone DEF Reply, Fail, FleetDone, Typed
    <3>2. CASE r.kind # "fleet"
      <4>1. fleet' = fleet /\ r # Request("fleet", None) BY <1>8, <3>2 DEF Reply, Fail, Request
      <4>2. QED BY <2>1, <2>4, <4>1, StuckParts DEF FleetDone
    <3>3. QED BY <3>1, <3>2
  <2>5. ASSUME connected PROVE Request("servers", None) \in BagToSet(requests') \/ RegistryDone'
    <3>1. CASE r.kind = "servers"
      BY <1>0, <1>8, <3>1, ListDone DEF Reply, Fail, RegistryDone, Typed
    <3>2. CASE r.kind # "servers"
      <4>1. registry' = registry /\ r # Request("servers", None)
        BY <1>8, <3>2 DEF Reply, Fail, Request
      <4>2. QED BY <2>1, <2>5, <4>1, StuckParts DEF RegistryDone
    <3>3. QED BY <3>1, <3>2
  <2>6. ASSUME connected, route.name = "server"
        PROVE  \/ Request("snapshot", route.server) \in BagToSet(requests')
               \/ route.server \in snapshots' \cup snapshotErrors'
    <3>1. CASE r = Request("snapshot", route.server)
      <4>1. r.kind = "snapshot" /\ r.server = route.server BY <3>1 DEF Request
      <4>2. QED BY <1>8, <4>1 DEF Reply, Fail, ingestSnapshot
    <3>2. CASE r # Request("snapshot", route.server)
      <4>1. snapshots \cup snapshotErrors \subseteq snapshots' \cup snapshotErrors'
        BY <1>8 DEF Reply, Fail, ingestSnapshot
      <4>2. QED BY <2>1, <2>6, <3>2, <4>1, StuckParts
    <3>3. QED BY <3>1, <3>2
  <2>7. QED BY <2>2, <2>3, <2>4, <2>5, <2>6, StuckPartsNext
<1>9. CASE PageStep BY <1>2, <1>3, <1>9, PageStepCases DEF Readdresses
<1>10. CASE \/ \E tab \in TOGGLEABLE_SECTIONS : toggleSection(tab)
            \/ SocketOpens \/ SocketCloses \/ ReconnectTimer \/ SessionSelects
            \/ UNCHANGED vars
  BY <1>3, <1>10
     DEF toggleSection, SocketOpens, SocketCloses, ReconnectTimer, SessionSelects, vars
<1>11. QED BY <1>1, <1>4, <1>5, <1>6, <1>7, <1>8, <1>9, <1>10, Zenon DEF Next, PageStep

(* No order of navigation, frames, answers and failures leaves a page with   *)
(* neither data, nor an error, nor a request on its way.                     *)
THEOREM PagesCorrect == Spec => []NeverStuck
<1>1. Init => NeverStuck BY DEF Init, NeverStuck
<1>2. QED BY <1>1, InitType, NextType, NextStuck, PTL DEF Spec

-----------------------------------------------------------------------------
(* The workspace catalog: requests in flight *)

ListFields == {"op", "kind", "id", "served", "crossed", "shown", "launch"}
Listed == {"absent", "new", "edited"}
Ops == {"create", "patch", "delete"}

(* What a list request and a change look like.                               *)
ListShape(l) ==
  /\ DOMAIN l = ListFields /\ l = [f \in ListFields |-> l[f]]
  /\ l.op = "list" /\ l.kind \in Kinds /\ {l.served, l.crossed} \subseteq BOOLEAN
  /\ l.served => /\ l.shown \in [IdsOf(l.kind) -> Listed]
                 /\ l.kind = "projects" => l.launch \in [ProjectIds -> SUBSET ConfigIds]

ChangeShape(r) ==
  /\ r.op \in Ops /\ r.id \in Ids /\ r.served \in BOOLEAN
  /\ DOMAIN r = {"op", "kind", "id", "served"} /\ r.kind = KindOf(r.id)

(* One change at a time, and one copy of it.                                 *)
OneChange == \A r \in Changes : calls[r] = 1 /\ \A s \in Changes : s = r

WorkspaceShape ==
  /\ IsABag(calls) /\ (\A l \in Lists : ListShape(l)) /\ (\A r \in Changes : ChangeShape(r))
  /\ OneChange
  /\ dialog \in [op : Ops, id : Ids] \cup {Null}
  /\ \A p \in ProjectIds : records[p] # "absent"

(* The store's entry of a record, and of a project's configurations, is what *)
(* the backend has.                                                          *)
AgreeAt(i) == shown[i] = normalizeRecord(i)
LaunchAt(p) == Exists(p) => launchIds[p] = {c \in ConfigsOf(p) : Exists(c)}
AgreeBut(kind, rest) ==
  /\ \A i \in IdsOf(kind) \ rest : AgreeAt(i)
  /\ kind = "projects" => \A p \in ProjectIds \ rest : LaunchAt(p)

(* An answer that no change crossed is what the backend has, and no change   *)
(* in flight is about its list.                                              *)
Uncrossed(l) ==
  /\ \A r \in Changes : l.kind \notin Touches(r)
  /\ l.served => /\ \A i \in IdsOf(l.kind) : l.shown[i] = normalizeRecord(i)
                 /\ l.kind = "projects" =>
                      \A p \in ProjectIds : l.launch[p] = {c \in ConfigsOf(p) : Exists(c)}

Quiet(kind) == kind \notin suspect /\ \A l \in Lists : l.kind # kind

(* The entries of a list that the answer of a change rewrites.               *)
Rewritten(r, kind) ==
  IF kind = r.kind THEN {r.id}
  ELSE IF r.kind = "artifacts" THEN {l \in PlacementIds : ArtifactOf[l] = r.id}
  ELSE launchIds[r.id]

(* What the answer of a change that was made still finds: the entries that   *)
(* it does not rewrite agree already, the others are as it expects them.     *)
Prepared(r, kind) ==
  /\ AgreeBut(kind, Rewritten(r, kind))
  /\ r.op = "create" =>
       shown[r.id] = "absent" /\ records[r.id] = "new" /\ r.kind # "projects"
  /\ r.op = "patch" => shown[r.id] \in {"new", "edited"} /\ records[r.id] = "edited"
  /\ r.op = "delete" => \A i \in Rewritten(r, kind) : ~Exists(i)
  /\ kind # r.kind /\ r.kind = "projects" => shown[r.id] # "absent"

(* Which lists the answer must still patch: not the projects when they are   *)
(* loaded again, and not the configurations of a project whose own list is   *)
(* in doubt.                                                                 *)
MustPatch(r, kind) ==
  /\ kind \in Touches(r)
  /\ kind = "projects" => ~ReloadsProjects(r)
  /\ kind # r.kind /\ r.kind = "projects" => Quiet("projects")

ListsKnow == \A l \in Lists : ~l.crossed => Uncrossed(l)
Settled(kind) == (\A r \in Changes : r.served => kind \notin Touches(r)) => AgreeBut(kind, {})
Due(kind) == \A r \in Changes : r.served /\ MustPatch(r, kind) => Prepared(r, kind)
Claims == \A kind \in Kinds : Quiet(kind) => Settled(kind) /\ Due(kind)

-----------------------------------------------------------------------------
(* Kinds and ids *)

LEMMA KindLemma ==
  ASSUME NEW kind \in Kinds, NEW i \in IdsOf(kind)
  PROVE  KindOf(i) = kind /\ i \in Ids
<1>1. \A k \in Kinds : i \in IdsOf(k) => k = kind BY WorkspaceAssumption, SMTT(30) DEF Kinds, IdsOf
<1>2. KindOf(i) = kind BY <1>1 DEF KindOf
<1>3. i \in Ids BY DEF Kinds, IdsOf, Ids
<1>4. QED BY <1>2, <1>3

LEMMA IdsOfKinds ==
  /\ IdsOf("projects") = ProjectIds /\ IdsOf("artifacts") = ArtifactIds
  /\ IdsOf("placements") = PlacementIds /\ IdsOf("launchConfigs") = ConfigIds
BY DEF IdsOf

LEMMA KindOfIds ==
  ASSUME NEW i \in Ids
  PROVE  /\ KindOf(i) \in Kinds /\ i \in IdsOf(KindOf(i))
         /\ i \in ProjectIds <=> KindOf(i) = "projects"
         /\ i \in ArtifactIds <=> KindOf(i) = "artifacts"
         /\ i \in PlacementIds <=> KindOf(i) = "placements"
         /\ i \in ConfigIds <=> KindOf(i) = "launchConfigs"
<1>1. PICK kind \in Kinds : i \in IdsOf(kind) BY DEF Ids, IdsOf, Kinds
<1>2. KindOf(i) = kind BY <1>1, KindLemma
<1>3. \A k \in Kinds : i \in IdsOf(k) => k = kind BY <1>2, KindLemma
<1>4. QED BY <1>1, <1>2, <1>3, IdsOfKinds DEF Kinds

LEMMA NullLemma == Null \notin Ids /\ \A op \in Ops, i \in Ids : Modal(op, i) # Null
BY WorkspaceAssumption DEF Ops, Modal

-----------------------------------------------------------------------------
(* What sending and receiving does to the requests in flight *)

ListsOf(bag) == {r \in BagToSet(bag) : r.op = "list"}
ChangesOf(bag) == {r \in BagToSet(bag) : r.op # "list"}
Once(bag) == \A r \in ChangesOf(bag) : bag[r] = 1 /\ \A s \in ChangesOf(bag) : s = r

LEMMA InBags ==
  /\ Lists = ListsOf(calls) /\ Changes = ChangesOf(calls) /\ OneChange = Once(calls)
  /\ Lists' = ListsOf(calls') /\ Changes' = ChangesOf(calls') /\ OneChange' = Once(calls')
BY DEF Lists, Changes, OneChange, Pending, ListsOf, ChangesOf, Once

LEMMA AddCount ==
  ASSUME NEW B, NEW r, IsABag(B)
  PROVE  /\ \A e \in BagToSet(B) : e # r => (B (+) SetToBag({r}))[e] = B[e]
         /\ r \notin BagToSet(B) => (B (+) SetToBag({r}))[r] = 1
<1> DEFINE C == SetToBag({r})
           f(e) == (IF e \in DOMAIN B THEN B[e] ELSE 0) + (IF e \in DOMAIN C THEN C[e] ELSE 0)
<1>1. B (+) C = [e \in (DOMAIN B) \cup (DOMAIN C) |-> f(e)] BY Zenon DEF (+)
<1>2. DOMAIN C = {r} /\ C[r] = 1 BY DEF SetToBag
<1>3. \A e \in DOMAIN B : B[e] \in Nat BY DEF IsABag
<1> HIDE DEF C
<1>4. \A e \in DOMAIN B : e # r => f(e) = B[e] BY <1>2, <1>3
<1>5. r \notin DOMAIN B => f(r) = 1 BY <1>2
<1> HIDE DEF f
<1>6. \A e \in (DOMAIN B) \cup {r} : (B (+) C)[e] = f(e) BY <1>1, <1>2
<1>7. QED BY <1>4, <1>5, <1>6 DEF BagToSet, C

LEMMA RemoveCount ==
  ASSUME NEW B, NEW r, IsABag(B)
  PROVE  /\ \A e \in BagToSet(B) : e # r => (B (-) SetToBag({r}))[e] = B[e]
         /\ B[r] = 1 => r \notin BagToSet(B (-) SetToBag({r}))
<1> DEFINE C == SetToBag({r})
           D == [e \in DOMAIN B |-> IF e \in DOMAIN C THEN B[e] - C[e] ELSE B[e]]
           E == {d \in DOMAIN D : D[d] > 0}
<1>1. B (-) C = [e \in E |-> D[e]] BY Zenon DEF (-)
<1>2. DOMAIN C = {r} /\ C[r] = 1 BY DEF SetToBag
<1> HIDE DEF C
<1>3. \A e \in DOMAIN B : B[e] \in Nat /\ B[e] > 0 BY DEF IsABag
<1>4. \A e \in DOMAIN B : e # r => D[e] = B[e] BY <1>2
<1>5. B[r] = 1 => r \notin E BY <1>2
<1>6. \A e \in DOMAIN B : e # r => e \in E BY <1>3, <1>4
<1> HIDE DEF D, E
<1>7. QED BY <1>1, <1>4, <1>5, <1>6 DEF BagToSet, C

(* One more list. *)
LEMMA AddList ==
  ASSUME NEW B, IsABag(B), NEW l, l.op = "list", Once(B)
  PROVE  /\ IsABag(Adding({l}, B)) /\ Once(Adding({l}, B))
         /\ ListsOf(Adding({l}, B)) = ListsOf(B) \cup {l}
         /\ ChangesOf(Adding({l}, B)) = ChangesOf(B)
<1> DEFINE C == B (+) SetToBag({l})
<1>1. IsABag(C) /\ BagToSet(C) = BagToSet(B) \cup {l} BY BagAddOne
<1>2. \A e \in BagToSet(B) : e # l => C[e] = B[e] BY AddCount
<1>3. Adding({l}, B) = C BY DEF Adding
<1> HIDE DEF C
<1>4. ListsOf(C) = ListsOf(B) \cup {l} /\ ChangesOf(C) = ChangesOf(B) BY <1>1 DEF ListsOf, ChangesOf
<1>5. Once(C) BY <1>2, <1>4 DEF Once, ChangesOf
<1>6. QED BY <1>1, <1>3, <1>4, <1>5

(* The first change. *)
LEMMA AddChange ==
  ASSUME NEW B, IsABag(B), NEW r, r.op # "list", ChangesOf(B) = {}
  PROVE  /\ IsABag(Adding({r}, B)) /\ Once(Adding({r}, B))
         /\ ListsOf(Adding({r}, B)) = ListsOf(B)
         /\ ChangesOf(Adding({r}, B)) = {r}
<1> DEFINE C == B (+) SetToBag({r})
<1>1. IsABag(C) /\ BagToSet(C) = BagToSet(B) \cup {r} BY BagAddOne
<1>2. r \notin BagToSet(B) BY DEF ChangesOf
<1>3. C[r] = 1 BY <1>2, AddCount
<1>4. Adding({r}, B) = C BY DEF Adding
<1> HIDE DEF C
<1>5. ListsOf(C) = ListsOf(B) /\ ChangesOf(C) = {r} BY <1>1 DEF ListsOf, ChangesOf
<1>6. Once(C) BY <1>3, <1>5 DEF Once
<1>7. QED BY <1>1, <1>4, <1>5, <1>6

(* One copy of a list less. *)
LEMMA RemoveList ==
  ASSUME NEW B, IsABag(B), NEW l, l.op = "list", Once(B)
  PROVE  /\ IsABag(Removing(l, B)) /\ Once(Removing(l, B))
         /\ ListsOf(Removing(l, B)) \subseteq ListsOf(B)
         /\ \A e \in ListsOf(B) : e # l => e \in ListsOf(Removing(l, B))
         /\ ChangesOf(Removing(l, B)) = ChangesOf(B)
<1> DEFINE C == B (-) SetToBag({l})
<1>1. /\ IsABag(C) /\ BagToSet(C) \subseteq BagToSet(B)
      /\ \A e \in BagToSet(B) : e # l => e \in BagToSet(C) BY BagRemoveOne
<1>2. \A e \in BagToSet(B) : e # l => C[e] = B[e] BY RemoveCount
<1>3. Removing(l, B) = C BY DEF Removing
<1> HIDE DEF C
<1>4. ListsOf(C) \subseteq ListsOf(B) /\ \A e \in ListsOf(B) : e # l => e \in ListsOf(C)
  BY <1>1 DEF ListsOf
<1>5. ChangesOf(C) = ChangesOf(B) BY <1>1 DEF ChangesOf
<1>6. Once(C) BY <1>2, <1>5 DEF Once, ChangesOf
<1>7. QED BY <1>1, <1>3, <1>4, <1>5, <1>6

(* The change is over. *)
LEMMA RemoveChange ==
  ASSUME NEW B, IsABag(B), NEW r \in ChangesOf(B), Once(B)
  PROVE  /\ IsABag(Removing(r, B)) /\ Once(Removing(r, B))
         /\ ListsOf(Removing(r, B)) = ListsOf(B)
         /\ ChangesOf(Removing(r, B)) = {}
<1> DEFINE C == B (-) SetToBag({r})
<1>1. /\ IsABag(C) /\ BagToSet(C) \subseteq BagToSet(B)
      /\ \A e \in BagToSet(B) : e # r => e \in BagToSet(C) BY BagRemoveOne
<1>2. B[r] = 1 /\ \A s \in ChangesOf(B) : s = r BY DEF Once
<1>3. r \notin BagToSet(C) BY <1>2, RemoveCount
<1>4. Removing(r, B) = C BY DEF Removing
<1> HIDE DEF C
<1>5. ListsOf(C) = ListsOf(B) BY <1>1 DEF ListsOf, ChangesOf
<1>6. ChangesOf(C) = {} BY <1>1, <1>2, <1>3 DEF ChangesOf
<1>7. QED BY <1>1, <1>4, <1>5, <1>6 DEF Once

(* Sending a change: every list stays, the crossed ones are marked.          *)
LEMMA SendChange ==
  ASSUME NEW r, r.op # "list", IsABag(calls), \A l \in Lists : ListShape(l), Changes = {}
  PROVE  /\ IsABag(Sending(r)) /\ Once(Sending(r))
         /\ ListsOf(Sending(r)) = {Marking(r, l) : l \in Lists}
         /\ ChangesOf(Sending(r)) = {r}
<1> DEFINE D == {Marking(r, l) : l \in Pending}
           unmarked(m) == [m EXCEPT !.crossed = FALSE]
           n(m) == Copies(m) + IF Crosses(r, m) THEN Copies(unmarked(m)) ELSE 0
<1>0. Crossing(r) = [m \in D |-> n(m)] BY Zenon DEF Crossing
<1>1. \A x \in DOMAIN calls : calls[x] \in Nat /\ calls[x] > 0 BY DEF IsABag
<1>2. \A x : Copies(x) \in Nat BY <1>1 DEF Copies, Pending, BagToSet
<1>3. \A x \in Pending : Copies(x) > 0 BY <1>1 DEF Copies, Pending, BagToSet
<1>4. Pending = Lists BY DEF Lists, Changes
<1>5. ASSUME NEW l \in Pending, Crosses(r, l)
      PROVE  LET m == Marking(r, l)
             IN  m.op = "list" /\ m.kind = l.kind /\ (l = m \/ l = unmarked(m))
  <2> DEFINE m == [l EXCEPT !.crossed = TRUE]
             u == [m EXCEPT !.crossed = FALSE]
  <2>1. ListShape(l) BY <1>4
  <2>2. Marking(r, l) = m BY <1>5 DEF Marking
  <2>3. DOMAIN m = ListFields /\ m = [f \in ListFields |-> m[f]] BY <2>1 DEF ListShape
  <2>4. DOMAIN u = ListFields /\ u = [f \in ListFields |-> u[f]] BY <2>1 DEF ListShape
  <2>5. l = [f \in ListFields |-> l[f]] /\ l.crossed \in BOOLEAN BY <2>1 DEF ListShape
  <2>6. m.op = "list" /\ m.kind = l.kind BY <2>1 DEF ListShape
  <2>7. CASE l.crossed
    <3>1. l.crossed = m.crossed BY <2>1, <2>5, <2>7 DEF ListShape, ListFields
    <3>2. \A f \in ListFields : l[f] = m[f] BY <2>1, <3>1 DEF ListShape
    <3>3. l = m BY <2>3, <2>5, <3>2
    <3>4. QED BY <2>2, <2>6, <3>3
  <2>8. CASE ~l.crossed
    <3>1. l.crossed = u.crossed BY <2>1, <2>5, <2>8 DEF ListShape, ListFields
    <3>2. \A f \in ListFields : l[f] = u[f] BY <2>1, <3>1 DEF ListShape
    <3>3. l = u BY <2>4, <2>5, <3>2
    <3>4. QED BY <2>2, <2>6, <3>3
  <2>9. QED BY <2>5, <2>7, <2>8
<1> HIDE DEF unmarked
<1>6. ASSUME NEW m \in D PROVE n(m) \in Nat /\ n(m) > 0
  <2>1. PICK l \in Pending : m = Marking(r, l) OBVIOUS
  <2>2. CASE ~Crosses(r, l)
    <3>1. m = l BY <2>1, <2>2 DEF Marking
    <3>2. n(m) = Copies(m) + 0 BY <2>2, <3>1
    <3>3. QED BY <1>2, <1>3, <3>1, <3>2
  <2>3. CASE Crosses(r, l)
    <3>1. Crosses(r, m) /\ (l = m \/ l = unmarked(m)) BY <1>5, <2>1, <2>3 DEF Crosses
    <3>2. n(m) = Copies(m) + Copies(unmarked(m)) BY <3>1
    <3>3. QED BY <1>2, <1>3, <3>1, <3>2
  <2>4. QED BY <2>2, <2>3
<1>7. \A m \in D : m.op = "list"
  <2>1. \A l \in Pending : Marking(r, l).op = "list" BY <1>4, <1>5 DEF Marking, Lists
  <2>2. QED BY <2>1
<1>8. D = {Marking(r, l) : l \in Lists} BY <1>4
<1> HIDE DEF n, D
<1>9. [m \in D |-> n(m)] \in [D -> {k \in Nat : k > 0}] BY <1>6
<1>10. IsABag(Crossing(r)) /\ BagToSet(Crossing(r)) = D BY <1>0, <1>9 DEF IsABag, BagToSet
<1>11. ListsOf(Crossing(r)) = D /\ ChangesOf(Crossing(r)) = {} BY <1>7, <1>10 DEF ListsOf, ChangesOf
<1>12. QED BY <1>8, <1>10, <1>11, AddChange DEF Sending

-----------------------------------------------------------------------------
(* The requests that are sent *)

LEMMA ListOfShape ==
  ASSUME NEW kind \in Kinds, NEW b \in BOOLEAN
  PROVE  LET l == ListOf(kind, b)
         IN  ListShape(l) /\ l.op = "list" /\ l.kind = kind /\ ~l.served /\ (l.crossed <=> b)
<1> DEFINE l == ListOf(kind, b)
<1>1. DOMAIN l = ListFields /\ l = [f \in ListFields |-> l[f]] BY DEF ListOf, ListFields
<1>2. l.op = "list" /\ l.kind = kind /\ l.crossed = b BY DEF ListOf
<1>3. ~l.served /\ l.served \in BOOLEAN BY DEF ListOf
<1> HIDE DEF l
<1>4. ListShape(l) BY <1>1, <1>2, <1>3 DEF ListShape
<1>5. QED BY <1>2, <1>3, <1>4 DEF l

LEMMA FreshShape ==
  ASSUME NEW kind \in Kinds
  PROVE  LET l == FreshList(kind)
         IN  /\ ListShape(l) /\ l.op = "list" /\ l.kind = kind /\ ~l.served
             /\ ~l.crossed => \A r \in Changes : kind \notin Touches(r)
<1> DEFINE b == \E r \in Changes : kind \in Touches(r)
<1>1. b \in BOOLEAN /\ FreshList(kind) = ListOf(kind, b) BY DEF FreshList
<1> HIDE DEF b
<1>2. /\ ListShape(FreshList(kind)) /\ FreshList(kind).op = "list"
      /\ FreshList(kind).kind = kind /\ ~FreshList(kind).served
      /\ FreshList(kind).crossed <=> b
  BY <1>1, ListOfShape
<1>3. QED BY <1>2 DEF b

LEMMA MarkedShape ==
  ASSUME NEW r, NEW l, ListShape(l)
  PROVE  LET m == Marking(r, l)
         IN  /\ ListShape(m) /\ m.kind = l.kind /\ (m.served <=> l.served)
             /\ m.shown = l.shown /\ m.launch = l.launch
             /\ ~m.crossed => m = l /\ l.kind \notin Touches(r)
<1>1. CASE Crosses(r, l)
  <2> DEFINE m == [l EXCEPT !.crossed = TRUE]
  <2>1. Marking(r, l) = m BY <1>1 DEF Marking
  <2>2. DOMAIN m = ListFields /\ m = [f \in ListFields |-> m[f]] BY DEF ListShape
  <2>3. \A f \in ListFields : f # "crossed" => m[f] = l[f] BY DEF ListShape
  <2>4. m.crossed /\ m.crossed \in BOOLEAN BY DEF ListShape, ListFields
  <2> HIDE DEF m
  <2>5. /\ m.op = l.op /\ m.kind = l.kind /\ m.served = l.served
        /\ m.shown = l.shown /\ m.launch = l.launch BY <2>3 DEF ListFields
  <2>6. ListShape(m) BY <2>2, <2>4, <2>5 DEF ListShape
  <2>7. QED BY <2>1, <2>4, <2>5, <2>6
<1>2. CASE ~Crosses(r, l)
  <2>1. Marking(r, l) = l BY <1>2 DEF Marking
  <2>2. l.kind \notin Touches(r) BY <1>2 DEF Crosses, ListShape
  <2>3. QED BY <2>1, <2>2
<1>3. QED BY <1>1, <1>2

(* The answer of a list request. *)
Answer(r) ==
  [r EXCEPT !.served = TRUE,
            !.shown = [i \in IdsOf(r.kind) |-> normalizeRecord(i)],
            !.launch = IF r.kind = "projects"
                       THEN [p \in ProjectIds |-> {c \in ConfigsOf(p) : Exists(c)}] ELSE <<>>]

LEMMA AnswerShape ==
  ASSUME NEW r, ListShape(r), WorkspaceTypeOK
  PROVE  LET s == Answer(r)
         IN  /\ ListShape(s) /\ s.op = "list" /\ s.kind = r.kind /\ s.served
             /\ s.crossed <=> r.crossed
             /\ \A i \in IdsOf(r.kind) : s.shown[i] = normalizeRecord(i)
             /\ r.kind = "projects" =>
                  \A p \in ProjectIds : s.launch[p] = {c \in ConfigsOf(p) : Exists(c)}
<1> DEFINE s == Answer(r)
           shw == [i \in IdsOf(r.kind) |-> normalizeRecord(i)]
           lch == IF r.kind = "projects"
                  THEN [p \in ProjectIds |-> {c \in ConfigsOf(p) : Exists(c)}] ELSE <<>>
<1>1. s = [r EXCEPT !.served = TRUE, !.shown = shw, !.launch = lch] BY DEF Answer
<1>2. r.kind \in Kinds BY DEF ListShape
<1>3. IdsOf(r.kind) \subseteq Ids BY <1>2, KindLemma
<1>4. shw \in [IdsOf(r.kind) -> Listed]
  BY <1>3 DEF normalizeRecord, Exists, Gone, Listed, WorkspaceTypeOK
<1>5. r.kind = "projects" => lch \in [ProjectIds -> SUBSET ConfigIds] BY DEF ConfigsOf
<1>6. \A i \in IdsOf(r.kind) : shw[i] = normalizeRecord(i) OBVIOUS
<1>7. r.kind = "projects" => \A p \in ProjectIds : lch[p] = {c \in ConfigsOf(p) : Exists(c)} OBVIOUS
<1> HIDE DEF shw, lch, s
<1>8. DOMAIN s = ListFields /\ s = [f \in ListFields |-> s[f]] BY <1>1 DEF ListShape
<1>9. /\ s.op = r.op /\ s.kind = r.kind /\ s.crossed = r.crossed
      /\ s.served = TRUE /\ s.shown = shw /\ s.launch = lch
  BY <1>1 DEF ListShape, ListFields
<1>10. s.served /\ s.served \in BOOLEAN BY <1>9
<1>11. ListShape(s) BY <1>4, <1>5, <1>8, <1>9, <1>10 DEF ListShape
<1>12. s.op = "list" BY <1>9 DEF ListShape
<1>13. QED BY <1>6, <1>7, <1>9, <1>10, <1>11, <1>12 DEF s

LEMMA ChangeOfShape ==
  ASSUME NEW op \in Ops, NEW i \in Ids
  PROVE  LET r == ChangeOf(op, i)
         IN  /\ ChangeShape(r) /\ ~r.served /\ r.op = op /\ r.op # "list"
             /\ r.id = i /\ r.kind = KindOf(i)
BY DEF ChangeOf, ChangeShape, Ops

LEMMA MadeShape ==
  ASSUME NEW r, ChangeShape(r)
  PROVE  LET s == [r EXCEPT !.served = TRUE]
         IN  /\ ChangeShape(s) /\ s.served /\ s.op = r.op /\ s.op # "list"
             /\ s.id = r.id /\ s.kind = r.kind
<1> DEFINE s == [r EXCEPT !.served = TRUE]
<1>1. DOMAIN s = {"op", "kind", "id", "served"} BY DEF ChangeShape
<1>2. s.op = r.op /\ s.id = r.id /\ s.kind = r.kind /\ s.served = TRUE BY DEF ChangeShape
<1>3. s.served /\ s.served \in BOOLEAN BY <1>2
<1> HIDE DEF s
<1>4. s.op # "list" BY <1>2 DEF ChangeShape, Ops
<1>5. ChangeShape(s) BY <1>1, <1>2, <1>3 DEF ChangeShape
<1>6. QED BY <1>2, <1>3, <1>4, <1>5 DEF s

(* The lists that a change patches. *)
LEMMA TouchesLemma ==
  ASSUME NEW r, ChangeShape(r)
  PROVE  /\ r.op \in Ops /\ r.op # "list" /\ r.id \in Ids /\ r.served \in BOOLEAN
         /\ r.kind = KindOf(r.id) /\ r.kind \in Kinds /\ r.id \in IdsOf(r.kind)
         /\ r.kind \in Touches(r) /\ Touches(r) \subseteq Kinds
         /\ \A kind \in Touches(r) : kind # r.kind =>
              \/ r.kind = "projects" /\ r.op = "delete" /\ kind = "launchConfigs"
              \/ r.kind = "launchConfigs" /\ r.op # "patch" /\ kind = "projects"
              \/ r.kind = "artifacts" /\ r.op = "delete" /\ kind = "placements"
         /\ r.kind = "projects" /\ r.op = "delete" => "launchConfigs" \in Touches(r)
         /\ r.kind = "launchConfigs" /\ r.op # "patch" => "projects" \in Touches(r)
         /\ r.kind = "artifacts" /\ r.op = "delete" => "placements" \in Touches(r)
<1>1. r.kind = KindOf(r.id) /\ r.op \in Ops /\ r.op # "list" /\ r.id \in Ids /\ r.served \in BOOLEAN
  BY DEF ChangeShape, Ops
<1>2. r.kind \in Kinds /\ r.id \in IdsOf(r.kind) BY <1>1, KindOfIds
<1>3. Touches(r) = IF r.kind = "projects" /\ r.op = "delete" THEN {"projects", "launchConfigs"}
                   ELSE IF r.kind = "launchConfigs" /\ r.op # "patch" THEN {"projects", "launchConfigs"}
                   ELSE IF r.kind = "artifacts" /\ r.op = "delete" THEN {"artifacts", "placements"}
                   ELSE {r.kind}
  BY DEF Touches
<1>4. QED BY <1>1, <1>2, <1>3 DEF Kinds

-----------------------------------------------------------------------------
(* What each action does to the requests in flight *)

CatalogTyped == WorkspaceTypeOK /\ WorkspaceShape

LEMMA Unpacked ==
  ASSUME CatalogTyped
  PROVE  /\ IsABag(calls) /\ Once(calls) /\ OneChange
         /\ \A l \in Lists : ListShape(l) /\ l.op = "list" /\ l.kind \in Kinds /\ l \in Pending
         /\ \A r \in Changes : ChangeShape(r) /\ r.op # "list" /\ r \in Pending
         /\ \A r \in Pending : r.op = "list" => r \in Lists
         /\ \A r \in Pending : r.op # "list" => r \in Changes
BY InBags DEF CatalogTyped, WorkspaceShape, ListShape, Lists, Changes

Sound(bag) == IsABag(bag) /\ Once(bag)

LEMMA LoadWorkspaceFlight ==
  ASSUME CatalogTyped, loadWorkspace
  PROVE  Sound(calls') /\ Lists' = {FreshList(kind) : kind \in Kinds} /\ Changes' = {} /\ Lists = {}
<1> DEFINE S == {FreshList(kind) : kind \in Kinds}
<1>1. calls' = SetToBag(S) /\ calls = EmptyBag BY DEF loadWorkspace
<1>2. \A l \in S : l.op = "list" BY FreshShape
<1> HIDE DEF S
<1>3. IsABag(calls') /\ BagToSet(calls') = S BY <1>1, SetToBagFact
<1>4. ListsOf(calls') = S /\ ChangesOf(calls') = {} BY <1>2, <1>3 DEF ListsOf, ChangesOf
<1>5. Lists = {} BY <1>1, EmptyBagFact DEF Lists, Pending
<1>6. QED BY <1>3, <1>4, <1>5, InBags DEF Sound, Once, S

LEMMA LoadFlight ==
  ASSUME CatalogTyped, NEW kind \in Kinds, load(kind)
  PROVE  Sound(calls') /\ Lists' = Lists \cup {FreshList(kind)} /\ Changes' = Changes
<1>1. calls' = Adding({FreshList(kind)}, calls) BY DEF load
<1>2. FreshList(kind).op = "list" BY FreshShape
<1>3. QED BY <1>1, <1>2, AddList, Unpacked, InBags DEF Sound

LEMMA ServeListFlight ==
  ASSUME CatalogTyped, NEW r \in Pending, ServeList(r)
  PROVE  /\ Sound(calls') /\ r \in Lists /\ Changes' = Changes
         /\ Lists' \subseteq Lists \cup {Answer(r)} /\ Answer(r) \in Lists'
         /\ \A e \in Lists : e # r => e \in Lists'
<1>1. r.op = "list" /\ r \in Lists BY Unpacked DEF ServeList
<1>2. calls' = Adding({Answer(r)}, Removing(r, calls)) BY Zenon DEF ServeList, Replace, Answer
<1>3. Answer(r).op = "list" BY <1>1, Unpacked, AnswerShape DEF CatalogTyped
<1> DEFINE B == Removing(r, calls)
<1>4. /\ IsABag(B) /\ Once(B) /\ ListsOf(B) \subseteq ListsOf(calls)
      /\ \A e \in ListsOf(calls) : e # r => e \in ListsOf(B)
      /\ ChangesOf(B) = ChangesOf(calls)
  BY <1>1, RemoveList, Unpacked
<1> HIDE DEF B
<1>5. /\ IsABag(Adding({Answer(r)}, B)) /\ Once(Adding({Answer(r)}, B))
      /\ ListsOf(Adding({Answer(r)}, B)) = ListsOf(B) \cup {Answer(r)}
      /\ ChangesOf(Adding({Answer(r)}, B)) = ChangesOf(B)
  BY <1>3, <1>4, AddList
<1>6. calls' = Adding({Answer(r)}, B) BY <1>2 DEF B
<1>7. QED BY <1>1, <1>4, <1>5, <1>6, InBags DEF Sound

LEMMA ListEndsFlight ==
  ASSUME CatalogTyped, NEW r \in Pending, ListArrives(r) \/ ListFails(r)
  PROVE  /\ Sound(calls') /\ r \in Lists /\ Changes' = Changes
         /\ Lists' \subseteq Lists /\ \A e \in Lists : e # r => e \in Lists'
<1>1. r.op = "list" /\ calls' = Removing(r, calls) BY DEF ListArrives, ListFails
<1>2. r \in Lists BY <1>1, Unpacked
<1>3. QED BY <1>1, <1>2, RemoveList, Unpacked, InBags DEF Sound

LEMMA SubmitFlight ==
  ASSUME CatalogTyped, dialog # Null, Submit
  PROVE  LET c == ChangeOf(dialog.op, dialog.id)
         IN  /\ Sound(calls') /\ Changes' = {c} /\ Changes = {}
             /\ Lists' = {Marking(c, l) : l \in Lists}
             /\ ChangeShape(c) /\ ~c.served /\ dialog.op \in Ops /\ dialog.id \in Ids
             /\ c.op = dialog.op /\ c.kind = KindOf(dialog.id)
<1> DEFINE c == ChangeOf(dialog.op, dialog.id)
<1>1. dialog \in [op : Ops, id : Ids] BY DEF CatalogTyped, WorkspaceShape
<1>2. dialog.op \in Ops /\ dialog.id \in Ids BY <1>1
<1>3. /\ ChangeShape(c) /\ ~c.served /\ c.op = dialog.op /\ c.op # "list"
      /\ c.kind = KindOf(dialog.id)
  BY <1>2, ChangeOfShape
<1>4. calls' = Sending(c) /\ Changes = {} BY DEF Submit
<1> HIDE DEF c
<1>5. \A l \in Lists : ListShape(l) BY Unpacked
<1>6. /\ IsABag(Sending(c)) /\ Once(Sending(c))
      /\ ListsOf(Sending(c)) = {Marking(c, l) : l \in Lists}
      /\ ChangesOf(Sending(c)) = {c}
  BY <1>3, <1>4, <1>5, SendChange, Unpacked
<1>7. QED BY <1>2, <1>3, <1>4, <1>6, InBags DEF Sound, c

LEMMA ServeChangeFlight ==
  ASSUME CatalogTyped, NEW r \in Pending, ServeChange(r)
  PROVE  LET s == [r EXCEPT !.served = TRUE]
         IN  Sound(calls') /\ r \in Changes /\ Changes = {r} /\ Changes' = {s} /\ Lists' = Lists
<1> DEFINE s == [r EXCEPT !.served = TRUE]
           B == Removing(r, calls)
<1>1. r.op # "list" /\ r \in Changes BY Unpacked DEF ServeChange
<1>2. calls' = Adding({s}, B) BY Zenon DEF ServeChange, Replace
<1>3. s.op # "list" BY <1>1, Unpacked, MadeShape
<1>4. r \in ChangesOf(calls) BY <1>1, InBags
<1>5. IsABag(B) /\ ListsOf(B) = ListsOf(calls) /\ ChangesOf(B) = {}
  BY <1>4, RemoveChange, Unpacked
<1> HIDE DEF B, s
<1>6. /\ IsABag(Adding({s}, B)) /\ Once(Adding({s}, B))
      /\ ListsOf(Adding({s}, B)) = ListsOf(B) /\ ChangesOf(Adding({s}, B)) = {s}
  BY <1>3, <1>5, AddChange
<1>7. Changes = {r} BY <1>1, Unpacked DEF OneChange
<1>8. QED BY <1>1, <1>2, <1>5, <1>6, <1>7, InBags DEF Sound, s

LEMMA ChangeArrivesFlight ==
  ASSUME CatalogTyped, NEW r \in Pending, ChangeArrives(r)
  PROVE  /\ Sound(calls') /\ r \in Changes /\ Changes = {r} /\ Changes' = {}
         /\ ReloadsProjects(r) => Lists' = Lists \cup {ListOf("projects", FALSE)}
         /\ ~ReloadsProjects(r) => Lists' = Lists
<1> DEFINE l == ListOf("projects", FALSE)
           B == Removing(r, calls)
<1>1. r.op # "list" /\ r \in Changes BY Unpacked DEF ChangeArrives
<1>2. r \in ChangesOf(calls) BY <1>1, InBags
<1>3. Sound(B) /\ ListsOf(B) = ListsOf(calls) /\ ChangesOf(B) = {}
  BY <1>2, RemoveChange, Unpacked DEF Sound
<1>4. Changes = {r} BY <1>1, Unpacked DEF OneChange
<1>5. l.op = "list" BY DEF ListOf
<1>6. CASE ReloadsProjects(r)
  <2>1. calls' = Adding({l}, B) BY <1>6 DEF ChangeArrives, Replace
  <2> HIDE DEF B, l
  <2>2. /\ Sound(Adding({l}, B)) /\ ListsOf(Adding({l}, B)) = ListsOf(B) \cup {l}
        /\ ChangesOf(Adding({l}, B)) = ChangesOf(B) BY <1>3, <1>5, AddList DEF Sound
  <2>3. QED BY <1>1, <1>3, <1>4, <1>6, <2>1, <2>2, InBags DEF l
<1>7. CASE ~ReloadsProjects(r)
  <2>1. calls' = B BY <1>7 DEF ChangeArrives
  <2> HIDE DEF B
  <2>2. QED BY <1>1, <1>3, <1>4, <1>7, <2>1, InBags
<1>8. QED BY <1>6, <1>7

LEMMA ChangeFailsFlight ==
  ASSUME CatalogTyped, NEW r \in Pending, ChangeFails(r)
  PROVE  Sound(calls') /\ r \in Changes /\ Changes = {r} /\ Changes' = {} /\ Lists' = Lists
<1>1. r.op # "list" /\ r \in Changes /\ calls' = Removing(r, calls)
  BY Unpacked DEF ChangeFails
<1>2. r \in ChangesOf(calls) BY <1>1, InBags
<1>3. Changes = {r} BY <1>1, Unpacked DEF OneChange
<1>4. QED BY <1>1, <1>2, <1>3, RemoveChange, Unpacked, InBags DEF Sound

-----------------------------------------------------------------------------
(* Types and shapes are preserved *)

LEMMA RestsAlone ==
  ASSUME calls' = calls
  PROVE  Lists' = Lists /\ Changes' = Changes /\ OneChange' = OneChange /\ Pending' = Pending
BY DEF Lists, Changes, OneChange, Pending

(* From what an action did to the requests, the shape of all of them.        *)
LEMMA ShapeKept ==
  ASSUME WorkspaceTypeOK', Sound(calls'), \A l \in Lists' : ListShape(l),
         \A r \in Changes' : ChangeShape(r),
         dialog' \in [op : Ops, id : Ids] \cup {Null},
         \A p \in ProjectIds : records'[p] # "absent"
  PROVE  CatalogTyped'
BY InBags DEF CatalogTyped, WorkspaceShape, Sound

LEMMA DialogTyped ==
  ASSUME CatalogTyped
  PROVE  /\ dialog \in [op : Ops, id : Ids] \cup {Null}
         /\ dialog # Null => dialog.op \in Ops /\ dialog.id \in Ids
         /\ \A p \in ProjectIds : records[p] # "absent"
BY DEF CatalogTyped, WorkspaceShape

LEMMA InitTyped == WorkspaceInit => CatalogTyped
<1> SUFFICES ASSUME WorkspaceInit PROVE CatalogTyped OBVIOUS
<1>1. WorkspaceTypeOK BY Zenon DEF WorkspaceInit, WorkspaceTypeOK, Gone
<1>2. Pending = {} /\ IsABag(calls) BY EmptyBagFact DEF WorkspaceInit, Pending
<1>3. \A p \in ProjectIds : records[p] # "absent"
  <2>1. PICK old \in SUBSET (PlacementIds \cup ConfigIds) :
          records = [i \in Ids |-> IF i \in ProjectIds \cup ArtifactIds \cup old THEN "new" ELSE "absent"]
    BY DEF WorkspaceInit
  <2>2. QED BY <2>1 DEF Ids
<1>4. QED BY <1>1, <1>2, <1>3 DEF CatalogTyped, WorkspaceShape, Lists, Changes, OneChange, WorkspaceInit

LEMMA LoadsTyped ==
  ASSUME CatalogTyped, loadWorkspace \/ \E kind \in Kinds : load(kind)
  PROVE  CatalogTyped'
<1>1. ASSUME loadWorkspace PROVE CatalogTyped'
  <2>1. WorkspaceTypeOK'
    BY <1>1 DEF loadWorkspace, StartLoads, CatalogTyped, WorkspaceTypeOK, forms
  <2>2. \A l \in Lists' : ListShape(l) BY <1>1, LoadWorkspaceFlight, FreshShape
  <2>3. UNCHANGED <<dialog, records>> BY <1>1 DEF loadWorkspace, forms
  <2>4. QED BY <1>1, <2>1, <2>2, <2>3, LoadWorkspaceFlight, ShapeKept, DialogTyped
<1>2. ASSUME NEW kind \in Kinds, load(kind) PROVE CatalogTyped'
  <2>1. WorkspaceTypeOK'
    BY <1>2 DEF load, StartLoads, CatalogTyped, WorkspaceTypeOK, forms
  <2>2. \A l \in Lists' : ListShape(l) BY <1>2, LoadFlight, FreshShape, Unpacked
  <2>3. UNCHANGED <<dialog, records>> BY <1>2 DEF load, forms
  <2>4. QED BY <1>2, <2>1, <2>2, <2>3, LoadFlight, ShapeKept, DialogTyped, Unpacked
<1>3. QED BY <1>1, <1>2

LEMMA ServeListTyped ==
  ASSUME CatalogTyped, NEW r \in Pending, ServeList(r)
  PROVE  CatalogTyped'
<1>1. WorkspaceTypeOK' BY DEF ServeList, CatalogTyped, WorkspaceTypeOK, forms, store
<1>2. \A l \in Lists' : ListShape(l) BY ServeListFlight, AnswerShape, Unpacked DEF CatalogTyped
<1>3. UNCHANGED <<dialog, records>> BY DEF ServeList, forms
<1>4. QED BY <1>1, <1>2, <1>3, ServeListFlight, ShapeKept, DialogTyped, Unpacked

LEMMA ListArrivesTyped ==
  ASSUME CatalogTyped, NEW r \in Pending, ListArrives(r)
  PROVE  CatalogTyped'
<1>1. ListShape(r) /\ r.served BY ListEndsFlight, Unpacked DEF ListArrives
<1>2. shown' \in [Ids -> {"absent", "new", "edited", "twice"}]
  <2>1. \A i \in IdsOf(r.kind) : r.shown[i] \in Listed BY <1>1 DEF ListShape
  <2>2. shown \in [Ids -> {"absent", "new", "edited", "twice"}] BY DEF CatalogTyped, WorkspaceTypeOK
  <2>3. shown' = [i \in Ids |-> IF i \in IdsOf(r.kind) THEN r.shown[i] ELSE shown[i]] BY DEF ListArrives
  <2>4. QED BY <2>1, <2>2, <2>3 DEF Listed
<1>3. launchIds' \in [ProjectIds -> SUBSET ConfigIds]
  BY <1>1 DEF ListArrives, ListShape, CatalogTyped, WorkspaceTypeOK
<1>4. saving' \in BOOLEAN BY Zenon DEF ListArrives, CatalogTyped, WorkspaceTypeOK
<1>5. {loading', suspect'} \subseteq SUBSET Kinds
  BY <1>1 DEF ListArrives, ListShape, CatalogTyped, WorkspaceTypeOK
<1>6. UNCHANGED <<dialog, records, failed, editTarget>> BY DEF ListArrives
<1>7. WorkspaceTypeOK'
  BY <1>2, <1>3, <1>4, <1>5, <1>6 DEF CatalogTyped, WorkspaceTypeOK
<1>8. \A l \in Lists' : ListShape(l) BY ListEndsFlight, Unpacked
<1>9. QED BY <1>6, <1>7, <1>8, ListEndsFlight, ShapeKept, DialogTyped, Unpacked

LEMMA ListFailsTyped ==
  ASSUME CatalogTyped, NEW r \in Pending, ListFails(r)
  PROVE  CatalogTyped'
<1>1. r.kind \in Kinds BY ListEndsFlight, Unpacked
<1>2. WorkspaceTypeOK' BY <1>1 DEF ListFails, CatalogTyped, WorkspaceTypeOK, forms
<1>3. \A l \in Lists' : ListShape(l) BY ListEndsFlight, Unpacked
<1>4. UNCHANGED <<dialog, records>> BY DEF ListFails, forms
<1>5. QED BY <1>2, <1>3, <1>4, ListEndsFlight, ShapeKept, DialogTyped, Unpacked

(* The steps of the pages that send nothing. *)
Pages ==
  \/ \E op \in Ops, i \in Ids : OpenDialog(op, i)
  \/ \E p \in ProjectIds : AddConfigOfProject(p)
  \/ LeaveProject \/ CloseDialog

LEMMA PagesKeep ==
  ASSUME Pages
  PROVE  /\ UNCHANGED <<records, calls, shown, launchIds, loading, failed, faults, submitted, suspect>>
         /\ Lists' = Lists /\ Changes' = Changes /\ OneChange' = OneChange
<1>1. UNCHANGED <<records, calls, store, faults, submitted, suspect>>
  BY DEF Pages, OpenDialog, AddConfigOfProject, LeaveProject, CloseDialog
<1>2. QED BY <1>1, RestsAlone DEF store

LEMMA PagesTyped ==
  ASSUME CatalogTyped, Pages
  PROVE  CatalogTyped'
<1>1. /\ dialog' \in [op : Ops, id : Ids] \cup {Null}
      /\ editTarget' \in ConfigIds \cup {Null} /\ saving' \in BOOLEAN
  <2>1. /\ dialog \in [op : Ops, id : Ids] \cup {Null} /\ editTarget \in ConfigIds \cup {Null}
        /\ saving \in BOOLEAN
    BY DEF CatalogTyped, WorkspaceShape, WorkspaceTypeOK
  <2>2. ASSUME NEW op \in Ops, NEW i \in Ids, OpenDialog(op, i)
        PROVE  /\ dialog' \in [op : Ops, id : Ids] \cup {Null}
               /\ editTarget' \in ConfigIds \cup {Null} /\ saving' \in BOOLEAN
    <3>1. dialog' = Modal(op, i) BY <2>2 DEF OpenDialog
    <3>2. saving' \in BOOLEAN BY <2>2, Zenon DEF OpenDialog
    <3>3. editTarget' \in ConfigIds \cup {Null} BY <2>1, <2>2 DEF OpenDialog
    <3>4. QED BY <3>1, <3>2, <3>3 DEF Modal
  <2>3. ASSUME NEW p \in ProjectIds, AddConfigOfProject(p)
        PROVE  /\ dialog' \in [op : Ops, id : Ids] \cup {Null}
               /\ editTarget' \in ConfigIds \cup {Null} /\ saving' \in BOOLEAN
    <3>1. saving' = FALSE /\ editTarget' = editTarget BY <2>3 DEF AddConfigOfProject
    <3>2. \E op \in Ops, c \in ConfigIds : dialog' = Modal(op, c)
      BY <2>1, <2>3 DEF AddConfigOfProject, ConfigsOf, Ops
    <3>3. dialog' \in [op : Ops, id : Ids] BY <3>2 DEF Modal, Ids
    <3>4. saving' \in BOOLEAN BY <3>1
    <3>5. QED BY <2>1, <3>1, <3>3, <3>4
  <2>4. CASE LeaveProject BY <2>1, <2>4 DEF LeaveProject
  <2>5. ASSUME CloseDialog
        PROVE  /\ dialog' \in [op : Ops, id : Ids] \cup {Null}
               /\ editTarget' \in ConfigIds \cup {Null} /\ saving' \in BOOLEAN
    <3>1. saving' \in BOOLEAN BY <2>5, Zenon DEF CloseDialog
    <3>2. QED BY <2>1, <2>5, <3>1 DEF CloseDialog
  <2>6. QED BY <2>2, <2>3, <2>4, <2>5 DEF Pages
<1>2. WorkspaceTypeOK' BY <1>1, PagesKeep DEF CatalogTyped, WorkspaceTypeOK
<1>3. calls' = calls /\ records' = records BY PagesKeep
<1>4. Sound(calls') BY <1>3, Unpacked DEF Sound
<1>5. QED BY <1>1, <1>2, <1>3, <1>4, PagesKeep, ShapeKept, DialogTyped, Unpacked

LEMMA SubmitTyped ==
  ASSUME CatalogTyped, dialog # Null, Submit
  PROVE  CatalogTyped'
<1> DEFINE c == ChangeOf(dialog.op, dialog.id)
<1>1. /\ Sound(calls') /\ Changes' = {c} /\ Lists' = {Marking(c, l) : l \in Lists} /\ ChangeShape(c)
  BY SubmitFlight
<1> HIDE DEF c
<1>2. saving' \in BOOLEAN BY DEF Submit
<1>3. UNCHANGED <<records, store, dialog, editTarget, suspect>> BY DEF Submit
<1>4. WorkspaceTypeOK' BY <1>2, <1>3 DEF CatalogTyped, WorkspaceTypeOK, store
<1>5. \A l \in Lists' : ListShape(l) BY <1>1, MarkedShape, Unpacked
<1>6. QED BY <1>1, <1>3, <1>4, <1>5, ShapeKept, DialogTyped

(* What the backend does to a record. *)
LEMMA AppliedLemma ==
  ASSUME NEW r, ChangeShape(r), records' = Applied(r), CatalogTyped
  PROVE  /\ r.op = "create" => records' = [records EXCEPT ![r.id] = "new"]
         /\ r.op = "patch" => records' = [records EXCEPT ![r.id] = "edited"]
         /\ r.op = "delete" =>
              records' = [i \in Ids |->
                IF i = r.id \/ (r.id \in ProjectIds /\ i \in ConfigsOf(r.id) /\ Exists(i))
                THEN "deleted" ELSE records[i]]
         /\ records' \in [Ids -> Gone \cup {"new", "edited"}]
         /\ \A p \in ProjectIds : records'[p] # "absent"
<1>1. records \in [Ids -> Gone \cup {"new", "edited"}] /\ \A p \in ProjectIds : records[p] # "absent"
  BY DialogTyped DEF CatalogTyped, WorkspaceTypeOK
<1>2. r.op \in {"create", "patch", "delete"} /\ r.id \in Ids BY DEF ChangeShape, Ops
<1>3. CASE r.op = "create"
  <2>1. records' = [records EXCEPT ![r.id] = "new"] BY <1>3 DEF Applied
  <2>2. QED BY <1>1, <1>3, <2>1 DEF Ids
<1>4. CASE r.op = "patch"
  <2>1. records' = [records EXCEPT ![r.id] = "edited"] BY <1>4 DEF Applied
  <2>2. QED BY <1>1, <1>4, <2>1 DEF Ids
<1>5. CASE r.op = "delete"
  <2>1. records' = [i \in Ids |->
                      IF i = r.id \/ (r.id \in ProjectIds /\ i \in ConfigsOf(r.id) /\ Exists(i))
                      THEN "deleted" ELSE records[i]]
    BY <1>5, Zenon DEF Applied
  <2>2. \A i \in Ids : records'[i] = "deleted" \/ records'[i] = records[i] BY <2>1
  <2>3. records' = [i \in Ids |-> records'[i]] BY <2>1
  <2>4. records' \in [Ids -> Gone \cup {"new", "edited"}] BY <1>1, <2>2, <2>3 DEF Gone
  <2>5. QED BY <1>1, <1>5, <2>1, <2>2, <2>4 DEF Ids
<1>6. QED BY <1>2, <1>3, <1>4, <1>5

LEMMA ServeChangeTyped ==
  ASSUME CatalogTyped, NEW r \in Pending, ServeChange(r)
  PROVE  CatalogTyped'
<1> DEFINE s == [r EXCEPT !.served = TRUE]
<1>1. Sound(calls') /\ r \in Changes /\ Changes' = {s} /\ Lists' = Lists BY ServeChangeFlight
<1>2. ChangeShape(r) BY <1>1, Unpacked
<1>3. ChangeShape(s) BY <1>2, MadeShape
<1> HIDE DEF s
<1>4. /\ records' \in [Ids -> Gone \cup {"new", "edited"}]
      /\ \A p \in ProjectIds : records'[p] # "absent"
  BY <1>2, AppliedLemma DEF ServeChange
<1>5. UNCHANGED <<store, forms, suspect>> BY DEF ServeChange
<1>6. WorkspaceTypeOK' BY <1>4, <1>5 DEF CatalogTyped, WorkspaceTypeOK, store, forms
<1>7. dialog' = dialog BY <1>5 DEF forms
<1>8. QED BY <1>1, <1>3, <1>4, <1>6, <1>7, ShapeKept, DialogTyped, Unpacked

LEMMA PatchTyped ==
  ASSUME CatalogTyped, NEW r, ChangeShape(r), PatchLists(r)
  PROVE  /\ shown' \in [Ids -> {"absent", "new", "edited", "twice"}]
         /\ launchIds' \in [ProjectIds -> SUBSET ConfigIds]
<1> DEFINE T == /\ shown' \in [Ids -> {"absent", "new", "edited", "twice"}]
                /\ launchIds' \in [ProjectIds -> SUBSET ConfigIds]
<1>1. /\ shown \in [Ids -> {"absent", "new", "edited", "twice"}]
      /\ launchIds \in [ProjectIds -> SUBSET ConfigIds]
  BY DEF CatalogTyped, WorkspaceTypeOK
<1>2. r.id \in Ids BY DEF ChangeShape
<1>3. CASE createRecord(r.id) BY <1>1, <1>2, <1>3 DEF createRecord
<1>4. CASE patchRecord(r.id)
  <2>1. shown' \in [Ids -> {"absent", "new", "edited", "twice"}]
    BY <1>1, <1>2, <1>4 DEF patchRecord
  <2>2. {c \in ConfigsOf(r.id) : Exists(c)} \subseteq ConfigIds BY DEF ConfigsOf
  <2>3. launchIds' \in [ProjectIds -> SUBSET ConfigIds] BY <1>1, <1>4, <2>2 DEF patchRecord
  <2>4. QED BY <2>1, <2>3
<1>5. CASE r.id \in ProjectIds /\ deleteProject(r.id)
  <2> DEFINE cascade == IF shown[r.id] = "absent" THEN ConfigIds ELSE ConfigIds \ launchIds[r.id]
  <2>1. /\ shown' = [i \in Ids |-> IF i = r.id \/ i \in ConfigIds \ cascade THEN "absent" ELSE shown[i]]
        /\ launchIds' = [launchIds EXCEPT ![r.id] = {}]
    BY <1>5, Zenon DEF deleteProject
  <2> HIDE DEF cascade
  <2>2. QED BY <1>1, <2>1
<1>6. CASE deleteArtifact(r.id) BY <1>1, <1>6 DEF deleteArtifact
<1>7. CASE deletePlacement(r.id) BY <1>1, <1>2, <1>7 DEF deletePlacement
<1>8. CASE deleteLaunchConfig(r.id) BY <1>1, <1>2, <1>8 DEF deleteLaunchConfig
<1>9. QED BY <1>3, <1>4, <1>5, <1>6, <1>7, <1>8 DEF PatchLists

LEMMA ChangeArrivesTyped ==
  ASSUME CatalogTyped, NEW r \in Pending, ChangeArrives(r)
  PROVE  CatalogTyped'
<1>1. /\ Sound(calls') /\ r \in Changes /\ Changes' = {}
      /\ Lists' \subseteq Lists \cup {ListOf("projects", FALSE)}
  BY ChangeArrivesFlight
<1>2. ChangeShape(r) BY <1>1, Unpacked
<1>3. /\ shown' \in [Ids -> {"absent", "new", "edited", "twice"}]
      /\ launchIds' \in [ProjectIds -> SUBSET ConfigIds]
  BY <1>2, PatchTyped DEF ChangeArrives
<1>4. ListShape(ListOf("projects", FALSE)) BY ListOfShape DEF Kinds
<1>5. \A l \in Lists' : ListShape(l) BY <1>1, <1>4, Unpacked
<1>6. {loading', failed'} \subseteq SUBSET Kinds
  BY DEF ChangeArrives, StartLoads, CatalogTyped, WorkspaceTypeOK, Kinds
<1>7. suspect' \subseteq Kinds BY DEF ChangeArrives, CatalogTyped, WorkspaceTypeOK, Kinds
<1>8. saving' \in BOOLEAN BY Zenon DEF ChangeArrives
<1>9. editTarget' \in ConfigIds \cup {Null} BY DEF ChangeArrives, CatalogTyped, WorkspaceTypeOK
<1>10. records' = records /\ (dialog' = dialog \/ dialog' = Null) BY DEF ChangeArrives
<1>11. WorkspaceTypeOK'
  BY <1>3, <1>6, <1>7, <1>8, <1>9, <1>10 DEF CatalogTyped, WorkspaceTypeOK
<1>12. QED BY <1>1, <1>5, <1>10, <1>11, ShapeKept, DialogTyped

LEMMA ChangeFailsTyped ==
  ASSUME CatalogTyped, NEW r \in Pending, ChangeFails(r)
  PROVE  CatalogTyped'
<1>1. Sound(calls') /\ r \in Changes /\ Changes' = {} /\ Lists' = Lists BY ChangeFailsFlight
<1>2. Touches(r) \subseteq Kinds BY <1>1, Unpacked, TouchesLemma
<1>3. suspect' \subseteq Kinds BY <1>2 DEF ChangeFails, CatalogTyped, WorkspaceTypeOK
<1>4. saving' \in BOOLEAN BY Zenon DEF ChangeFails
<1>5. UNCHANGED <<records, store, dialog, editTarget>> BY DEF ChangeFails
<1>6. WorkspaceTypeOK' BY <1>3, <1>4, <1>5 DEF CatalogTyped, WorkspaceTypeOK, store
<1>7. QED BY <1>1, <1>5, <1>6, ShapeKept, DialogTyped, Unpacked

LEMMA WorkspaceCases ==
  ASSUME WorkspaceNext
  PROVE  \/ loadWorkspace
         \/ \E kind \in Kinds : load(kind)
         \/ Pages
         \/ dialog # Null /\ Submit
         \/ \E r \in Pending :
              \/ ServeList(r) \/ ListArrives(r) \/ ListFails(r)
              \/ ServeChange(r) \/ ChangeArrives(r) \/ ChangeFails(r)
<1>1. CASE \E op \in {"create", "patch", "delete"}, i \in Ids :
             ProjectsTab(op, i) \/ ArtifactsTab(op, i) \/ PlacementTable(op, i) \/ LaunchConfigsTab(op, i)
  BY <1>1 DEF ProjectsTab, ArtifactsTab, PlacementTable, LaunchConfigsTab, Pages, Ops
<1>2. CASE \/ SubmitProject \/ SubmitArtifact \/ SubmitPlacement \/ SubmitLaunchConfig
           \/ RemoveProject \/ RemoveArtifact \/ RemovePlacement \/ RemoveLaunchConfig
  BY <1>2 DEF SubmitProject, SubmitArtifact, SubmitPlacement, SubmitLaunchConfig, RemoveProject,
              RemoveArtifact, RemovePlacement, RemoveLaunchConfig, EditorOf, RemoverOf
<1>3. CASE \/ \E p \in ProjectIds : AddConfigOfProject(p)
           \/ LeaveProject \/ CloseDialog
  BY <1>3 DEF Pages
<1>4. QED BY <1>1, <1>2, <1>3, Zenon DEF WorkspaceNext

LEMMA WorkspaceIdles ==
  ASSUME UNCHANGED workspaceVars
  PROVE  /\ UNCHANGED <<records, calls, shown, launchIds, loading, failed, dialog, saving, editTarget,
                        suspect>>
         /\ Lists' = Lists /\ Changes' = Changes /\ OneChange' = OneChange
<1>1. UNCHANGED <<records, calls, shown, launchIds, loading, failed, dialog, saving, editTarget, suspect>>
  BY DEF workspaceVars, store, forms
<1>2. QED BY <1>1, RestsAlone

LEMMA CatalogStep ==
  ASSUME CatalogTyped, [WorkspaceNext]_workspaceVars
  PROVE  CatalogTyped'
<1>1. CASE UNCHANGED workspaceVars
  <2>1. UNCHANGED <<records, calls, shown, launchIds, loading, failed, dialog, saving, editTarget, suspect>>
    BY <1>1, WorkspaceIdles
  <2>2. WorkspaceTypeOK' BY <2>1 DEF CatalogTyped, WorkspaceTypeOK
  <2>3. Sound(calls') /\ Lists' = Lists /\ Changes' = Changes
    BY <1>1, <2>1, WorkspaceIdles, Unpacked DEF Sound
  <2>4. QED BY <2>1, <2>2, <2>3, ShapeKept, DialogTyped, Unpacked
<1>2. CASE WorkspaceNext
  BY <1>2, WorkspaceCases, LoadsTyped, PagesTyped, SubmitTyped, ServeListTyped, ListArrivesTyped,
     ListFailsTyped, ServeChangeTyped, ChangeArrivesTyped, ChangeFailsTyped
<1>3. QED BY <1>1, <1>2

(* The catalog, the lists that show it and the requests between them keep    *)
(* their shape; at most one change is in flight, and only once.              *)
THEOREM WorkspaceTypeCorrect == WorkspaceSpec => [](WorkspaceTypeOK /\ WorkspaceShape)
<1>1. WorkspaceInit => CatalogTyped BY InitTyped
<1>2. CatalogTyped /\ [WorkspaceNext]_workspaceVars => CatalogTyped' BY CatalogStep
<1>3. CatalogTyped => WorkspaceTypeOK /\ WorkspaceShape BY DEF CatalogTyped
<1>4. QED BY <1>1, <1>2, <1>3, PTL DEF WorkspaceSpec

-----------------------------------------------------------------------------
(* The busy flags *)

LoadingWaits == \A kind \in loading : \E l \in Lists : l.kind = kind
SavingWaits == saving => \E r \in Changes : IsOpenDialog(r)

LEMMA LoadingStep ==
  ASSUME CatalogTyped, LoadingWaits, WorkspaceNext
  PROVE  LoadingWaits'
<1>1. ASSUME loadWorkspace PROVE LoadingWaits'
  <2>1. loading' = loading \cup Kinds /\ loading \subseteq Kinds
    BY <1>1 DEF loadWorkspace, StartLoads, CatalogTyped, WorkspaceTypeOK
  <2>2. \A kind \in Kinds : FreshList(kind) \in Lists' /\ FreshList(kind).kind = kind
    BY <1>1, LoadWorkspaceFlight, FreshShape
  <2>3. QED BY <2>1, <2>2 DEF LoadingWaits
<1>2. ASSUME NEW kind \in Kinds, load(kind) PROVE LoadingWaits'
  <2>1. loading' = loading \cup {kind} BY <1>2 DEF load, StartLoads
  <2>2. Lists' = Lists \cup {FreshList(kind)} /\ FreshList(kind).kind = kind
    BY <1>2, LoadFlight, FreshShape
  <2>3. QED BY <2>1, <2>2 DEF LoadingWaits
<1>3. CASE Pages BY <1>3, PagesKeep DEF LoadingWaits
<1>4. ASSUME dialog # Null, Submit PROVE LoadingWaits'
  <2> DEFINE c == ChangeOf(dialog.op, dialog.id)
  <2>1. Lists' = {Marking(c, l) : l \in Lists} BY <1>4, SubmitFlight
  <2> HIDE DEF c
  <2>2. \A l \in Lists : Marking(c, l).kind = l.kind BY MarkedShape, Unpacked
  <2>3. loading' = loading BY <1>4 DEF Submit, store
  <2>4. QED BY <2>1, <2>2, <2>3 DEF LoadingWaits
<1>5. ASSUME NEW r \in Pending, ServeList(r) PROVE LoadingWaits'
  <2>1. /\ r \in Lists /\ Answer(r) \in Lists'
        /\ \A e \in Lists : e # r => e \in Lists' BY <1>5, ServeListFlight
  <2>2. Answer(r).kind = r.kind BY <2>1, Unpacked, AnswerShape DEF CatalogTyped
  <2>3. loading' = loading BY <1>5 DEF ServeList, store
  <2>4. QED BY <2>1, <2>2, <2>3 DEF LoadingWaits
<1>6. ASSUME NEW r \in Pending, ListArrives(r) \/ ListFails(r) PROVE LoadingWaits'
  <2>1. \A e \in Lists : e # r => e \in Lists' BY <1>6, ListEndsFlight
  <2>2. loading' = loading \ {r.kind} BY <1>6 DEF ListArrives, ListFails
  <2>3. QED BY <2>1, <2>2 DEF LoadingWaits
<1>7. ASSUME NEW r \in Pending, ServeChange(r) \/ ChangeFails(r) PROVE LoadingWaits'
  <2>1. Lists' = Lists BY <1>7, ServeChangeFlight, ChangeFailsFlight
  <2>2. loading' = loading BY <1>7 DEF ServeChange, ChangeFails, store
  <2>3. QED BY <2>1, <2>2 DEF LoadingWaits
<1>8. ASSUME NEW r \in Pending, ChangeArrives(r) PROVE LoadingWaits'
  <2>1. CASE ReloadsProjects(r)
    <3>1. Lists' = Lists \cup {ListOf("projects", FALSE)} BY <1>8, <2>1, ChangeArrivesFlight
    <3>2. loading' = loading \cup {"projects"} BY <1>8, <2>1 DEF ChangeArrives, StartLoads
    <3>3. ListOf("projects", FALSE).kind = "projects" BY DEF ListOf
    <3>4. QED BY <3>1, <3>2, <3>3 DEF LoadingWaits
  <2>2. CASE ~ReloadsProjects(r)
    <3>1. Lists' = Lists BY <1>8, <2>2, ChangeArrivesFlight
    <3>2. loading' = loading BY <1>8, <2>2 DEF ChangeArrives
    <3>3. QED BY <3>1, <3>2 DEF LoadingWaits
  <2>3. QED BY <2>1, <2>2
<1>9. QED BY <1>1, <1>2, <1>3, <1>4, <1>5, <1>6, <1>7, <1>8, WorkspaceCases

LEMMA SavingStep ==
  ASSUME CatalogTyped, SavingWaits, WorkspaceNext
  PROVE  SavingWaits'
<1>1. ASSUME saving' => saving, dialog' = dialog, Changes \subseteq Changes' PROVE SavingWaits'
  BY <1>1 DEF SavingWaits, IsOpenDialog
<1>2. ASSUME ~saving' PROVE SavingWaits' BY <1>2 DEF SavingWaits
<1>3. ASSUME loadWorkspace PROVE SavingWaits'
  <2>1. Changes = {} BY <1>3, EmptyBagFact DEF loadWorkspace, Changes, Pending
  <2>2. saving' = saving /\ dialog' = dialog BY <1>3 DEF loadWorkspace, forms
  <2>3. QED BY <1>1, <2>1, <2>2
<1>4. ASSUME NEW kind \in Kinds, load(kind) PROVE SavingWaits'
  <2>1. Changes' = Changes BY <1>4, LoadFlight
  <2>2. saving' = saving /\ dialog' = dialog BY <1>4 DEF load, forms
  <2>3. QED BY <1>1, <2>1, <2>2
<1>5. ASSUME Pages PROVE SavingWaits'
  <2>1. Changes' = Changes BY <1>5, PagesKeep
  <2>2. ASSUME NEW op \in Ops, NEW i \in Ids, OpenDialog(op, i) PROVE SavingWaits'
    <3>1. dialog' = Modal(op, i) /\ dialog' # Null BY <2>2, NullLemma DEF OpenDialog
    <3>2. dialog'.op = op /\ dialog'.id = i BY <3>1 DEF Modal
    <3>3. saving' = (Remover(op) /\ \E r \in Changes : r.kind = KindOf(i) /\ Remover(r.op))
      BY <2>2, Zenon DEF OpenDialog
    <3>4. ASSUME saving' PROVE \E r \in Changes' : IsOpenDialog(r)'
      <4>1. PICK r \in Changes : r.kind = KindOf(i) /\ Remover(r.op) BY <3>3, <3>4, Zenon
      <4>2. Remover(op) BY <3>3, <3>4, Zenon
      <4>3. Remover(op) = Remover(r.op) BY <4>1, <4>2 DEF Remover
      <4>4. QED BY <2>1, <3>1, <3>2, <4>1, <4>3 DEF IsOpenDialog
    <3>5. QED BY <3>4 DEF SavingWaits
  <2>3. ASSUME NEW p \in ProjectIds, AddConfigOfProject(p) PROVE SavingWaits'
    BY <1>2, <2>3 DEF AddConfigOfProject
  <2>4. CASE LeaveProject BY <1>1, <2>1, <2>4 DEF LeaveProject
  <2>5. CASE CloseDialog BY <1>2, <2>5 DEF CloseDialog
  <2>6. QED BY <1>5, <2>2, <2>3, <2>4, <2>5 DEF Pages
<1>6. ASSUME dialog # Null, Submit PROVE SavingWaits'
  <2>0. PICK c : c = ChangeOf(dialog.op, dialog.id) OBVIOUS
  <2>1. Changes' = {c} /\ c.op = dialog.op /\ c.kind = KindOf(dialog.id) BY <1>6, <2>0, SubmitFlight
  <2>2. dialog' = dialog BY <1>6 DEF Submit
  <2>3. dialog' # Null /\ KindOf(dialog'.id) = c.kind /\ Remover(dialog'.op) = Remover(c.op)
    BY <1>6, <2>1, <2>2
  <2>4. QED BY <2>1, <2>3 DEF SavingWaits, IsOpenDialog
<1>7. ASSUME NEW r \in Pending, ServeList(r) PROVE SavingWaits'
  <2>1. Changes' = Changes BY <1>7, ServeListFlight
  <2>2. saving' = saving /\ dialog' = dialog BY <1>7 DEF ServeList, forms
  <2>3. QED BY <1>1, <2>1, <2>2
<1>8. ASSUME NEW r \in Pending, ListArrives(r) PROVE SavingWaits'
  <2>1. Changes' = Changes BY <1>8, ListEndsFlight
  <2>2. dialog' = dialog /\ (saving' = FALSE \/ saving' = saving) BY <1>8 DEF ListArrives
  <2>3. CASE saving' = FALSE BY <1>2, <2>3
  <2>4. CASE saving' = saving BY <1>1, <2>1, <2>2, <2>4
  <2>5. QED BY <2>2, <2>3, <2>4
<1>9. ASSUME NEW r \in Pending, ListFails(r) PROVE SavingWaits'
  <2>1. Changes' = Changes BY <1>9, ListEndsFlight
  <2>2. saving' = saving /\ dialog' = dialog BY <1>9 DEF ListFails, forms
  <2>3. QED BY <1>1, <2>1, <2>2
<1>10. ASSUME NEW r \in Pending, ServeChange(r) PROVE SavingWaits'
  <2> DEFINE s == [r EXCEPT !.served = TRUE]
  <2>1. r \in Changes /\ Changes = {r} /\ Changes' = {s} BY <1>10, ServeChangeFlight
  <2>2. saving' = saving /\ dialog' = dialog BY <1>10 DEF ServeChange, forms
  <2>3. s.op = r.op /\ s.kind = r.kind BY <2>1, Unpacked, MadeShape
  <2> HIDE DEF s
  <2>4. saving => IsOpenDialog(r) BY <2>1 DEF SavingWaits
  <2>5. IsOpenDialog(r) => IsOpenDialog(s)' BY <2>2, <2>3 DEF IsOpenDialog
  <2>6. QED BY <2>1, <2>2, <2>4, <2>5 DEF SavingWaits
<1>11. ASSUME NEW r \in Pending, ChangeArrives(r) \/ ChangeFails(r) PROVE SavingWaits'
  <2>1. Changes = {r} BY <1>11, ChangeArrivesFlight, ChangeFailsFlight
  <2>2. saving' = (saving /\ ~IsOpenDialog(r)) BY <1>11, Zenon DEF ChangeArrives, ChangeFails
  <2>3. saving => IsOpenDialog(r) BY <2>1 DEF SavingWaits
  <2>4. ~saving' BY <2>2, <2>3, Zenon
  <2>5. QED BY <1>2, <2>4
<1>12. QED
  BY <1>3, <1>4, <1>5, <1>6, <1>7, <1>8, <1>9, <1>10, <1>11, WorkspaceCases

(* No flag stays set: a list that says it is loading, and a dialog that says *)
(* it is saving, wait for a request in flight, whatever loads, failures,     *)
(* reopened dialogs and reseeded forms happen meanwhile. One change at a     *)
(* time is what it takes: the answer that clears a dialog's flag is its own. *)
THEOREM WorkspaceBusyCorrect == WorkspaceSpec => []BusyIsInFlight
<1> DEFINE I == CatalogTyped /\ LoadingWaits /\ SavingWaits
<1>1. WorkspaceInit => I
  <2>1. WorkspaceInit => LoadingWaits /\ SavingWaits BY DEF WorkspaceInit, LoadingWaits, SavingWaits
  <2>2. QED BY <2>1, InitTyped
<1>2. I /\ [WorkspaceNext]_workspaceVars => I'
  <2>1. ASSUME I, UNCHANGED workspaceVars PROVE I'
    <3>1. CatalogTyped' BY <2>1, CatalogStep
    <3>2. LoadingWaits' /\ SavingWaits'
      BY <2>1, WorkspaceIdles DEF LoadingWaits, SavingWaits, IsOpenDialog
    <3>3. QED BY <3>1, <3>2
  <2>2. ASSUME I, WorkspaceNext PROVE I'
    BY <2>2, CatalogStep, LoadingStep, SavingStep
  <2>3. QED BY <2>1, <2>2
<1>3. I => BusyIsInFlight BY DEF LoadingWaits, SavingWaits, BusyIsInFlight
<1> HIDE DEF I
<1>4. QED BY <1>1, <1>2, <1>3, PTL DEF WorkspaceSpec

-----------------------------------------------------------------------------
(* The lists agree with the backend *)

(* A change leaves what its kinds do not say alone, in the backend ...       *)
LEMMA AppliedElsewhere ==
  ASSUME CatalogTyped, NEW r, ChangeShape(r), Allowed(r), records' = Applied(r),
         NEW kind \in Kinds, kind \notin Touches(r)
  PROVE  /\ \A i \in IdsOf(kind) : records'[i] = records[i]
         /\ kind = "projects" => \A c \in ConfigIds : Exists(c)' = Exists(c)
<1>1. /\ r.op \in {"create", "patch", "delete"} /\ r.id \in Ids /\ r.kind = KindOf(r.id)
      /\ r.id \in IdsOf(r.kind) /\ r.kind \in Kinds /\ r.kind # kind
  BY TouchesLemma DEF Ops
<1>2. \A i \in IdsOf(kind) : i \in Ids /\ KindOf(i) = kind /\ i # r.id BY <1>1, KindLemma
<1>3. r.kind = "launchConfigs" /\ r.op # "patch" => kind # "projects" BY TouchesLemma
<1>4. records \in [Ids -> Gone \cup {"new", "edited"}] BY DEF CatalogTyped, WorkspaceTypeOK
<1>5. ConfigIds \subseteq Ids /\ \A c \in ConfigIds : KindOf(c) = "launchConfigs"
  BY KindOfIds DEF Ids
<1>6. CASE r.op = "create"
  <2>1. records' = [records EXCEPT ![r.id] = "new"] BY <1>6, AppliedLemma
  <2>2. \A i \in IdsOf(kind) : records'[i] = records[i] BY <1>2, <1>4, <2>1
  <2>3. kind = "projects" => \A c \in ConfigIds : records'[c] = records[c]
    BY <1>1, <1>3, <1>4, <1>5, <1>6, <2>1
  <2>4. QED BY <2>2, <2>3 DEF Exists
<1>7. CASE r.op = "patch"
  <2>1. records' = [records EXCEPT ![r.id] = "edited"] BY <1>7, AppliedLemma
  <2>2. \A i \in IdsOf(kind) : records'[i] = records[i] BY <1>2, <1>4, <2>1
  <2>3. Exists(r.id) BY <1>7 DEF Allowed
  <2>4. \A c \in ConfigIds : Exists(c)' = Exists(c)
    <3>1. \A c \in ConfigIds : c # r.id => records'[c] = records[c] BY <1>4, <1>5, <2>1
    <3>2. records'[r.id] = "edited" BY <1>1, <1>4, <2>1
    <3>3. QED BY <2>3, <3>1, <3>2 DEF Exists, Gone
  <2>5. QED BY <2>2, <2>4
<1>8. CASE r.op = "delete"
  <2>1. records' = [i \in Ids |->
                      IF i = r.id \/ (r.id \in ProjectIds /\ i \in ConfigsOf(r.id) /\ Exists(i))
                      THEN "deleted" ELSE records[i]]
    BY <1>8, AppliedLemma
  <2>2. \A i \in IdsOf(kind) : records'[i] = records[i]
    <3>1. CASE r.id \in ProjectIds
      <4>1. r.kind = "projects" BY <1>1, <3>1, KindOfIds
      <4>2. kind # "launchConfigs" BY <1>8, <4>1, TouchesLemma
      <4>3. \A i \in IdsOf(kind) : i \notin ConfigIds BY <1>2, <1>5, <4>2
      <4>4. QED BY <1>2, <2>1, <4>3 DEF ConfigsOf
    <3>2. CASE r.id \notin ProjectIds BY <1>2, <2>1, <3>2
    <3>3. QED BY <3>1, <3>2
  <2>3. kind = "projects" => \A c \in ConfigIds : records'[c] = records[c]
    <3>1. SUFFICES ASSUME kind = "projects" PROVE \A c \in ConfigIds : records'[c] = records[c]
      OBVIOUS
    <3>2. r.id \notin ProjectIds BY <1>1, <3>1, KindOfIds
    <3>3. r.id \notin ConfigIds BY <1>1, <1>3, <1>8, <3>1, KindOfIds
    <3>4. QED BY <1>5, <2>1, <3>2, <3>3
  <2>4. QED BY <2>2, <2>3 DEF Exists
<1>9. QED BY <1>1, <1>6, <1>7, <1>8

(* ... and in the store. *)
LEMMA PatchElsewhere ==
  ASSUME CatalogTyped, NEW r, ChangeShape(r), PatchLists(r), NEW kind \in Kinds, kind \notin Touches(r)
  PROVE  /\ \A i \in IdsOf(kind) : shown'[i] = shown[i]
         /\ kind = "projects" => launchIds' = launchIds
<1>1. /\ r.op \in {"create", "patch", "delete"} /\ r.id \in Ids /\ r.kind = KindOf(r.id)
      /\ r.kind \in Kinds /\ r.kind # kind
  BY TouchesLemma DEF Ops
<1>2. \A i \in IdsOf(kind) : i \in Ids /\ KindOf(i) = kind /\ i # r.id BY <1>1, KindLemma
<1>3. shown \in [Ids -> {"absent", "new", "edited", "twice"}] BY DEF CatalogTyped, WorkspaceTypeOK
<1>4. kind = "projects" => r.id \notin ProjectIds BY <1>1, KindOfIds
<1>5. CASE createRecord(r.id) BY <1>2, <1>3, <1>5 DEF createRecord
<1>6. CASE patchRecord(r.id) BY <1>2, <1>3, <1>4, <1>6 DEF patchRecord
<1>7. CASE r.op = "delete" /\ r.id \in ProjectIds /\ deleteProject(r.id)
  <2> DEFINE cascade == IF shown[r.id] = "absent" THEN ConfigIds ELSE ConfigIds \ launchIds[r.id]
  <2>1. shown' = [i \in Ids |-> IF i = r.id \/ i \in ConfigIds \ cascade THEN "absent" ELSE shown[i]]
    BY <1>7, Zenon DEF deleteProject
  <2> HIDE DEF cascade
  <2>2. r.kind = "projects" BY <1>1, <1>7, KindOfIds
  <2>3. kind # "launchConfigs" BY <1>7, <2>2, TouchesLemma
  <2>4. \A i \in IdsOf(kind) : i \notin ConfigIds BY <1>2, <2>3, KindOfIds
  <2>5. QED BY <1>1, <1>2, <2>1, <2>2, <2>4
<1>8. CASE r.op = "delete" /\ r.id \in ArtifactIds /\ deleteArtifact(r.id)
  <2>1. r.kind = "artifacts" BY <1>1, <1>8, KindOfIds
  <2>2. kind # "placements" BY <1>8, <2>1, TouchesLemma
  <2>3. \A i \in IdsOf(kind) : i \notin PlacementIds BY <1>2, <2>2, KindOfIds
  <2>4. QED BY <1>2, <1>8, <2>3 DEF deleteArtifact
<1>9. CASE deletePlacement(r.id) BY <1>2, <1>3, <1>9 DEF deletePlacement
<1>10. CASE deleteLaunchConfig(r.id) BY <1>2, <1>3, <1>10 DEF deleteLaunchConfig
<1>11. QED BY <1>5, <1>6, <1>7, <1>8, <1>9, <1>10 DEF PatchLists

(* A list that must be patched, and is not of the change's own kind.         *)
LEMMA MustPatchOther ==
  ASSUME NEW r, ChangeShape(r), NEW kind, MustPatch(r, kind), kind # r.kind
  PROVE  /\ r.op = "delete"
         /\ \/ r.kind = "projects" /\ kind = "launchConfigs" /\ Quiet("projects")
            \/ r.kind = "artifacts" /\ kind = "placements"
BY TouchesLemma DEF MustPatch, ReloadsProjects

(* Once the backend has made a change, its lists are as the answer expects.  *)
LEMMA MadePrepared ==
  ASSUME CatalogTyped, NEW r, ChangeShape(r), Allowed(r), records' = Applied(r),
         shown' = shown, launchIds' = launchIds, NEW kind \in Kinds, MustPatch(r, kind),
         AgreeBut(kind, {}), Quiet("projects") => AgreeBut("projects", {})
  PROVE  Prepared(r, kind)'
<1>1. /\ r.op \in {"create", "patch", "delete"} /\ r.id \in Ids /\ r.kind = KindOf(r.id)
      /\ r.kind \in Kinds /\ r.id \in IdsOf(r.kind)
  BY TouchesLemma DEF Ops
<1>2. \A i \in IdsOf(kind) : i \in Ids /\ KindOf(i) = kind BY KindLemma
<1>3. records \in [Ids -> Gone \cup {"new", "edited"}] BY DEF CatalogTyped, WorkspaceTypeOK
<1>4. ConfigIds \subseteq Ids /\ \A c \in ConfigIds : KindOf(c) = "launchConfigs"
  BY KindOfIds DEF Ids
<1>5. \A i \in IdsOf(kind) : AgreeAt(i) BY DEF AgreeBut
<1>6. \A i \in Ids : records'[i] = records[i] /\ AgreeAt(i) => AgreeAt(i)'
  BY DEF AgreeAt, normalizeRecord, Exists
<1>7. r.op = "delete" =>
        records' = [i \in Ids |->
          IF i = r.id \/ (r.id \in ProjectIds /\ i \in ConfigsOf(r.id) /\ Exists(i))
          THEN "deleted" ELSE records[i]]
  BY AppliedLemma
<1>8. CASE kind = r.kind
  <2>1. AgreeAt(r.id) BY <1>1, <1>5, <1>8
  <2>2. \A i \in IdsOf(kind) : i # r.id => records'[i] = records[i]
    <3>1. CASE r.op = "create" BY <1>2, <1>3, <3>1, AppliedLemma
    <3>2. CASE r.op = "patch" BY <1>2, <1>3, <3>2, AppliedLemma
    <3>3. CASE r.op = "delete"
      <4>1. r.id \in ProjectIds => kind = "projects" BY <1>1, <1>8, KindOfIds
      <4>2. r.id \in ProjectIds => \A i \in IdsOf(kind) : i \notin ConfigIds BY <1>2, <1>4, <4>1
      <4>3. QED BY <1>2, <1>7, <3>3, <4>2 DEF ConfigsOf
    <3>4. QED BY <1>1, <3>1, <3>2, <3>3
  <2>3. \A i \in IdsOf(kind) \ {r.id} : AgreeAt(i)' BY <1>2, <1>5, <1>6, <2>2
  <2>4. ASSUME kind = "projects", NEW p \in ProjectIds, p # r.id PROVE LaunchAt(p)'
    <3>1. r.id \in ProjectIds /\ r.id \notin ConfigIds BY <1>1, <1>8, <2>4, KindOfIds
    <3>2. \A c \in ConfigsOf(p) : c \in Ids /\ c # r.id /\ c \notin ConfigsOf(r.id)
      BY <1>4, <2>4, <3>1 DEF ConfigsOf
    <3>3. \A c \in ConfigsOf(p) : records'[c] = records[c]
      BY <1>1, <1>3, <1>7, <3>2, AppliedLemma
    <3>4. p \in IdsOf(kind) BY <2>4, IdsOfKinds
    <3>5. records'[p] = records[p] BY <2>2, <2>4, <3>4
    <3>6. LaunchAt(p) BY <2>4 DEF AgreeBut
    <3>7. QED BY <3>3, <3>5, <3>6 DEF LaunchAt, Exists
  <2>5. Rewritten(r, kind)' = {r.id} BY <1>8 DEF Rewritten
  <2>6. AgreeBut(kind, Rewritten(r, kind))' BY <2>3, <2>4, <2>5 DEF AgreeBut
  <2>7. CASE r.op = "create"
    <3>1. records[r.id] = "absent" BY <2>7 DEF Allowed
    <3>2. shown[r.id] = "absent" BY <2>1, <3>1 DEF AgreeAt, normalizeRecord, Exists, Gone
    <3>3. records'[r.id] = "new" BY <1>1, <1>3, <2>7, AppliedLemma
    <3>4. r.kind # "projects" BY <1>1, <3>1, KindOfIds, DialogTyped
    <3>5. QED BY <1>8, <2>6, <2>7, <3>2, <3>3, <3>4 DEF Prepared
  <2>8. CASE r.op = "patch"
    <3>1. Exists(r.id) BY <2>8 DEF Allowed
    <3>2. shown[r.id] \in {"new", "edited"}
      BY <1>1, <1>3, <2>1, <3>1 DEF AgreeAt, normalizeRecord, Exists
    <3>3. records'[r.id] = "edited" BY <1>1, <1>3, <2>8, AppliedLemma
    <3>4. QED BY <1>8, <2>6, <2>8, <3>2, <3>3 DEF Prepared
  <2>9. CASE r.op = "delete"
    <3>1. records'[r.id] = "deleted" BY <1>1, <1>7, <2>9
    <3>2. ~Exists(r.id)' BY <3>1 DEF Exists, Gone
    <3>3. QED BY <1>8, <2>5, <2>6, <2>9, <3>2 DEF Prepared
  <2>10. QED BY <1>1, <2>7, <2>8, <2>9
<1>9. CASE kind # r.kind /\ r.kind = "artifacts"
  <2>1. r.op = "delete" /\ kind = "placements" BY <1>9, MustPatchOther
  <2>2. r.id \in ArtifactIds /\ r.id \notin ProjectIds /\ r.id \notin PlacementIds
    BY <1>1, <1>9, KindOfIds
  <2>3. \A l \in PlacementIds : ArtifactOf[l] = r.id => ~Exists(l) BY <2>1, <2>2 DEF Allowed
  <2>4. IdsOf(kind) = PlacementIds BY <2>1, IdsOfKinds
  <2>5. \A l \in PlacementIds : records'[l] = records[l] BY <1>2, <1>7, <2>1, <2>2, <2>4
  <2>6. \A l \in PlacementIds : AgreeAt(l)' BY <1>2, <1>5, <1>6, <2>4, <2>5
  <2>7. Rewritten(r, kind)' = {l \in PlacementIds : ArtifactOf[l] = r.id} BY <1>9 DEF Rewritten
  <2>8. \A l \in Rewritten(r, kind)' : ~Exists(l)' BY <2>3, <2>5, <2>7 DEF Exists
  <2>9. QED BY <1>9, <2>1, <2>4, <2>6, <2>8 DEF Prepared, AgreeBut
<1>10. CASE kind # r.kind /\ r.kind = "projects"
  <2>1. r.op = "delete" /\ kind = "launchConfigs" /\ Quiet("projects") BY <1>10, MustPatchOther
  <2>2. r.id \in ProjectIds /\ r.id \notin ConfigIds BY <1>1, <1>10, KindOfIds
  <2>3. Exists(r.id) BY <2>1 DEF Allowed
  <2>4. AgreeAt(r.id) /\ LaunchAt(r.id) BY <2>1, <2>2, IdsOfKinds DEF AgreeBut
  <2>5. launchIds[r.id] = {c \in ConfigsOf(r.id) : Exists(c)} BY <2>3, <2>4 DEF LaunchAt
  <2>6. shown[r.id] # "absent" BY <2>3, <2>4 DEF AgreeAt, normalizeRecord, Exists, Gone
  <2>7. IdsOf(kind) = ConfigIds BY <2>1, IdsOfKinds
  <2>8. \A c \in ConfigIds \ launchIds[r.id] : records'[c] = records[c]
    BY <1>4, <1>7, <2>1, <2>2, <2>5
  <2>9. \A c \in ConfigIds \ launchIds[r.id] : AgreeAt(c)' BY <1>4, <1>5, <1>6, <2>7, <2>8
  <2>10. Rewritten(r, kind)' = launchIds[r.id] BY <1>10 DEF Rewritten
  <2>11. \A c \in launchIds[r.id] : ~Exists(c)'
    <3>1. \A c \in launchIds[r.id] : records'[c] = "deleted"
      BY <1>4, <1>7, <2>1, <2>2, <2>5 DEF ConfigsOf
    <3>2. QED BY <3>1 DEF Exists, Gone
  <2>12. QED BY <1>10, <2>1, <2>6, <2>7, <2>9, <2>10, <2>11 DEF Prepared, AgreeBut
<1>11. QED BY <1>8, <1>9, <1>10, MustPatchOther

(* And the answer makes them agree. *)
LEMMA ArrivedPatched ==
  ASSUME CatalogTyped, NEW r, ChangeShape(r), PatchLists(r), records' = records,
         NEW kind \in Kinds, MustPatch(r, kind), Prepared(r, kind)
  PROVE  AgreeBut(kind, {})'
<1>1. /\ r.op \in {"create", "patch", "delete"} /\ r.id \in Ids /\ r.kind = KindOf(r.id)
      /\ r.kind \in Kinds /\ r.id \in IdsOf(r.kind)
  BY TouchesLemma DEF Ops
<1>2. \A i \in IdsOf(kind) : i \in Ids /\ KindOf(i) = kind BY KindLemma
<1>3. /\ shown \in [Ids -> {"absent", "new", "edited", "twice"}]
      /\ launchIds \in [ProjectIds -> SUBSET ConfigIds]
  BY DEF CatalogTyped, WorkspaceTypeOK
<1>4. \A i \in Ids : normalizeRecord(i)' = normalizeRecord(i) /\ Exists(i)' = Exists(i)
  BY DEF normalizeRecord, Exists
<1>5. \A i \in IdsOf(kind) \ Rewritten(r, kind) : AgreeAt(i) BY DEF Prepared, AgreeBut
<1>6. \A i \in Ids : shown'[i] = shown[i] /\ AgreeAt(i) => AgreeAt(i)' BY <1>4 DEF AgreeAt
<1>7. \A p \in ProjectIds : launchIds'[p] = launchIds[p] /\ LaunchAt(p) => LaunchAt(p)'
  BY <1>4 DEF LaunchAt, ConfigsOf, Exists
<1>8. CASE kind = r.kind
  <2>1. Rewritten(r, kind) = {r.id} BY <1>8 DEF Rewritten
  <2>2. kind = "projects" => \A p \in ProjectIds \ {r.id} : LaunchAt(p)
    BY <2>1 DEF Prepared, AgreeBut
  <2>3. kind = "projects" <=> r.id \in ProjectIds BY <1>1, <1>8, KindOfIds
  <2>4. CASE r.op = "create"
    <3>1. shown[r.id] = "absent" /\ records[r.id] = "new" /\ kind # "projects"
      BY <1>8, <2>4 DEF Prepared
    <3>2. createRecord(r.id) BY <2>4 DEF PatchLists
    <3>3. shown' = [shown EXCEPT ![r.id] = "new"] BY <3>1, <3>2 DEF createRecord
    <3>4. AgreeAt(r.id)'
      BY <1>1, <1>3, <1>4, <3>1, <3>3 DEF AgreeAt, normalizeRecord, Exists, Gone
    <3>5. \A i \in IdsOf(kind) : AgreeAt(i)' BY <1>2, <1>3, <1>5, <1>6, <2>1, <3>3, <3>4
    <3>6. QED BY <3>1, <3>5 DEF AgreeBut
  <2>5. CASE r.op = "patch"
    <3>1. shown[r.id] \in {"new", "edited"} /\ records[r.id] = "edited"
      BY <1>8, <2>5 DEF Prepared
    <3>2. patchRecord(r.id) BY <2>5 DEF PatchLists
    <3>3. shown' = [shown EXCEPT ![r.id] = "edited"] BY <3>1, <3>2 DEF patchRecord
    <3>4. AgreeAt(r.id)'
      BY <1>1, <1>3, <1>4, <3>1, <3>3 DEF AgreeAt, normalizeRecord, Exists, Gone
    <3>5. \A i \in IdsOf(kind) : AgreeAt(i)' BY <1>2, <1>3, <1>5, <1>6, <2>1, <3>3, <3>4
    <3>6. kind = "projects" =>
            launchIds' = [launchIds EXCEPT ![r.id] = {c \in ConfigsOf(r.id) : Exists(c)}]
      BY <2>3, <3>1, <3>2 DEF patchRecord
    <3>7. kind = "projects" => LaunchAt(r.id)'
      <4>1. ASSUME kind = "projects" PROVE LaunchAt(r.id)'
        <5>1. launchIds'[r.id] = {c \in ConfigsOf(r.id) : Exists(c)} BY <1>3, <2>3, <3>6, <4>1
        <5>2. QED BY <5>1 DEF LaunchAt, Exists
      <4>2. QED BY <4>1
    <3>8. kind = "projects" => \A p \in ProjectIds : LaunchAt(p)' BY <1>3, <1>7, <2>2, <3>6, <3>7
    <3>9. QED BY <3>5, <3>8 DEF AgreeBut
  <2>6. CASE r.op = "delete"
    <3>1. ~Exists(r.id) BY <2>1, <2>6 DEF Prepared
    <3>2. shown'[r.id] = "absent" /\ \A i \in IdsOf(kind) \ {r.id} : shown'[i] = shown[i]
      <4>1. CASE r.id \in ProjectIds
        <5> DEFINE cascade == IF shown[r.id] = "absent" THEN ConfigIds ELSE ConfigIds \ launchIds[r.id]
        <5>1. deleteProject(r.id)
          BY <1>1, <2>6, <4>1, KindOfIds DEF PatchLists
        <5>2. shown' = [i \in Ids |-> IF i = r.id \/ i \in ConfigIds \ cascade THEN "absent" ELSE shown[i]]
          BY <5>1, Zenon DEF deleteProject
        <5> HIDE DEF cascade
        <5>3. \A i \in IdsOf(kind) : i \notin ConfigIds BY <1>2, <2>3, <4>1, KindOfIds
        <5>4. QED BY <1>1, <1>2, <5>2, <5>3
      <4>2. CASE r.id \in ArtifactIds
        <5>1. deleteArtifact(r.id) BY <1>1, <2>6, <4>2, KindOfIds DEF PatchLists
        <5>2. \A i \in IdsOf(kind) : i \notin PlacementIds BY <1>1, <1>2, <1>8, <4>2, KindOfIds
        <5>3. QED BY <1>1, <1>2, <5>1, <5>2 DEF deleteArtifact
      <4>3. CASE r.id \in PlacementIds
        <5>1. deletePlacement(r.id) BY <1>1, <2>6, <4>3, KindOfIds DEF PatchLists
        <5>2. QED BY <1>1, <1>2, <1>3, <5>1 DEF deletePlacement
      <4>4. CASE r.id \in ConfigIds
        <5>1. deleteLaunchConfig(r.id) BY <1>1, <2>6, <4>4, KindOfIds DEF PatchLists
        <5>2. QED BY <1>1, <1>2, <1>3, <5>1 DEF deleteLaunchConfig
      <4>5. QED BY <1>1, <4>1, <4>2, <4>3, <4>4 DEF Ids
    <3>3. AgreeAt(r.id)' BY <1>1, <1>4, <3>1, <3>2 DEF AgreeAt, normalizeRecord
    <3>4. \A i \in IdsOf(kind) : AgreeAt(i)' BY <1>2, <1>5, <1>6, <2>1, <3>2, <3>3
    <3>5. kind = "projects" => \A p \in ProjectIds : LaunchAt(p)'
      <4>1. SUFFICES ASSUME kind = "projects" PROVE \A p \in ProjectIds : LaunchAt(p)' OBVIOUS
      <4>2. deleteProject(r.id) BY <1>1, <2>3, <2>6, <4>1, KindOfIds DEF PatchLists
      <4>3. launchIds' = [launchIds EXCEPT ![r.id] = {}] BY <4>2, Zenon DEF deleteProject
      <4>4. LaunchAt(r.id)' BY <1>1, <1>4, <3>1 DEF LaunchAt
      <4>5. QED BY <1>3, <1>7, <2>2, <4>1, <4>3, <4>4
    <3>6. QED BY <3>4, <3>5 DEF AgreeBut
  <2>7. QED BY <1>1, <2>4, <2>5, <2>6
<1>9. CASE kind # r.kind /\ r.kind = "artifacts"
  <2>1. r.op = "delete" /\ kind = "placements" BY <1>9, MustPatchOther
  <2>2. r.id \in ArtifactIds BY <1>1, <1>9, KindOfIds
  <2>3. deleteArtifact(r.id) BY <1>1, <2>1, <2>2, KindOfIds DEF PatchLists
  <2>4. IdsOf(kind) = PlacementIds BY <2>1, IdsOfKinds
  <2>5. Rewritten(r, kind) = {l \in PlacementIds : ArtifactOf[l] = r.id} BY <1>9 DEF Rewritten
  <2>6. \A l \in PlacementIds : l \in Ids /\ l # r.id BY <1>2, <2>1, <2>2, <2>4, KindOfIds
  <2>7. ASSUME NEW l \in PlacementIds PROVE AgreeAt(l)'
    <3>1. CASE ArtifactOf[l] = r.id
      <4>1. shown'[l] = "absent" BY <2>3, <2>6, <2>7, <3>1 DEF deleteArtifact
      <4>2. ~Exists(l) BY <2>1, <2>5, <2>7, <3>1 DEF Prepared
      <4>3. QED BY <1>4, <2>6, <4>1, <4>2 DEF AgreeAt, normalizeRecord
    <3>2. CASE ArtifactOf[l] # r.id
      <4>1. shown'[l] = shown[l] BY <2>3, <2>6, <2>7, <3>2 DEF deleteArtifact
      <4>2. QED BY <1>5, <1>6, <2>4, <2>5, <2>6, <3>2, <4>1
    <3>3. QED BY <3>1, <3>2
  <2>8. QED BY <2>1, <2>4, <2>7 DEF AgreeBut
<1>10. CASE kind # r.kind /\ r.kind = "projects"
  <2> DEFINE cascade == IF shown[r.id] = "absent" THEN ConfigIds ELSE ConfigIds \ launchIds[r.id]
  <2>1. r.op = "delete" /\ kind = "launchConfigs" BY <1>10, MustPatchOther
  <2>2. r.id \in ProjectIds BY <1>1, <1>10, KindOfIds
  <2>3. deleteProject(r.id) BY <1>1, <2>1, <2>2, KindOfIds DEF PatchLists
  <2>4. shown' = [i \in Ids |-> IF i = r.id \/ i \in ConfigIds \ cascade THEN "absent" ELSE shown[i]]
    BY <2>3, Zenon DEF deleteProject
  <2>5. shown[r.id] # "absent" BY <1>10 DEF Prepared
  <2>6. ConfigIds \ cascade = launchIds[r.id] BY <1>3, <2>2, <2>5
  <2> HIDE DEF cascade
  <2>7. IdsOf(kind) = ConfigIds BY <2>1, IdsOfKinds
  <2>8. Rewritten(r, kind) = launchIds[r.id] BY <1>10 DEF Rewritten
  <2>9. \A c \in ConfigIds : c \in Ids /\ c # r.id BY <1>2, <2>1, <2>2, <2>7, KindOfIds
  <2>10. ASSUME NEW c \in ConfigIds PROVE AgreeAt(c)'
    <3>1. CASE c \in launchIds[r.id]
      <4>1. shown'[c] = "absent" BY <2>4, <2>6, <2>9, <3>1
      <4>2. ~Exists(c) BY <2>1, <2>8, <3>1 DEF Prepared
      <4>3. QED BY <1>4, <2>9, <4>1, <4>2 DEF AgreeAt, normalizeRecord
    <3>2. CASE c \notin launchIds[r.id]
      <4>1. shown'[c] = shown[c] BY <2>4, <2>6, <2>9, <3>2
      <4>2. QED BY <1>5, <1>6, <2>7, <2>8, <2>9, <3>2, <4>1
    <3>3. QED BY <3>1, <3>2
  <2>11. QED BY <2>1, <2>7, <2>10 DEF AgreeBut
<1>11. QED BY <1>8, <1>9, <1>10, MustPatchOther

(* What a list request in flight knows of the backend's records.             *)
LEMMA ListsKnowStep ==
  ASSUME CatalogTyped, ListsKnow, WorkspaceNext
  PROVE  ListsKnow'
<1>1. ASSUME records' = records, NEW l, Uncrossed(l), Changes' \subseteq Changes
      PROVE  Uncrossed(l)'
  BY <1>1 DEF Uncrossed, normalizeRecord, Exists
<1>2. ASSUME NEW l, ~l.served, \A r \in Changes' : l.kind \notin Touches(r) PROVE Uncrossed(l)'
  BY <1>2 DEF Uncrossed
<1>3. CASE loadWorkspace
  <2>1. Lists' = {FreshList(kind) : kind \in Kinds} /\ Changes' = {} BY <1>3, LoadWorkspaceFlight
  <2>2. ASSUME NEW l \in Lists' PROVE ~l.crossed => Uncrossed(l)'
    <3>1. PICK kind \in Kinds : l = FreshList(kind) BY <2>1
    <3>2. ~l.served BY <3>1, FreshShape
    <3>3. QED BY <1>2, <2>1, <3>2
  <2>3. QED BY <2>2 DEF ListsKnow
<1>4. ASSUME NEW kind \in Kinds, load(kind) PROVE ListsKnow'
  <2>1. Lists' = Lists \cup {FreshList(kind)} /\ Changes' = Changes BY <1>4, LoadFlight
  <2>2. records' = records BY <1>4 DEF load
  <2>3. PICK f : f = FreshList(kind) OBVIOUS
  <2>4. f.kind = kind /\ ~f.served /\ (~f.crossed => \A r \in Changes : kind \notin Touches(r))
    BY <2>3, FreshShape
  <2>5. ~f.crossed => Uncrossed(f)' BY <1>2, <2>1, <2>4
  <2>6. \A l \in Lists : ~l.crossed => Uncrossed(l)' BY <1>1, <2>1, <2>2 DEF ListsKnow
  <2>7. QED BY <2>1, <2>3, <2>5, <2>6 DEF ListsKnow
<1>5. CASE Pages
  <2>1. records' = records /\ Lists' = Lists /\ Changes' = Changes BY <1>5, PagesKeep
  <2>2. QED BY <1>1, <2>1 DEF ListsKnow
<1>6. ASSUME dialog # Null, Submit PROVE ListsKnow'
  <2>1. PICK c : c = ChangeOf(dialog.op, dialog.id) OBVIOUS
  <2>2. Changes' = {c} /\ Lists' = {Marking(c, l) : l \in Lists} BY <1>6, <2>1, SubmitFlight
  <2>3. records' = records BY <1>6 DEF Submit
  <2>4. ASSUME NEW m \in Lists', ~m.crossed PROVE Uncrossed(m)'
    <3>1. PICK l \in Lists : m = Marking(c, l) BY <2>2
    <3>2. m = l /\ m.kind \notin Touches(c) BY <2>4, <3>1, MarkedShape, Unpacked
    <3>3. Uncrossed(m) BY <2>4, <3>1, <3>2 DEF ListsKnow
    <3>4. QED BY <2>2, <2>3, <3>2, <3>3 DEF Uncrossed, normalizeRecord, Exists
  <2>5. QED BY <2>4 DEF ListsKnow
<1>7. ASSUME NEW r \in Pending, ServeList(r) PROVE ListsKnow'
  <2>1. r \in Lists /\ Changes' = Changes /\ Lists' \subseteq Lists \cup {Answer(r)}
    BY <1>7, ServeListFlight
  <2>2. records' = records BY <1>7 DEF ServeList
  <2>3. PICK s : s = Answer(r) OBVIOUS
  <2>4. /\ s.kind = r.kind /\ (s.crossed <=> r.crossed)
        /\ \A i \in IdsOf(r.kind) : s.shown[i] = normalizeRecord(i)
        /\ r.kind = "projects" =>
             \A p \in ProjectIds : s.launch[p] = {c \in ConfigsOf(p) : Exists(c)}
    BY <2>1, <2>3, AnswerShape, Unpacked DEF CatalogTyped
  <2>5. ~r.crossed => \A c \in Changes : r.kind \notin Touches(c) BY <2>1 DEF ListsKnow, Uncrossed
  <2>6. ~s.crossed => Uncrossed(s) BY <2>4, <2>5 DEF Uncrossed
  <2>7. ~s.crossed => Uncrossed(s)' BY <1>1, <2>1, <2>2, <2>6
  <2>8. \A l \in Lists : ~l.crossed => Uncrossed(l)' BY <1>1, <2>1, <2>2 DEF ListsKnow
  <2>9. QED BY <2>1, <2>3, <2>7, <2>8 DEF ListsKnow
<1>8. ASSUME NEW r \in Pending, ListArrives(r) \/ ListFails(r) PROVE ListsKnow'
  <2>1. Changes' = Changes /\ Lists' \subseteq Lists BY <1>8, ListEndsFlight
  <2>2. records' = records BY <1>8 DEF ListArrives, ListFails
  <2>3. QED BY <1>1, <2>1, <2>2 DEF ListsKnow
<1>9. ASSUME NEW r \in Pending, ServeChange(r) PROVE ListsKnow'
  <2>1. PICK s : s = [r EXCEPT !.served = TRUE] OBVIOUS
  <2>2. r \in Changes /\ Changes' = {s} /\ Lists' = Lists BY <1>9, <2>1, ServeChangeFlight
  <2>3. ChangeShape(r) BY <2>2, Unpacked
  <2>4. s.op = r.op /\ s.kind = r.kind BY <2>1, <2>3, MadeShape
  <2>5. Touches(s) = Touches(r) BY <2>4 DEF Touches
  <2>6. Allowed(r) /\ records' = Applied(r) BY <1>9 DEF ServeChange
  <2>7. ASSUME NEW l \in Lists', ~l.crossed PROVE Uncrossed(l)'
    <3>1. Uncrossed(l) /\ l.kind \in Kinds BY <2>2, <2>7, Unpacked DEF ListsKnow
    <3>2. l.kind \notin Touches(r) BY <2>2, <3>1 DEF Uncrossed
    <3>3. /\ \A i \in IdsOf(l.kind) : records'[i] = records[i]
          /\ l.kind = "projects" => \A c \in ConfigIds : Exists(c)' = Exists(c)
      BY <2>3, <2>6, <3>1, <3>2, AppliedElsewhere
    <3>4. \A i \in IdsOf(l.kind) : normalizeRecord(i)' = normalizeRecord(i)
      BY <3>3 DEF normalizeRecord, Exists
    <3>5. l.kind = "projects" =>
            \A p \in ProjectIds : {c \in ConfigsOf(p) : Exists(c)}' = {c \in ConfigsOf(p) : Exists(c)}
      BY <3>3 DEF ConfigsOf
    <3>6. QED BY <2>2, <2>5, <3>1, <3>2, <3>4, <3>5 DEF Uncrossed
  <2>8. QED BY <2>7 DEF ListsKnow
<1>10. ASSUME NEW r \in Pending, ChangeArrives(r) PROVE ListsKnow'
  <2>1. PICK f : f = ListOf("projects", FALSE) OBVIOUS
  <2>2. Changes' = {} /\ Lists' \subseteq Lists \cup {f} BY <1>10, <2>1, ChangeArrivesFlight
  <2>3. records' = records BY <1>10 DEF ChangeArrives
  <2>4. ~f.served BY <2>1, ListOfShape DEF Kinds
  <2>5. Uncrossed(f)' BY <1>2, <2>2, <2>4
  <2>6. \A l \in Lists : ~l.crossed => Uncrossed(l)' BY <1>1, <2>2, <2>3 DEF ListsKnow
  <2>7. QED BY <2>2, <2>5, <2>6 DEF ListsKnow
<1>11. ASSUME NEW r \in Pending, ChangeFails(r) PROVE ListsKnow'
  <2>1. Changes' = {} /\ Lists' = Lists BY <1>11, ChangeFailsFlight
  <2>2. records' = records BY <1>11 DEF ChangeFails
  <2>3. QED BY <1>1, <2>1, <2>2 DEF ListsKnow
<1>12. QED
  BY <1>3, <1>4, <1>5, <1>6, <1>7, <1>8, <1>9, <1>10, <1>11, WorkspaceCases

(* Steps that change neither the backend nor the lists, and after which no   *)
(* more lists are quiet and no more changes are made.                        *)
LEMMA ClaimsRest ==
  ASSUME Claims, UNCHANGED <<records, shown, launchIds>>,
         \A kind \in Kinds : Quiet(kind)' => Quiet(kind),
         \/ Changes' = Changes
         \/ (\A r \in Changes : ~r.served) /\ (\A r \in Changes' : ~r.served)
  PROVE  Claims'
<1>1. ASSUME NEW kind, NEW rest PROVE AgreeBut(kind, rest)' = AgreeBut(kind, rest)
  BY DEF AgreeBut, AgreeAt, LaunchAt, normalizeRecord, Exists, ConfigsOf
<1>2. ASSUME NEW r, NEW kind, Prepared(r, kind) PROVE Prepared(r, kind)'
  <2>1. Rewritten(r, kind)' = Rewritten(r, kind) BY DEF Rewritten
  <2>2. AgreeBut(kind, Rewritten(r, kind))' = AgreeBut(kind, Rewritten(r, kind)) BY <1>1, <2>1
  <2>3. QED BY <1>2, <2>1, <2>2 DEF Prepared, Exists
<1>3. ASSUME NEW r, NEW kind, MustPatch(r, kind)' PROVE MustPatch(r, kind)
  BY <1>3 DEF MustPatch, ReloadsProjects, Kinds
<1>4. ASSUME NEW kind \in Kinds, Quiet(kind)' PROVE Settled(kind)' /\ Due(kind)'
  <2>1. Quiet(kind) BY <1>4
  <2>2. Settled(kind) /\ Due(kind) BY <2>1 DEF Claims
  <2>3. CASE Changes' = Changes
    <3>1. Settled(kind)' BY <1>1, <2>2, <2>3 DEF Settled
    <3>2. Due(kind)' BY <1>2, <1>3, <2>2, <2>3 DEF Due
    <3>3. QED BY <3>1, <3>2
  <2>4. CASE (\A r \in Changes : ~r.served) /\ (\A r \in Changes' : ~r.served)
    <3>1. AgreeBut(kind, {}) BY <2>2, <2>4 DEF Settled
    <3>2. Settled(kind)' BY <1>1, <3>1 DEF Settled
    <3>3. Due(kind)' BY <2>4 DEF Due
    <3>4. QED BY <3>2, <3>3
  <2>5. QED BY <2>3, <2>4
<1>5. QED BY <1>4 DEF Claims

(* A list arrives: its own kind is what the backend has, unless a change     *)
(* crossed it; what the other lists owe is as it was.                        *)
LEMMA ClaimsArrival ==
  ASSUME CatalogTyped, ListsKnow, Claims, NEW r \in Pending, ListArrives(r)
  PROVE  Claims'
<1>1. /\ r \in Lists /\ Changes' = Changes /\ Lists' \subseteq Lists
      /\ \A e \in Lists : e # r => e \in Lists'
  BY ListEndsFlight
<1>2. ListShape(r) /\ r.served /\ r.kind \in Kinds BY <1>1, Unpacked DEF ListArrives
<1>3. /\ shown' = [i \in Ids |-> IF i \in IdsOf(r.kind) THEN r.shown[i] ELSE shown[i]]
      /\ launchIds' = IF r.kind = "projects" THEN r.launch ELSE launchIds
      /\ records' = records
  BY DEF ListArrives
<1>4. /\ \A kind \in Kinds : kind # r.kind => (kind \in suspect' <=> kind \in suspect)
      /\ r.kind \notin suspect' => ~r.crossed
  BY DEF ListArrives
<1>5. \A kind \in Kinds : Quiet(kind)' /\ kind # r.kind => Quiet(kind) BY <1>1, <1>4 DEF Quiet
<1>6. Quiet(r.kind)' => Uncrossed(r) BY <1>1, <1>4 DEF Quiet, ListsKnow
<1>7. \A i : Exists(i)' = Exists(i) /\ normalizeRecord(i)' = normalizeRecord(i)
  BY <1>3 DEF Exists, normalizeRecord
<1>8. ASSUME Quiet(r.kind)' PROVE Settled(r.kind)' /\ Due(r.kind)'
  <2>1. Uncrossed(r) BY <1>6, <1>8
  <2>2. \A i \in IdsOf(r.kind) : i \in Ids BY <1>2, KindLemma
  <2>3. \A i \in IdsOf(r.kind) : shown'[i] = normalizeRecord(i)
    BY <1>2, <1>3, <2>1, <2>2 DEF Uncrossed
  <2>4. r.kind = "projects" =>
          \A p \in ProjectIds : launchIds'[p] = {c \in ConfigsOf(p) : Exists(c)}
    BY <1>2, <1>3, <2>1 DEF Uncrossed
  <2>5. \A i \in IdsOf(r.kind) : AgreeAt(i)' BY <1>7, <2>3 DEF AgreeAt
  <2>6. r.kind = "projects" => \A p \in ProjectIds : LaunchAt(p)'
    BY <1>3, <2>4 DEF LaunchAt, ConfigsOf, Exists
  <2>7. AgreeBut(r.kind, {})' BY <2>5, <2>6 DEF AgreeBut
  <2>8. \A c \in Changes' : r.kind \notin Touches(c) BY <1>1, <2>1 DEF Uncrossed
  <2>9. QED BY <2>7, <2>8 DEF Settled, Due, MustPatch
<1>9. ASSUME NEW kind \in Kinds, kind # r.kind, Quiet(kind)' PROVE Settled(kind)' /\ Due(kind)'
  <2>1. Quiet(kind) /\ Settled(kind) /\ Due(kind) BY <1>5, <1>9 DEF Claims
  <2>2. \A i \in IdsOf(kind) : i \in Ids /\ i \notin IdsOf(r.kind) BY <1>2, <1>9, KindLemma
  <2>3. \A i \in IdsOf(kind) : shown'[i] = shown[i] BY <1>3, <2>2
  <2>4. kind = "projects" => launchIds' = launchIds BY <1>3, <1>9
  <2>5. ASSUME NEW rest PROVE AgreeBut(kind, rest) => AgreeBut(kind, rest)'
    <3>1. \A i \in IdsOf(kind) : AgreeAt(i) => AgreeAt(i)' BY <1>7, <2>3 DEF AgreeAt
    <3>2. kind = "projects" => \A p \in ProjectIds : LaunchAt(p) => LaunchAt(p)'
      BY <1>3, <2>4 DEF LaunchAt, ConfigsOf, Exists
    <3>3. QED BY <3>1, <3>2 DEF AgreeBut
  <2>6. Settled(kind)' BY <1>1, <2>1, <2>5 DEF Settled
  <2>7. ASSUME NEW c \in Changes, c.served, MustPatch(c, kind)' PROVE Prepared(c, kind)'
    <3>1. ChangeShape(c) BY Unpacked
    <3>2. /\ c.id \in Ids /\ c.kind = KindOf(c.id) /\ c.kind \in Kinds /\ c.id \in IdsOf(c.kind)
          /\ c.kind \in Touches(c) /\ c.op \in Ops
      BY <3>1, TouchesLemma
    <3>3. ASSUME Quiet("projects")' PROVE r.kind = "projects" => c.kind # "projects"
      BY <1>1, <1>6, <3>2, <3>3 DEF Uncrossed
    <3>4. MustPatch(c, kind)
      <4>1. /\ kind \in Touches(c) /\ (kind = "projects" => ~ReloadsProjects(c))
            /\ (kind # c.kind /\ c.kind = "projects" => Quiet("projects")')
        BY <2>7 DEF MustPatch, ReloadsProjects
      <4>2. kind # c.kind /\ c.kind = "projects" => Quiet("projects")
        BY <1>5, <3>3, <4>1 DEF Kinds
      <4>3. QED BY <4>1, <4>2 DEF MustPatch
    <3>5. Prepared(c, kind) BY <2>1, <2>7, <3>4 DEF Due
    <3>6. CASE kind = c.kind
      <4>1. Rewritten(c, kind) = {c.id} /\ Rewritten(c, kind)' = {c.id} BY <3>6 DEF Rewritten
      <4>2. AgreeBut(kind, Rewritten(c, kind))' BY <2>5, <3>5, <4>1 DEF Prepared
      <4>3. shown'[c.id] = shown[c.id] BY <2>3, <3>2, <3>6
      <4>4. QED BY <1>3, <1>7, <3>5, <3>6, <4>1, <4>2, <4>3 DEF Prepared
    <3>7. CASE kind # c.kind /\ c.kind = "artifacts"
      <4>1. c.op = "delete" BY <3>1, <3>4, <3>7, MustPatchOther
      <4>2. Rewritten(c, kind)' = Rewritten(c, kind) BY <3>7 DEF Rewritten
      <4>3. AgreeBut(kind, Rewritten(c, kind))' BY <2>5, <3>5, <4>2 DEF Prepared
      <4>4. QED BY <1>7, <3>5, <3>7, <4>1, <4>2, <4>3 DEF Prepared
    <3>8. CASE kind # c.kind /\ c.kind = "projects"
      <4>1. c.op = "delete" BY <3>1, <3>4, <3>8, MustPatchOther
      <4>2. Quiet("projects")' BY <2>7, <3>8 DEF MustPatch
      <4>3. r.kind # "projects" BY <3>3, <3>8, <4>2
      <4>4. launchIds' = launchIds BY <1>3, <4>3
      <4>5. c.id \notin IdsOf(r.kind) BY <1>2, <3>2, <3>8, <4>3, KindLemma
      <4>6. shown'[c.id] = shown[c.id] BY <1>3, <3>2, <4>5
      <4>7. Rewritten(c, kind)' = Rewritten(c, kind) BY <4>4 DEF Rewritten
      <4>8. AgreeBut(kind, Rewritten(c, kind))' BY <2>5, <3>5, <4>7 DEF Prepared
      <4>9. QED BY <1>7, <3>5, <3>8, <4>1, <4>6, <4>7, <4>8 DEF Prepared
    <3>9. QED BY <3>1, <3>4, <3>6, <3>7, <3>8, MustPatchOther
  <2>8. QED BY <1>1, <2>6, <2>7 DEF Due
<1>10. QED BY <1>8, <1>9 DEF Claims

(* The backend makes a change. *)
LEMMA ClaimsMade ==
  ASSUME CatalogTyped, Claims, NEW r \in Pending, ServeChange(r)
  PROVE  Claims'
<1>1. PICK s : s = [r EXCEPT !.served = TRUE] OBVIOUS
<1>2. r \in Changes /\ Changes = {r} /\ Changes' = {s} /\ Lists' = Lists
  BY <1>1, ServeChangeFlight
<1>3. ChangeShape(r) BY <1>2, Unpacked
<1>4. s.op = r.op /\ s.kind = r.kind /\ s.id = r.id BY <1>1, <1>3, MadeShape
<1>5. Touches(s) = Touches(r) BY <1>4 DEF Touches
<1>6. ~r.served /\ Allowed(r) /\ records' = Applied(r) BY DEF ServeChange
<1>7. UNCHANGED <<shown, launchIds, suspect>> BY DEF ServeChange, store
<1>8. \A kind : Quiet(kind)' = Quiet(kind) BY <1>2, <1>7 DEF Quiet
<1>9. \A kind \in Kinds : Quiet(kind) => AgreeBut(kind, {})
  BY <1>2, <1>6 DEF Claims, Settled
<1>10. s.served BY <1>1, <1>3, MadeShape
<1>11. ASSUME NEW kind \in Kinds, Quiet(kind)' PROVE Settled(kind)' /\ Due(kind)'
  <2>1. AgreeBut(kind, {}) BY <1>8, <1>9, <1>11
  <2>2. Settled(kind)'
    <3>1. CASE kind \in Touches(r) BY <1>2, <1>5, <1>10, <3>1 DEF Settled
    <3>2. CASE kind \notin Touches(r)
      <4>1. /\ \A i \in IdsOf(kind) : records'[i] = records[i]
            /\ kind = "projects" => \A c \in ConfigIds : Exists(c)' = Exists(c)
        BY <1>3, <1>6, <3>2, AppliedElsewhere
      <4>2. \A i \in IdsOf(kind) : AgreeAt(i)'
        BY <1>7, <2>1, <4>1 DEF AgreeBut, AgreeAt, normalizeRecord, Exists
      <4>3. kind = "projects" => \A p \in ProjectIds : LaunchAt(p)'
        <5>1. SUFFICES ASSUME kind = "projects" PROVE \A p \in ProjectIds : LaunchAt(p)' OBVIOUS
        <5>2. \A p \in ProjectIds : LaunchAt(p) BY <2>1, <5>1 DEF AgreeBut
        <5>3. \A p \in ProjectIds : Exists(p)' = Exists(p) BY <4>1, <5>1, IdsOfKinds DEF Exists
        <5>4. \A p \in ProjectIds : {c \in ConfigsOf(p) : Exists(c)}' = {c \in ConfigsOf(p) : Exists(c)}
          BY <4>1, <5>1 DEF ConfigsOf
        <5>5. QED BY <1>7, <5>2, <5>3, <5>4 DEF LaunchAt
      <4>4. AgreeBut(kind, {})' BY <4>2, <4>3 DEF AgreeBut
      <4>5. QED BY <4>4 DEF Settled
    <3>3. QED BY <3>1, <3>2
  <2>3. ASSUME MustPatch(s, kind)' PROVE Prepared(s, kind)'
    <3>1. MustPatch(r, kind) BY <1>4, <1>5, <1>8, <2>3 DEF MustPatch, ReloadsProjects
    <3>2. Quiet("projects") => AgreeBut("projects", {}) BY <1>9 DEF Kinds
    <3>3. Prepared(r, kind)' BY <1>3, <1>6, <1>7, <2>1, <3>1, <3>2, MadePrepared
    <3>4. Rewritten(s, kind)' = Rewritten(r, kind)' BY <1>4 DEF Rewritten
    <3>5. AgreeBut(kind, Rewritten(s, kind))' = AgreeBut(kind, Rewritten(r, kind))' BY <3>4
    <3>6. QED BY <1>4, <3>3, <3>4, <3>5 DEF Prepared
  <2>4. QED BY <1>2, <2>2, <2>3 DEF Due
<1>12. QED BY <1>11 DEF Claims

(* The store hears of it. *)
LEMMA ClaimsPatched ==
  ASSUME CatalogTyped, Claims, NEW r \in Pending, ChangeArrives(r)
  PROVE  Claims'
<1>1. /\ r \in Changes /\ Changes = {r} /\ Changes' = {}
      /\ ReloadsProjects(r) => Lists' = Lists \cup {ListOf("projects", FALSE)}
      /\ ~ReloadsProjects(r) => Lists' = Lists
  BY ChangeArrivesFlight
<1>2. ChangeShape(r) BY <1>1, Unpacked
<1>3. r.served /\ PatchLists(r) /\ records' = records BY DEF ChangeArrives
<1>4. suspect \subseteq suspect' BY DEF ChangeArrives
<1>5. \A kind : Quiet(kind)' => Quiet(kind)
  <2>1. Lists \subseteq Lists' BY <1>1
  <2>2. QED BY <1>4, <2>1 DEF Quiet
<1>6. ASSUME NEW kind \in Kinds, Quiet(kind)' PROVE AgreeBut(kind, {})'
  <2>1. Quiet(kind) /\ Settled(kind) /\ Due(kind) BY <1>5, <1>6 DEF Claims
  <2>2. CASE kind \notin Touches(r)
    <3>1. AgreeBut(kind, {}) BY <1>1, <2>1, <2>2 DEF Settled
    <3>2. /\ \A i \in IdsOf(kind) : shown'[i] = shown[i]
          /\ kind = "projects" => launchIds' = launchIds
      BY <1>2, <1>3, <2>2, PatchElsewhere
    <3>3. QED
      BY <1>3, <3>1, <3>2 DEF AgreeBut, AgreeAt, LaunchAt, normalizeRecord, Exists, ConfigsOf
  <2>3. CASE kind \in Touches(r)
    <3>1. kind = "projects" => ~ReloadsProjects(r)
      <4>1. ASSUME kind = "projects", ReloadsProjects(r) PROVE FALSE
        <5>1. ListOf("projects", FALSE) \in Lists' BY <1>1, <4>1
        <5>2. ListOf("projects", FALSE).kind = "projects" BY DEF ListOf
        <5>3. QED BY <1>6, <4>1, <5>1, <5>2 DEF Quiet
      <4>2. QED BY <4>1
    <3>2. kind # r.kind /\ r.kind = "projects" => Quiet("projects")
      <4>1. SUFFICES ASSUME kind # r.kind, r.kind = "projects" PROVE Quiet("projects") OBVIOUS
      <4>2. r.op = "delete" /\ kind = "launchConfigs" BY <1>2, <2>3, <4>1, TouchesLemma
      <4>3. r.id \in ProjectIds BY <1>2, <4>1, TouchesLemma, KindOfIds
      <4>4. "launchConfigs" \notin suspect' BY <1>6, <4>2 DEF Quiet
      <4>5. ~("projects" \in suspect \/ \E l \in Lists : l.kind = "projects")
        BY <4>2, <4>3, <4>4 DEF ChangeArrives
      <4>6. QED BY <4>5 DEF Quiet
    <3>3. MustPatch(r, kind) BY <2>3, <3>1, <3>2 DEF MustPatch
    <3>4. Prepared(r, kind) BY <1>1, <1>3, <2>1, <3>3 DEF Due
    <3>5. QED BY <1>2, <1>3, <3>3, <3>4, ArrivedPatched
  <2>4. QED BY <2>2, <2>3
<1>7. QED BY <1>1, <1>6 DEF Claims, Settled, Due

(* Or it never does, or there was nothing to hear.                           *)
LEMMA ClaimsFailed ==
  ASSUME CatalogTyped, Claims, NEW r \in Pending, ChangeFails(r)
  PROVE  Claims'
<1>1. r \in Changes /\ Changes = {r} /\ Changes' = {} /\ Lists' = Lists BY ChangeFailsFlight
<1>2. UNCHANGED <<records, shown, launchIds>> BY DEF ChangeFails, store
<1>3. suspect' = IF r.served THEN suspect \cup Touches(r) ELSE suspect BY DEF ChangeFails
<1>4. ASSUME NEW kind \in Kinds, Quiet(kind)' PROVE AgreeBut(kind, {})'
  <2>1. Quiet(kind) /\ (r.served => kind \notin Touches(r)) BY <1>1, <1>3, <1>4 DEF Quiet
  <2>2. AgreeBut(kind, {}) BY <1>1, <2>1 DEF Claims, Settled
  <2>3. QED
    BY <1>2, <2>2 DEF AgreeBut, AgreeAt, LaunchAt, normalizeRecord, Exists, ConfigsOf
<1>5. QED BY <1>1, <1>4 DEF Claims, Settled, Due

LEMMA ClaimsStep ==
  ASSUME CatalogTyped, ListsKnow, Claims, WorkspaceNext
  PROVE  Claims'
<1>1. CASE loadWorkspace
  <2>1. Lists = {} /\ Changes' = {} BY <1>1, LoadWorkspaceFlight
  <2>2. Changes = {} BY <1>1, EmptyBagFact DEF loadWorkspace, Changes, Pending
  <2>3. UNCHANGED <<records, shown, launchIds, suspect>> BY <1>1 DEF loadWorkspace
  <2>4. \A kind \in Kinds : Quiet(kind)' => Quiet(kind) BY <2>1, <2>3 DEF Quiet
  <2>5. QED BY <2>1, <2>2, <2>3, <2>4, ClaimsRest
<1>2. ASSUME NEW k \in Kinds, load(k) PROVE Claims'
  <2>1. Lists' = Lists \cup {FreshList(k)} /\ Changes' = Changes BY <1>2, LoadFlight
  <2>2. UNCHANGED <<records, shown, launchIds, suspect>> BY <1>2 DEF load
  <2>3. Lists \subseteq Lists' BY <2>1
  <2>4. \A kind \in Kinds : Quiet(kind)' => Quiet(kind) BY <2>2, <2>3 DEF Quiet
  <2>5. QED BY <2>1, <2>2, <2>4, ClaimsRest
<1>3. CASE Pages
  <2>1. UNCHANGED <<records, shown, launchIds, suspect>> /\ Lists' = Lists /\ Changes' = Changes
    BY <1>3, PagesKeep
  <2>2. \A kind \in Kinds : Quiet(kind)' => Quiet(kind) BY <2>1 DEF Quiet
  <2>3. QED BY <2>1, <2>2, ClaimsRest
<1>4. ASSUME dialog # Null, Submit PROVE Claims'
  <2>1. PICK c : c = ChangeOf(dialog.op, dialog.id) OBVIOUS
  <2>2. Changes' = {c} /\ Changes = {} /\ ~c.served /\ Lists' = {Marking(c, l) : l \in Lists}
    BY <1>4, <2>1, SubmitFlight
  <2>3. UNCHANGED <<records, shown, launchIds, suspect>> BY <1>4 DEF Submit, store
  <2>4. \A l \in Lists : \E m \in Lists' : m.kind = l.kind BY <2>2, MarkedShape, Unpacked
  <2>5. \A kind \in Kinds : Quiet(kind)' => Quiet(kind) BY <2>3, <2>4 DEF Quiet
  <2>6. QED BY <2>2, <2>3, <2>5, ClaimsRest
<1>5. ASSUME NEW r \in Pending, ServeList(r) PROVE Claims'
  <2>1. /\ r \in Lists /\ Changes' = Changes /\ Answer(r) \in Lists'
        /\ \A e \in Lists : e # r => e \in Lists'
    BY <1>5, ServeListFlight
  <2>2. Answer(r).kind = r.kind BY <2>1, AnswerShape, Unpacked DEF CatalogTyped
  <2>3. UNCHANGED <<records, shown, launchIds, suspect>> BY <1>5 DEF ServeList, store
  <2>4. \A l \in Lists : \E m \in Lists' : m.kind = l.kind BY <2>1, <2>2
  <2>5. \A kind \in Kinds : Quiet(kind)' => Quiet(kind) BY <2>3, <2>4 DEF Quiet
  <2>6. QED BY <2>1, <2>3, <2>5, ClaimsRest
<1>6. ASSUME NEW r \in Pending, ListFails(r) PROVE Claims'
  <2>1. Changes' = Changes /\ \A e \in Lists : e # r => e \in Lists' BY <1>6, ListEndsFlight
  <2>2. UNCHANGED <<records, shown, launchIds>> /\ suspect' = suspect \cup {r.kind}
    BY <1>6 DEF ListFails
  <2>3. \A kind \in Kinds : Quiet(kind)' => Quiet(kind) BY <2>1, <2>2 DEF Quiet
  <2>4. QED BY <2>1, <2>2, <2>3, ClaimsRest
<1>7. QED
  BY <1>1, <1>2, <1>3, <1>4, <1>5, <1>6, ClaimsArrival, ClaimsMade, ClaimsPatched, ClaimsFailed,
     WorkspaceCases

(* The four lists are loaded once and patched by hand, and a deletion        *)
(* cascades by other rules in the store than in the backend: still, a list   *)
(* of which nothing is in flight, and of which no load failed or crossed a   *)
(* change, is what the backend has, for every set of projects, artifacts,    *)
(* placements and configurations.                                            *)
THEOREM WorkspaceListsCorrect == WorkspaceSpec => []QuietListsAgree
<1> DEFINE I == CatalogTyped /\ ListsKnow /\ Claims
<1>1. WorkspaceInit => I
  <2>1. ASSUME WorkspaceInit PROVE ListsKnow /\ Claims
    <3>1. Lists = {} BY <2>1, EmptyBagFact DEF WorkspaceInit, Lists, Pending
    <3>2. suspect = Kinds BY <2>1 DEF WorkspaceInit
    <3>3. QED BY <3>1, <3>2 DEF ListsKnow, Claims, Quiet
  <2>2. QED BY <2>1, InitTyped
<1>2. I /\ [WorkspaceNext]_workspaceVars => I'
  <2>1. ASSUME I, UNCHANGED workspaceVars PROVE I'
    <3>1. CatalogTyped' BY <2>1, CatalogStep
    <3>2. /\ UNCHANGED <<records, shown, launchIds, suspect>>
          /\ Lists' = Lists /\ Changes' = Changes
      BY <2>1, WorkspaceIdles
    <3>3. ListsKnow' BY <2>1, <3>2 DEF ListsKnow, Uncrossed, normalizeRecord, Exists
    <3>4. \A kind \in Kinds : Quiet(kind)' => Quiet(kind) BY <3>2 DEF Quiet
    <3>5. Claims' BY <2>1, <3>2, <3>4, ClaimsRest
    <3>6. QED BY <3>1, <3>3, <3>5
  <2>2. ASSUME I, WorkspaceNext PROVE I'
    BY <2>2, CatalogStep, ListsKnowStep, ClaimsStep
  <2>3. QED BY <2>1, <2>2
<1>3. I => QuietListsAgree
  <2>1. SUFFICES ASSUME I, NEW kind \in Kinds \ suspect, \A l \in Lists : l.kind # kind,
                        \A r \in Changes : kind \notin Touches(r)
                 PROVE  AgreeBut(kind, {})
    BY DEF QuietListsAgree, AgreeBut, AgreeAt, LaunchAt
  <2>2. Quiet(kind) BY <2>1 DEF Quiet
  <2>3. QED BY <2>1, <2>2 DEF Claims, Settled
<1> HIDE DEF I
<1>4. QED BY <1>1, <1>2, <1>3, PTL DEF WorkspaceSpec
=============================================================================
