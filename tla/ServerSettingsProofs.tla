------------------------ MODULE ServerSettingsProofs ------------------------
(* Proofs about ServerSettings, for every set of servers and keys and every  *)
(* bound.                                                                    *)
EXTENDS ServerSettings, BagFacts

-----------------------------------------------------------------------------
(* Which requests are in flight after one is sent, answered or orphaned *)

Orphan(r) == IF r.op \in SectionOps THEN [r EXCEPT !.here = FALSE] ELSE r
Crossed(r) == IF r.op = "list" THEN [r EXCEPT !.crossed = TRUE] ELSE r

LEMMA UnmountingSet ==
  ASSUME NEW bag
  PROVE  BagToSet(Unmounting(bag)) = {Orphan(r) : r \in BagToSet(bag)}
<1>1. \A r : Orphan(r) = Flagged(r, SectionOps, "here", FALSE) BY DEF Orphan, Flagged
<1>2. BagToSet(Unmounting(bag)) = {Flagged(r, SectionOps, "here", FALSE) : r \in BagToSet(bag)}
  BY Zenon DEF Unmounting, Flagging, BagToSet
<1>3. QED BY <1>1, <1>2

LEMMA CrossingSet ==
  ASSUME NEW bag
  PROVE  BagToSet(Crossing(bag)) = {Crossed(r) : r \in BagToSet(bag)}
<1>1. \A r : Crossed(r) = Flagged(r, {"list"}, "crossed", TRUE) BY DEF Crossed, Flagged
<1>2. BagToSet(Crossing(bag)) = {Flagged(r, {"list"}, "crossed", TRUE) : r \in BagToSet(bag)}
  BY Zenon DEF Crossing, Flagging, BagToSet
<1>3. QED BY <1>1, <1>2

-----------------------------------------------------------------------------
(* Requests in flight *)

Fields == {"op", "id", "arg", "key", "here", "crossed", "served", "kind", "rows"}

(* What every request in flight satisfies, given the confirmed prompts c:    *)
(* it names a registered id, a password is for the server it was typed for,  *)
(* and a trust request repeats a prompt that was confirmed.                  *)
Good(r, c) ==
  /\ DOMAIN r = Fields /\ r = [f \in Fields |-> r[f]]
  /\ r.here \in BOOLEAN /\ r.crossed \in BOOLEAN
  /\ r.op # "list" => r.id \in Ids
  /\ r.op \in {"create", "patch", "toggle"} => r.arg \in {"on", "off"}
  /\ r.op = "setPassword" => r.arg = r.id
  /\ r.op = "deletePassword" => r.arg = None
  /\ r.op = "trust" => <<r.arg, r.key>> \in c
  /\ r.op \in DirectActions => r.arg \in Ids
  /\ r.op = "list" /\ r.served => r.rows \in [Ids -> {"absent", "on", "off"}]

AllFine(bag, c) == IsABag(bag) /\ \A r \in BagToSet(bag) : Good(r, c)

(* Flagging requests leaves a bag: each flagged request has the copies of    *)
(* one of the two requests it may come from.                                 *)
LEMMA FlaggingBag ==
  ASSUME NEW bag, IsABag(bag), NEW ops, NEW flag \in Fields, flag # "op", NEW value \in BOOLEAN,
         \A r \in BagToSet(bag) : DOMAIN r = Fields /\ r = [f \in Fields |-> r[f]] /\ r[flag] \in BOOLEAN
  PROVE  IsABag(Flagging(ops, flag, value, bag))
<1> DEFINE D == {Flagged(r, ops, flag, value) : r \in BagToSet(bag)}
           n(m) == Copies(m, bag) + (IF m.op \in ops THEN Copies(Flagged(m, ops, flag, ~value), bag) ELSE 0)
<1>0. Flagging(ops, flag, value, bag) = [m \in D |-> n(m)] BY Zenon DEF Flagging
<1>1. \A x \in DOMAIN bag : bag[x] \in Nat /\ bag[x] > 0 BY DEF IsABag
<1>2. \A x : Copies(x, bag) \in Nat BY <1>1 DEF Copies, BagToSet
<1>3. \A x \in BagToSet(bag) : Copies(x, bag) > 0 BY <1>1 DEF Copies, BagToSet
<1>4. ASSUME NEW m \in D PROVE n(m) \in Nat /\ n(m) > 0
  <2>1. PICK r \in BagToSet(bag) : m = Flagged(r, ops, flag, value) OBVIOUS
  <2>2. CASE r.op \notin ops BY <1>2, <1>3, <2>1, <2>2 DEF Flagged
  <2>3. CASE r.op \in ops
    <3>1. m = [r EXCEPT ![flag] = value] BY <2>1, <2>3 DEF Flagged
    <3>2. m.op = r.op BY <3>1
    <3>3. r = m \/ r = Flagged(m, ops, flag, ~value)
      <4>1. CASE r[flag] = value
        <5>1. DOMAIN m = Fields /\ \A f \in Fields : m[f] = r[f] BY <3>1, <4>1
        <5>2. m = [f \in Fields |-> m[f]] BY <3>1
        <5>3. QED BY <5>1, <5>2
      <4>2. CASE r[flag] # value
        <5> DEFINE u == [m EXCEPT ![flag] = ~value]
        <5>1. r[flag] = ~value BY <4>2
        <5>2. DOMAIN u = Fields /\ u = [f \in Fields |-> u[f]] BY <3>1
        <5>3. \A f \in Fields : u[f] = r[f] BY <3>1, <5>1
        <5>4. r = u BY <5>2, <5>3
        <5>5. QED BY <2>3, <3>2, <5>4 DEF Flagged
      <4>3. QED BY <4>1, <4>2
    <3>4. QED BY <1>2, <1>3, <2>3, <3>2, <3>3
  <2>4. QED BY <2>2, <2>3
<1> HIDE DEF n, D
<1>5. [m \in D |-> n(m)] \in [D -> {k \in Nat : k > 0}] BY <1>4
<1>6. QED BY <1>0, <1>5 DEF IsABag

(* A new request with a server's id and no argument. *)
Plain == {"test", "auth", "pairs", "delete", "fleetDelete", "deletePassword"}

LEMMA PlainGood ==
  ASSUME NEW op \in Plain, NEW i \in Ids, NEW c
  PROVE  Good(Request(op, i), c)
BY DEF Good, Fields, Request, Plain, DirectActions

LEMMA ArgGood ==
  ASSUME NEW op, NEW i \in Ids, NEW arg, NEW c,
         op # "list" /\ op # "trust",
         op \in {"create", "patch", "toggle"} => arg \in {"on", "off"},
         op = "setPassword" => arg = i,
         op = "deletePassword" => arg = None,
         op \in DirectActions => arg \in Ids
  PROVE  Good([Request(op, i) EXCEPT !.arg = arg], c)
BY DEF Good, Fields, Request

LEMMA TrustGood ==
  ASSUME NEW i \in Ids, NEW host, NEW key, NEW c, <<host, key>> \in c
  PROVE  Good([Request("trust", i) EXCEPT !.arg = host, !.key = key], c)
BY DEF Good, Fields, Request, DirectActions

LEMMA ListGood ==
  ASSUME NEW b \in BOOLEAN, NEW c
  PROVE  Good([Request("list", None) EXCEPT !.crossed = b], c)
BY DEF Good, Fields, Request, DirectActions

(* Marking a request, and answering it, keep what is known of it. *)
LEMMA MarkGood ==
  ASSUME NEW r, NEW c, Good(r, c)
  PROVE  Good(Orphan(r), c) /\ Good(Crossed(r), c)
<1>1. Good([r EXCEPT !.here = FALSE], c) BY DEF Good, Fields
<1>2. Good([r EXCEPT !.crossed = TRUE], c) BY DEF Good, Fields
<1>3. QED BY <1>1, <1>2 DEF Orphan, Crossed

LEMMA AnswerGood ==
  ASSUME NEW r, NEW c, Good(r, c), NEW kind
  PROVE  /\ r.op # "list" => Good(Answer(r, kind), c)
         /\ r.op \notin {"list", "trust"} => \A k : Good([Answer(r, kind) EXCEPT !.key = k], c)
         /\ r.op # "list" => \A rows : Good([Answer(r, kind) EXCEPT !.rows = rows], c)
         /\ r.op = "list" => \A rows \in [Ids -> {"absent", "on", "off"}] :
                               Good([Answer(r, kind) EXCEPT !.rows = rows], c)
<1>1. r.op # "list" => Good(Answer(r, kind), c) BY DEF Good, Fields, Answer
<1>2. r.op \notin {"list", "trust"} => \A k : Good([Answer(r, kind) EXCEPT !.key = k], c)
  BY DEF Good, Fields, Answer
<1>3. r.op # "list" => \A rows : Good([Answer(r, kind) EXCEPT !.rows = rows], c)
  BY DEF Good, Fields, Answer
<1>4. r.op = "list" => \A rows \in [Ids -> {"absent", "on", "off"}] :
                         Good([Answer(r, kind) EXCEPT !.rows = rows], c)
  BY DEF Good, Fields, Answer
<1>5. QED BY <1>1, <1>2, <1>3, <1>4, Zenon

LEMMA GoodMonotone ==
  ASSUME NEW bag, NEW c, NEW d, AllFine(bag, c), c \subseteq d
  PROVE  AllFine(bag, d)
BY DEF AllFine, Good

LEMMA AddGood ==
  ASSUME NEW bag, NEW c, AllFine(bag, c), NEW r, Good(r, c)
  PROVE  /\ AllFine(Adding({r}, bag), c)
         /\ BagToSet(Adding({r}, bag)) = BagToSet(bag) \cup {r}
<1>1. IsABag(bag) BY DEF AllFine
<1>2. /\ IsABag(bag (+) SetToBag({r}))
      /\ BagToSet(bag (+) SetToBag({r})) = BagToSet(bag) \cup {r}
  BY <1>1, BagAddOne, Zenon
<1>3. Adding({r}, bag) = bag (+) SetToBag({r}) BY Zenon DEF Adding
<1>4. IsABag(Adding({r}, bag)) /\ BagToSet(Adding({r}, bag)) = BagToSet(bag) \cup {r}
  BY <1>2, <1>3, Zenon
<1>5. QED BY <1>4 DEF AllFine

LEMMA RemoveGood ==
  ASSUME NEW bag, NEW c, AllFine(bag, c), NEW r
  PROVE  /\ AllFine(Removing(r, bag), c)
         /\ BagToSet(Removing(r, bag)) \subseteq BagToSet(bag)
         /\ \A e \in BagToSet(bag) : e # r => e \in BagToSet(Removing(r, bag))
<1>1. IsABag(bag) BY DEF AllFine
<1>2. /\ IsABag(bag (-) SetToBag({r}))
      /\ BagToSet(bag (-) SetToBag({r})) \subseteq BagToSet(bag)
      /\ \A e \in BagToSet(bag) : e # r => e \in BagToSet(bag (-) SetToBag({r}))
  BY <1>1, BagRemoveOne, Zenon
<1>3. Removing(r, bag) = bag (-) SetToBag({r}) BY Zenon DEF Removing
<1>4. /\ IsABag(Removing(r, bag)) /\ BagToSet(Removing(r, bag)) \subseteq BagToSet(bag)
      /\ \A e \in BagToSet(bag) : e # r => e \in BagToSet(Removing(r, bag))
  BY <1>2, <1>3, Zenon
<1>5. QED BY <1>4 DEF AllFine

LEMMA UnmountGood ==
  ASSUME NEW bag, NEW c, AllFine(bag, c)
  PROVE  AllFine(Unmounting(bag), c)
<1>1. IsABag(bag) /\ \A r \in BagToSet(bag) : Good(r, c) BY DEF AllFine
<1>2. \A r \in BagToSet(bag) : /\ DOMAIN r = Fields /\ r = [f \in Fields |-> r[f]]
                               /\ r["here"] \in BOOLEAN
  BY <1>1 DEF Good
<1>3. "here" \in Fields /\ "here" # "op" BY DEF Fields
<1>4. IsABag(Unmounting(bag)) BY <1>1, <1>2, <1>3, FlaggingBag DEF Unmounting
<1>5. \A r \in BagToSet(Unmounting(bag)) : Good(r, c) BY <1>1, UnmountingSet, MarkGood
<1>6. QED BY <1>4, <1>5 DEF AllFine

LEMMA CrossGood ==
  ASSUME NEW bag, NEW c, AllFine(bag, c)
  PROVE  AllFine(Crossing(bag), c)
<1>1. IsABag(bag) /\ \A r \in BagToSet(bag) : Good(r, c) BY DEF AllFine
<1>2. \A r \in BagToSet(bag) : /\ DOMAIN r = Fields /\ r = [f \in Fields |-> r[f]]
                               /\ r["crossed"] \in BOOLEAN
  BY <1>1 DEF Good
<1>3. "crossed" \in Fields /\ "crossed" # "op" BY DEF Fields
<1>4. IsABag(Crossing(bag)) BY <1>1, <1>2, <1>3, FlaggingBag DEF Crossing
<1>5. \A r \in BagToSet(Crossing(bag)) : Good(r, c) BY <1>1, CrossingSet, MarkGood
<1>6. QED BY <1>4, <1>5 DEF AllFine

LEMMA SendGood ==
  ASSUME NEW bag, NEW c, AllFine(bag, c), NEW r, Good(r, c)
  PROVE  /\ AllFine(Sending(r, bag), c)
         /\ BagToSet(Sending(r, bag)) =
              (IF r.op \in RegistryChanges \cup {"list"} THEN {Crossed(x) : x \in BagToSet(bag)}
               ELSE BagToSet(bag)) \cup {r}
<1>1. AllFine(Crossing(bag), c) BY CrossGood
<1>2. CASE r.op \in RegistryChanges \cup {"list"}
  <2>1. Sending(r, bag) = Adding({r}, Crossing(bag)) BY <1>2 DEF Sending
  <2>2. QED BY <1>1, <1>2, <2>1, AddGood, CrossingSet
<1>3. CASE r.op \notin RegistryChanges \cup {"list"}
  <2>1. Sending(r, bag) = Adding({r}, bag) BY <1>3 DEF Sending
  <2>2. QED BY <1>3, <2>1, AddGood
<1>4. QED BY <1>2, <1>3

(* The list that refreshRegistry asks for. *)
Refresh(bag) ==
  [Request("list", None) EXCEPT !.crossed = Waiting(RegistryChanges) \cap BagToSet(bag) # {}]

LEMMA RefreshGood ==
  ASSUME NEW bag, NEW c, AllFine(bag, c)
  PROVE  /\ AllFine(Refreshing(bag), c)
         /\ BagToSet(Refreshing(bag)) = {Crossed(x) : x \in BagToSet(bag)} \cup {Refresh(bag)}
<1>1. Good(Refresh(bag), c) BY ListGood DEF Refresh
<1>2. Refresh(bag).op = "list" BY DEF Refresh, Request
<1>3. Refreshing(bag) = Sending(Refresh(bag), bag) BY Zenon DEF Refreshing, Refresh
<1>4. QED BY <1>1, <1>2, <1>3, SendGood

LEMMA BecomesGood ==
  ASSUME NEW c, AllFine(requests, c), NEW r, NEW s, Good(s, c), Becomes(r, s)
  PROVE  /\ AllFine(requests', c)
         /\ BagToSet(requests') \subseteq BagToSet(requests) \cup {s} /\ s \in BagToSet(requests')
         /\ \A e \in BagToSet(requests) : e # r => e \in BagToSet(requests')
<1>1. requests' = Adding({s}, Removing(r, requests)) BY DEF Becomes
<1>2. AllFine(Removing(r, requests), c) BY RemoveGood
<1>3. QED BY <1>1, <1>2, RemoveGood, AddGood
-----------------------------------------------------------------------------
(* The inductive invariant *)

BackendOK ==
  /\ registry \in [Ids -> {"absent", "on", "off", "gone"}]
  /\ presented \in [Ids -> Keys] /\ pending \in [Ids -> Keys \cup {None}]
  /\ known \in [Ids -> SUBSET Keys] /\ passwords \in [Ids -> Ids \cup {None}]
  /\ keyPairs \subseteq Ids \X Ids
  /\ faults \in Nat

(* The editor of the password section only ever holds what was typed for the *)
(* server whose dialog is open.                                              *)
PageOK ==
  /\ servers \in [Ids -> {"absent", "on", "off"}]
  /\ listState \in [loading : BOOLEAN, error : BOOLEAN]
  /\ dialog \in Ids \cup {None, "add"}
  /\ DOMAIN wizard = {"step", "active", "result", "saving", "trusting"}
  /\ wizard.active \in Ids \cup {None}
  /\ DOMAIN editor = {"typed", "phase"} /\ editor.typed \in {None, dialog}
  /\ DOMAIN removal = {"target", "busy"} /\ removal.target \in Ids \cup {None}

SettingsInv ==
  BackendOK /\ PageOK /\ AllFine(requests, consented)

LEMMA InitInv == Init => SettingsInv
<1> SUFFICES ASSUME Init PROVE SettingsInv OBVIOUS
<1>1. BackendOK
  <2>1. \A i \in Ids : (CHOOSE k \in Keys : TRUE) \in Keys BY SettingsAssumption
  <2>2. keyPairs \subseteq Ids \X Ids BY DEF Init
  <2>3. registry \in [Ids -> {"absent", "on", "off", "gone"}] BY DEF Init
  <2>4. QED BY <2>1, <2>2, <2>3 DEF Init, BackendOK
<1>2. PageOK BY DEF Init, PageOK, Form, NoEditor
<1>3. IsABag(requests) /\ BagToSet(requests) = {} BY EmptyBagFact DEF Init
<1>4. QED BY <1>1, <1>2, <1>3 DEF SettingsInv, AllFine

(* The backend's types and what may have been stored do not depend on the    *)
(* page.                                                                     *)
LEMMA BackendKept ==
  ASSUME BackendOK, UNCHANGED backend, faults' \in Nat
  PROVE  BackendOK'
BY DEF BackendOK, backend

-----------------------------------------------------------------------------
(* The steps of the user *)

UserStep ==
  \/ OpenAdd \/ onClose \/ CloseRemove \/ loadServers \/ removeServer
  \/ runTest \/ BackToForm \/ trustAndRetry
  \/ typePassword \/ CancelPassword \/ save \/ clear \/ RetryAuth \/ RetryPairs
  \/ \E enabled \in {"on", "off"} : submit(enabled) \/ \E i \in Ids : toggleEnabled(i, enabled)
  \/ \E i \in Ids :
       \/ OpenEdit(i) \/ OpenRemove(i) \/ FleetRemove(i)
       \/ \E action \in DirectActions : run(i, action)
       \/ \E yes \in BOOLEAN : ConfirmRevoke(i, yes)

(* They leave the backend alone and add to the confirmed prompts at most. *)
LEMMA UserFrame ==
  ASSUME UserStep
  PROVE  UNCHANGED <<backend, faults>> /\ consented \subseteq consented'
<1>1. CASE OpenAdd \/ onClose \/ CloseRemove \/ loadServers \/ removeServer
  BY <1>1 DEF OpenAdd, onClose, CloseRemove, loadServers, removeServer, Change
<1>2. CASE runTest \/ BackToForm \/ trustAndRetry
  BY <1>2 DEF runTest, BackToForm, trustAndRetry
<1>3. CASE typePassword \/ CancelPassword \/ save \/ clear \/ RetryAuth \/ RetryPairs
  BY <1>3 DEF typePassword, CancelPassword, save, clear, RetryAuth, RetryPairs
<1>4. ASSUME NEW enabled, NEW i \in Ids, toggleEnabled(i, enabled)
      PROVE  UNCHANGED <<backend, faults>> /\ consented \subseteq consented'
  BY <1>4 DEF toggleEnabled, Change
<1>5. ASSUME NEW enabled, submit(enabled)
      PROVE  UNCHANGED <<backend, faults>> /\ consented \subseteq consented'
  BY <1>5 DEF submit, Change
<1>6. ASSUME NEW i \in Ids, OpenEdit(i) \/ OpenRemove(i) \/ FleetRemove(i)
      PROVE  UNCHANGED <<backend, faults>> /\ consented \subseteq consented'
  BY <1>6 DEF OpenEdit, OpenRemove, FleetRemove, Change
<1>7. ASSUME NEW i \in Ids, NEW action, run(i, action)
      PROVE  UNCHANGED <<backend, faults>> /\ consented \subseteq consented'
  BY <1>7 DEF run
<1>8. ASSUME NEW i \in Ids, NEW yes, ConfirmRevoke(i, yes)
      PROVE  UNCHANGED <<backend, faults>> /\ consented \subseteq consented'
  BY <1>8 DEF ConfirmRevoke
<1>9. QED
  BY <1>1, <1>2, <1>3, <1>4, <1>5, <1>6, <1>7, <1>8, Zenon DEF UserStep

LEMMA ChangeGood ==
  ASSUME AllFine(requests, consented), NEW op \in RegistryChanges, NEW i \in Ids,
         NEW enabled \in {"on", "off"}, Change(op, i, enabled)
  PROVE  AllFine(requests', consented')
<1>1. Good([Request(op, i) EXCEPT !.arg = enabled], consented)
  BY ArgGood DEF RegistryChanges, DirectActions
<1>2. AllFine(requests', consented) BY <1>1, SendGood DEF Change
<1>3. QED BY <1>2 DEF Change

LEMMA UserGood ==
  ASSUME SettingsInv, UserStep
  PROVE  AllFine(requests', consented')
<1>0. AllFine(requests, consented) /\ PageOK BY DEF SettingsInv
<1> DEFINE Goal == AllFine(requests', consented')
<1>1. ASSUME UNCHANGED <<requests, consented>> PROVE Goal BY <1>0, <1>1
<1>2. CASE OpenAdd \/ CloseRemove \/ typePassword \/ CancelPassword
  BY <1>1, <1>2 DEF OpenAdd, CloseRemove, typePassword, CancelPassword
<1>3. CASE onClose BY <1>0, <1>3, UnmountGood DEF onClose
<1>4. CASE loadServers BY <1>0, <1>4, ListGood, SendGood DEF loadServers, List
<1>5. CASE removeServer
  <2>1. removal.target \in Ids BY <1>0, <1>5 DEF removeServer, PageOK
  <2>2. QED BY <1>0, <1>5, <2>1, ChangeGood DEF removeServer, RegistryChanges
<1>6. CASE runTest
  <2>1. wizard.active \in Ids BY <1>0, <1>6 DEF runTest, PageOK
  <2>2. Good(Request("test", wizard.active), consented) BY <2>1, PlainGood DEF Plain
  <2>3. AllFine(Adding({Request("test", wizard.active)}, requests), consented)
    BY <1>0, <2>2, AddGood
  <2>4. QED BY <1>6, <2>3, UnmountGood DEF runTest
<1>7. CASE BackToForm
  <2>1. CASE dialog = "add" BY <1>1, <1>7, <2>1 DEF BackToForm
  <2>2. CASE dialog # "add"
    <3>1. dialog \in Ids BY <1>0, <1>7, <2>2 DEF BackToForm, PageOK
    <3>2. Good(Request("pairs", dialog), consented) BY <3>1, PlainGood DEF Plain
    <3>3. QED BY <1>0, <1>7, <2>2, <3>2, AddGood DEF BackToForm, Mounting
  <2>3. QED BY <2>1, <2>2
<1>8. CASE trustAndRetry
  <2>1. wizard.active \in Ids BY <1>0, <1>8 DEF trustAndRetry, PageOK
  <2>2. <<wizard.result[1], wizard.result[3]>> \in consented' /\ consented \subseteq consented'
    BY <1>8 DEF trustAndRetry
  <2>3. Good([Request("trust", wizard.active) EXCEPT !.arg = wizard.result[1],
                !.key = wizard.result[3]], consented')
    BY <2>1, <2>2, TrustGood
  <2>4. AllFine(requests, consented') BY <1>0, <2>2, GoodMonotone
  <2>5. QED BY <1>8, <2>3, <2>4, AddGood DEF trustAndRetry
<1>9. CASE save
  <2>1. dialog \in Ids /\ editor.typed = dialog BY <1>0, <1>9 DEF save, Mounted, PageOK
  <2>2. Good([Request("setPassword", dialog) EXCEPT !.arg = editor.typed], consented)
    BY <2>1, ArgGood DEF DirectActions
  <2>3. QED BY <1>0, <1>9, <2>2, AddGood DEF save
<1>10. CASE clear
  <2>1. Good(Request("deletePassword", dialog), consented)
    BY <1>10, PlainGood DEF clear, Mounted, Plain
  <2>2. QED BY <1>0, <1>10, <2>1, AddGood DEF clear
<1>11. CASE RetryAuth
  <2>1. Good(Request("auth", dialog), consented)
    BY <1>11, PlainGood DEF RetryAuth, Mounted, Plain
  <2>2. QED BY <1>0, <1>11, <2>1, AddGood DEF RetryAuth
<1>12. CASE RetryPairs
  <2>1. Good(Request("pairs", dialog), consented)
    BY <1>12, PlainGood DEF RetryPairs, Mounted, Plain
  <2>2. QED BY <1>0, <1>12, <2>1, AddGood DEF RetryPairs, Mounting
<1>13. ASSUME NEW enabled \in {"on", "off"}, submit(enabled) PROVE Goal
  <2>1. ASSUME NEW i \in Ids, Change("create", i, enabled) PROVE Goal
    BY <1>0, <2>1, ChangeGood DEF RegistryChanges
  <2>2. CASE dialog # "add" /\ Change("patch", dialog, enabled)
    <3>1. dialog \in Ids BY <1>0, <1>13, <2>2 DEF submit, PageOK
    <3>2. QED BY <1>0, <2>2, <3>1, ChangeGood DEF RegistryChanges
  <2>3. QED BY <1>13, <2>1, <2>2, Zenon DEF submit
<1>14. ASSUME NEW enabled \in {"on", "off"}, NEW i \in Ids, toggleEnabled(i, enabled) PROVE Goal
  BY <1>0, <1>14, ChangeGood DEF toggleEnabled, RegistryChanges
<1>15. ASSUME NEW i \in Ids, OpenEdit(i) PROVE Goal
  <2>1. Good(Request("auth", i), consented) /\ Good(Request("pairs", i), consented)
    BY PlainGood DEF Plain
  <2>2. AllFine(Adding({Request("auth", i)}, requests), consented)
    BY <1>0, <2>1, AddGood
  <2>3. QED BY <1>15, <2>1, <2>2, AddGood DEF OpenEdit, Mounting
<1>16. ASSUME NEW i \in Ids, OpenRemove(i) PROVE Goal BY <1>1, <1>16 DEF OpenRemove
<1>17. ASSUME NEW i \in Ids, FleetRemove(i) PROVE Goal
  BY <1>0, <1>17, ChangeGood DEF FleetRemove, RegistryChanges
<1>18. ASSUME NEW i \in Ids, NEW action \in DirectActions, run(i, action) PROVE Goal
  <2>1. Good([Request(action, i) EXCEPT !.arg = dialog], consented)
    BY <1>18, ArgGood DEF run, Mounted, DirectActions
  <2>2. QED BY <1>0, <1>18, <2>1, AddGood DEF run
<1>19. ASSUME NEW i \in Ids, NEW yes \in BOOLEAN, ConfirmRevoke(i, yes) PROVE Goal
  BY <1>1, <1>19 DEF ConfirmRevoke
<1>20. QED
  BY <1>2, <1>3, <1>4, <1>5, <1>6, <1>7, <1>8, <1>9, <1>10, <1>11, <1>12, <1>13, <1>14, <1>15,
     <1>16, <1>17, <1>18, <1>19, Zenon DEF UserStep

LEMMA UserPage ==
  ASSUME PageOK, UserStep
  PROVE  PageOK'
<1> USE DEF list, page
<1>1. ASSUME UNCHANGED <<list, dialog, wizard, editor, removal>> PROVE PageOK'
  BY <1>1 DEF PageOK
<1>2. CASE OpenAdd BY <1>2 DEF OpenAdd, PageOK, Form, NoEditor
<1>3. CASE onClose BY <1>3 DEF onClose, Closed, PageOK, Form, NoEditor
<1>4. CASE CloseRemove BY <1>4 DEF CloseRemove, PageOK
<1>5. CASE loadServers BY <1>5 DEF loadServers, Reloading, PageOK
<1>6. CASE removeServer BY <1>6 DEF removeServer, Change, PageOK
<1>7. CASE runTest BY <1>7 DEF runTest, Testing, NoEditor, PageOK
<1>8. CASE BackToForm BY <1>8 DEF BackToForm, PageOK
<1>9. CASE trustAndRetry BY <1>9 DEF trustAndRetry, PageOK
<1>10. CASE typePassword BY <1>10 DEF typePassword, PageOK
<1>11. CASE CancelPassword BY <1>11 DEF CancelPassword, PageOK
<1>12. CASE save BY <1>12 DEF save, PageOK
<1>13. CASE clear BY <1>13 DEF clear, PageOK
<1>14. CASE RetryAuth \/ RetryPairs BY <1>1, <1>14 DEF RetryAuth, RetryPairs
<1>15. ASSUME NEW enabled \in {"on", "off"}, submit(enabled) PROVE PageOK'
  <2>1. UNCHANGED <<list, dialog, editor, removal>> BY <1>15 DEF submit, Change
  <2>2. wizard' = [wizard EXCEPT !.saving = TRUE] BY <1>15 DEF submit
  <2>3. QED BY <2>1, <2>2 DEF PageOK
<1>16. ASSUME NEW enabled, NEW i \in Ids, toggleEnabled(i, enabled) PROVE PageOK'
  BY <1>1, <1>16 DEF toggleEnabled, Change
<1>17. ASSUME NEW i \in Ids, OpenEdit(i) PROVE PageOK'
  BY <1>17 DEF OpenEdit, PageOK, Form, NoEditor
<1>18. ASSUME NEW i \in Ids, OpenRemove(i) PROVE PageOK' BY <1>18 DEF OpenRemove, PageOK
<1>19. ASSUME NEW i \in Ids, FleetRemove(i) PROVE PageOK'
  BY <1>1, <1>19 DEF FleetRemove, Change
<1>20. ASSUME NEW i \in Ids, NEW action, run(i, action) PROVE PageOK' BY <1>1, <1>20 DEF run
<1>21. ASSUME NEW i \in Ids, NEW yes, ConfirmRevoke(i, yes) PROVE PageOK'
  BY <1>1, <1>21 DEF ConfirmRevoke
<1>22. QED
  BY <1>2, <1>3, <1>4, <1>5, <1>6, <1>7, <1>8, <1>9, <1>10, <1>11, <1>12, <1>13, <1>14, <1>15,
     <1>16, <1>17, <1>18, <1>19, <1>20, <1>21, Zenon DEF UserStep

-----------------------------------------------------------------------------
(* The backend serves *)

ServeStep(r) ==
  \/ ServeChange(r) \/ test_connection(r) \/ trust_host_key(r)
  \/ ServePassword(r) \/ ServeRead(r) \/ ServeDirect(r)

(* What a list that is served now answers. *)
Listed == [i \in Ids |-> IF Exists(i) THEN registry[i] ELSE "absent"]

(* The answer is still the request it answers, and that of a list has the    *)
(* registry.                                                                 *)
Answers(s, r) ==
  /\ s.op = r.op /\ s.id = r.id /\ s.arg = r.arg /\ s.here = r.here /\ s.crossed = r.crossed
  /\ r.op = "list" => s.rows = Listed

LEMMA AnswerAnswers ==
  ASSUME NEW r, DOMAIN r = Fields, NEW kind, NEW x
  PROVE  /\ r.op # "list" => Answers(Answer(r, kind), r)
         /\ r.op # "list" => Answers([Answer(r, kind) EXCEPT !.key = x], r)
         /\ r.op # "list" => Answers([Answer(r, kind) EXCEPT !.rows = x], r)
         /\ Answers([Answer(r, kind) EXCEPT !.rows = Listed], r)
BY DEF Answers, Answer, Fields

LEMMA ServeAnswer ==
  ASSUME BackendOK, AllFine(requests, consented), NEW r \in BagToSet(requests), ServeStep(r)
  PROVE  \E s : Good(s, consented) /\ Answers(s, r) /\ Becomes(r, s)
<1>0. Good(r, consented) /\ DOMAIN r = Fields BY DEF AllFine, Good
<1> DEFINE Goal == \E s : Good(s, consented) /\ Answers(s, r) /\ Becomes(r, s)
<1>1. ASSUME NEW kind, r.op # "list", Becomes(r, Answer(r, kind)) PROVE Goal
  BY <1>0, <1>1, AnswerGood, AnswerAnswers
<1>2. CASE ServeChange(r) BY <1>1, <1>2 DEF ServeChange, RegistryChanges
<1>3. CASE test_connection(r)
  <2>0. r.op = "test" BY <1>3 DEF test_connection
  <2>1. CASE Becomes(r, [Answer(r, "hostkey") EXCEPT !.key = presented[r.id]])
    <3> DEFINE s == [Answer(r, "hostkey") EXCEPT !.key = presented[r.id]]
    <3>1. Good(s, consented) /\ Answers(s, r) BY <1>0, <2>0, AnswerGood, AnswerAnswers
    <3> HIDE DEF s
    <3>2. QED BY <2>1, <3>1 DEF s
  <2>2. ASSUME NEW kind, Becomes(r, Answer(r, kind)) PROVE Goal
    BY <1>1, <2>0, <2>2
  <2>3. QED BY <1>3, <2>1, <2>2, Zenon DEF test_connection
<1>4. CASE trust_host_key(r) BY <1>1, <1>4 DEF trust_host_key
<1>5. CASE ServePassword(r) BY <1>1, <1>5 DEF ServePassword, PasswordActions
<1>6. CASE ServeRead(r)
  <2>1. CASE r.op = "list"
    <3>1. Listed \in [Ids -> {"absent", "on", "off"}] BY DEF Listed, Exists, BackendOK
    <3>2. Becomes(r, [Answer(r, "ok") EXCEPT !.rows = Listed])
      BY <1>6, <2>1 DEF ServeRead, Listed
    <3>3. Good([Answer(r, "ok") EXCEPT !.rows = Listed], consented)
      BY <1>0, <2>1, <3>1, AnswerGood
    <3>4. Answers([Answer(r, "ok") EXCEPT !.rows = Listed], r) BY <1>0, AnswerAnswers
    <3>5. QED BY <3>2, <3>3, <3>4
  <2>2. CASE r.op = "auth"
    <3>1. r.op # "list" BY <2>2
    <3>2. Becomes(r, Answer(r, IF passwords[r.id] = None THEN "unset" ELSE "set"))
      BY <1>6, <2>2 DEF ServeRead
    <3>3. QED BY <1>1, <3>1, <3>2
  <2>3. CASE r.op = "pairs"
    <3> DEFINE rows == [i \in Ids |-> IF <<i, r.id>> \in keyPairs THEN "keyReady" ELSE "unlisted"]
    <3>1. Becomes(r, [Answer(r, "ok") EXCEPT !.rows = rows]) BY <1>6, <2>3 DEF ServeRead
    <3> HIDE DEF rows
    <3>2. Good([Answer(r, "ok") EXCEPT !.rows = rows], consented) BY <1>0, <2>3, AnswerGood
    <3>3. Answers([Answer(r, "ok") EXCEPT !.rows = rows], r) BY <1>0, <2>3, AnswerAnswers
    <3>4. QED BY <3>1, <3>2, <3>3
  <2>4. QED BY <1>6, <2>1, <2>2, <2>3 DEF ServeRead
<1>7. CASE ServeDirect(r)
  <2>1. r.op # "list" BY <1>7 DEF ServeDirect
  <2>2. \E kind : Becomes(r, Answer(r, kind)) BY <1>7 DEF ServeDirect
  <2>3. QED BY <1>1, <2>1, <2>2
<1>8. QED BY <1>2, <1>3, <1>4, <1>5, <1>6, <1>7 DEF ServeStep

LEMMA ServeGood ==
  ASSUME BackendOK, AllFine(requests, consented), NEW r \in BagToSet(requests), ServeStep(r)
  PROVE  AllFine(requests', consented)
<1>1. PICK s : Good(s, consented) /\ Answers(s, r) /\ Becomes(r, s) BY ServeAnswer
<1>2. QED BY <1>1, BecomesGood

LEMMA RetiredType ==
  ASSUME BackendOK, NEW i
  PROVE  Retired(i) \in [Ids -> Keys \cup {None}]
BY DEF Retired, BackendOK

(* What a registry change may do to the registry and to the passwords. *)
LEMMA ChangeEffect ==
  ASSUME BackendOK, NEW r, Good(r, consented), ServeChange(r)
  PROVE  /\ r.id \in Ids
         /\ \E to \in {"on", "off", "gone"} :
              /\ registry' = [registry EXCEPT ![r.id] = to]
              /\ \/ to # "gone" /\ UNCHANGED <<passwords, faults>>
                 \/ to = "gone" /\ passwords' = [passwords EXCEPT ![r.id] = None] /\ UNCHANGED faults
                 \/ /\ to = "gone" /\ faults' = faults + 1
                    /\ passwords' \in {passwords, [passwords EXCEPT ![r.id] = None]}
         /\ keyPairs' \subseteq keyPairs
         /\ pending' \in {pending, Retired(r.id)} /\ UNCHANGED <<presented, known>>
<1>1. r.op \in RegistryChanges BY DEF ServeChange
<1>2. r.id \in Ids BY <1>1 DEF Good, RegistryChanges
<1> DEFINE to == IF r.op \in {"delete", "fleetDelete"} THEN "gone" ELSE r.arg
<1>3. to \in {"on", "off", "gone"} BY <1>1 DEF Good, RegistryChanges
<1>4. /\ registry' = [registry EXCEPT ![r.id] = to]
      /\ pending' = IF to = "on" THEN pending ELSE Retired(r.id)
      /\ \/ to # "gone" /\ UNCHANGED <<passwords, keyPairs, faults>>
         \/ /\ to = "gone" /\ passwords' = [passwords EXCEPT ![r.id] = None]
            /\ keyPairs' = {p \in keyPairs : r.id \notin {p[1], p[2]}} /\ UNCHANGED faults
         \/ /\ to = "gone" /\ Fault
            /\ passwords' \in {passwords, [passwords EXCEPT ![r.id] = None]}
            /\ keyPairs' \in {keyPairs, {p \in keyPairs : r.id \notin {p[1], p[2]}}}
      /\ UNCHANGED <<presented, known>>
  BY Zenon DEF ServeChange
<1> HIDE DEF to
<1>5. keyPairs' \subseteq keyPairs BY <1>4
<1>6. pending' \in {pending, Retired(r.id)} BY <1>4
<1>7. /\ registry' = [registry EXCEPT ![r.id] = to]
      /\ \/ to # "gone" /\ UNCHANGED <<passwords, faults>>
         \/ to = "gone" /\ passwords' = [passwords EXCEPT ![r.id] = None] /\ UNCHANGED faults
         \/ /\ to = "gone" /\ faults' = faults + 1
            /\ passwords' \in {passwords, [passwords EXCEPT ![r.id] = None]}
  BY <1>4 DEF Fault
<1>8. QED BY <1>2, <1>3, <1>4, <1>5, <1>6, <1>7

LEMMA ServeBackend ==
  ASSUME BackendOK, NEW r, Good(r, consented), ServeStep(r)
  PROVE  BackendOK'
<1>1. CASE ServeChange(r)
  <2>1. /\ r.id \in Ids /\ keyPairs' \subseteq keyPairs
        /\ pending' \in {pending, Retired(r.id)} /\ UNCHANGED <<presented, known>>
    BY <1>1, ChangeEffect
  <2>2. PICK to \in {"on", "off", "gone"} :
           /\ registry' = [registry EXCEPT ![r.id] = to]
           /\ \/ to # "gone" /\ UNCHANGED <<passwords, faults>>
              \/ to = "gone" /\ passwords' = [passwords EXCEPT ![r.id] = None] /\ UNCHANGED faults
              \/ /\ to = "gone" /\ faults' = faults + 1
                 /\ passwords' \in {passwords, [passwords EXCEPT ![r.id] = None]}
    BY <1>1, ChangeEffect
  <2>3. registry' \in [Ids -> {"absent", "on", "off", "gone"}] BY <2>2 DEF BackendOK
  <2>4. passwords' \in [Ids -> Ids \cup {None}] BY <2>2 DEF BackendOK
  <2>5. faults' \in Nat BY <2>2 DEF BackendOK
  <2>6. pending' \in [Ids -> Keys \cup {None}] BY <2>1, RetiredType DEF BackendOK
  <2>7. QED BY <2>1, <2>3, <2>4, <2>5, <2>6 DEF BackendOK
<1>2. CASE test_connection(r)
  <2>1. UNCHANGED <<registry, presented, known, passwords, keyPairs, faults>>
    BY <1>2 DEF test_connection
  <2>2. r.id \in Ids BY <1>2 DEF test_connection, Good
  <2>3. pending' \in {pending, [pending EXCEPT ![r.id] = presented[r.id]], Retired(r.id)}
    BY <1>2 DEF test_connection
  <2>4. pending' \in [Ids -> Keys \cup {None}] BY <2>2, <2>3, RetiredType DEF BackendOK
  <2>5. QED BY <2>1, <2>4 DEF BackendOK
<1>3. CASE trust_host_key(r)
  <2>1. r.id \in Ids BY <1>3 DEF trust_host_key, Good
  <2>2. known' \in [Ids -> SUBSET Keys]
    <3>1. CASE pending[r.id] # None /\ r.arg = r.id /\ r.key = pending[r.id]
      <4>1. r.key \in Keys BY <2>1, <3>1 DEF BackendOK
      <4>2. known' = [known EXCEPT ![r.id] = @ \cup {r.key}] BY <1>3, <3>1 DEF trust_host_key
      <4>3. QED BY <2>1, <4>1, <4>2 DEF BackendOK
    <3>2. CASE ~(pending[r.id] # None /\ r.arg = r.id /\ r.key = pending[r.id])
      BY <1>3, <3>2 DEF trust_host_key, BackendOK
    <3>3. QED BY <3>1, <3>2
  <2>3. pending' \in {pending, Retired(r.id)} BY <1>3 DEF trust_host_key
  <2>4. UNCHANGED <<registry, presented, passwords, keyPairs, faults>>
    BY <1>3 DEF trust_host_key
  <2>5. QED BY <2>2, <2>3, <2>4, RetiredType DEF BackendOK
<1>4. CASE ServePassword(r)
  <2>1. r.id \in Ids /\ r.arg \in Ids \cup {None}
    BY <1>4 DEF ServePassword, PasswordActions, Good
  <2>2. passwords' \in [Ids -> Ids \cup {None}] BY <1>4, <2>1 DEF ServePassword, BackendOK
  <2>3. QED BY <1>4, <2>2, RetiredType DEF ServePassword, BackendOK
<1>5. CASE ServeRead(r) BY <1>5 DEF ServeRead, backend, BackendOK
<1>6. CASE ServeDirect(r)
  <2>1. <<r.id, r.arg>> \in Ids \X Ids BY <1>6 DEF ServeDirect, Good, DirectActions
  <2>2. keyPairs' \subseteq Ids \X Ids
    <3>1. keyPairs' \in {keyPairs, keyPairs \cup {<<r.id, r.arg>>}, keyPairs \ {<<r.id, r.arg>>}}
      BY <1>6 DEF ServeDirect
    <3>2. QED BY <2>1, <3>1 DEF BackendOK
  <2>3. QED BY <1>6, <2>2 DEF ServeDirect, BackendOK
<1>7. QED BY <1>1, <1>2, <1>3, <1>4, <1>5, <1>6 DEF ServeStep

-----------------------------------------------------------------------------
(* Answers and failures *)

LEMMA ArriveGood ==
  ASSUME AllFine(requests, consented), NEW r \in BagToSet(requests), Arrives(r)
  PROVE  AllFine(requests', consented)
<1>0. Good(r, consented) BY DEF AllFine
<1> DEFINE rest == Removing(r, requests)
<1>1. AllFine(rest, consented) BY RemoveGood
<1> HIDE DEF rest
<1>2. AllFine(Refreshing(rest), consented) BY <1>1, RefreshGood
<1>3. CASE CreateArrives(r)
  <2>1. Good(Request("test", r.id), consented) BY <1>0, <1>3, PlainGood DEF CreateArrives, Good, Plain
  <2>2. AllFine(Unmounting(Refreshing(rest)), consented) BY <1>2, UnmountGood
  <2>3. requests' = Adding({Request("test", r.id)}, Unmounting(Refreshing(rest)))
    BY <1>3 DEF CreateArrives, rest
  <2>4. QED BY <2>1, <2>2, <2>3, AddGood
<1>4. CASE PatchArrives(r) BY <1>2, <1>4, UnmountGood DEF PatchArrives, rest
<1>5. CASE RemovalArrives(r) BY <1>2, <1>5 DEF RemovalArrives, rest
<1>6. CASE ListArrives(r) BY <1>1, <1>6 DEF ListArrives, rest
<1>7. CASE TestArrives(r) BY <1>1, <1>7, UnmountGood DEF TestArrives, rest
<1>8. CASE TrustArrives(r)
  <2>1. Good([Request("test", r.id) EXCEPT !.arg = "chain"], consented)
    <3>1. r.id \in Ids BY <1>0, <1>8 DEF TrustArrives, Good
    <3>2. QED BY <3>1, ArgGood DEF DirectActions
  <2>2. AllFine(Adding({[Request("test", r.id) EXCEPT !.arg = "chain"]}, rest), consented)
    BY <1>1, <2>1, AddGood
  <2>3. QED BY <1>8, <2>2, UnmountGood DEF TrustArrives, rest
<1>9. CASE PasswordArrives(r)
  <2>1. Good(Request("auth", r.id), consented)
    BY <1>0, <1>9, PlainGood DEF PasswordArrives, PasswordActions, Good, Plain
  <2>2. QED BY <1>1, <1>9, <2>1, AddGood DEF PasswordArrives, rest
<1>10. CASE AuthArrives(r) BY <1>1, <1>10 DEF AuthArrives, rest
<1>11. CASE PairsArrive(r) BY <1>1, <1>11 DEF PairsArrive, rest
<1>12. CASE DirectArrives(r) BY <1>1, <1>12 DEF DirectArrives, rest
<1>13. QED
  BY <1>3, <1>4, <1>5, <1>6, <1>7, <1>8, <1>9, <1>10, <1>11, <1>12 DEF Arrives

(* Consent is given by trustAndRetry only. *)
LEMMA ArriveFrame ==
  ASSUME NEW r, Arrives(r)
  PROVE  UNCHANGED <<backend, faults, consented>>
BY DEF Arrives, CreateArrives, PatchArrives, RemovalArrives, ListArrives, TestArrives,
       TrustArrives, PasswordArrives, AuthArrives, PairsArrive, DirectArrives

LEMMA ArrivePage ==
  ASSUME PageOK, NEW r, Good(r, consented), Arrives(r)
  PROVE  PageOK'
<1> USE DEF list, page
<1>1. ASSUME UNCHANGED <<list, dialog, wizard, editor, removal>> PROVE PageOK'
  BY <1>1 DEF PageOK
<1>2. CASE CreateArrives(r)
  <2>1. r.id \in Ids BY <1>2 DEF CreateArrives, Good
  <2>2. QED BY <1>2, <2>1 DEF CreateArrives, Landing, Testing, NoEditor, Reloading, PageOK
<1>3. CASE PatchArrives(r)
  BY <1>3 DEF PatchArrives, Closed, Form, NoEditor, Reloading, PageOK
<1>4. CASE RemovalArrives(r) BY <1>4 DEF RemovalArrives, Reloading, PageOK
<1>5. CASE ListArrives(r)
  <2>1. r.rows \in [Ids -> {"absent", "on", "off"}] BY <1>5 DEF ListArrives, Arrives, Good
  <2>2. QED BY <1>5, <2>1 DEF ListArrives, PageOK
<1>6. CASE TestArrives(r) BY <1>6 DEF TestArrives, Landing, NoEditor, PageOK
<1>7. CASE TrustArrives(r) BY <1>7 DEF TrustArrives, Landing, Testing, NoEditor, PageOK
<1>8. CASE PasswordArrives(r) BY <1>8 DEF PasswordArrives, NoEditor, PageOK
<1>9. CASE AuthArrives(r) \/ PairsArrive(r) \/ DirectArrives(r)
  BY <1>1, <1>9 DEF AuthArrives, PairsArrive, DirectArrives
<1>10. QED BY <1>2, <1>3, <1>4, <1>5, <1>6, <1>7, <1>8, <1>9 DEF Arrives

LEMMA FailGood ==
  ASSUME AllFine(requests, consented), NEW r, Fails(r)
  PROVE  AllFine(requests', consented')
<1>1. AllFine(Removing(r, requests), consented) BY RemoveGood
<1>2. AllFine(Unmounting(Removing(r, requests)), consented) BY <1>1, UnmountGood
<1>3. QED BY <1>1, <1>2 DEF Fails

LEMMA FailFrame ==
  ASSUME BackendOK, NEW r, Fails(r)
  PROVE  UNCHANGED <<backend, consented>> /\ faults' \in {faults, faults + 1}
BY DEF Fails, Fault

LEMMA FailPage ==
  ASSUME PageOK, NEW r, Fails(r)
  PROVE  PageOK'
<1>1. UNCHANGED <<servers, dialog>> BY DEF Fails
<1>2. listState' \in [loading : BOOLEAN, error : BOOLEAN] BY DEF Fails, PageOK
<1>3. wizard' \in {wizard, [wizard EXCEPT !.saving = FALSE], [wizard EXCEPT !.trusting = FALSE],
                   [wizard EXCEPT !.step = "result", !.result = <<r.id, "error", None>>,
                                  !.trusting = @ /\ r.arg # "chain"]}
  <2>1. CASE r.op \in {"create", "patch"} BY <2>1 DEF Fails, Landing
  <2>2. CASE r.op = "test" BY <2>2 DEF Fails, Landing
  <2>3. CASE r.op = "trust" BY <2>3 DEF Fails, Landing
  <2>4. CASE r.op \notin {"create", "patch", "test", "trust"} BY <2>4 DEF Fails
  <2>5. QED BY <2>1, <2>2, <2>3, <2>4
<1>4. editor' \in {editor, NoEditor, [editor EXCEPT !.phase = "idle"]}
  <2>1. CASE r.op = "test" BY <2>1 DEF Fails
  <2>2. CASE r.op # "test" /\ r.op \in PasswordActions /\ r.here BY <2>2 DEF Fails
  <2>3. CASE r.op # "test" /\ ~(r.op \in PasswordActions /\ r.here) BY <2>3 DEF Fails
  <2>4. QED BY <2>1, <2>2, <2>3
<1>5. removal' \in {removal, [removal EXCEPT !.busy = FALSE]} BY DEF Fails
<1>6. /\ DOMAIN wizard' = {"step", "active", "result", "saving", "trusting"}
      /\ wizard'.active \in Ids \cup {None}
  BY <1>3 DEF PageOK
<1>7. DOMAIN editor' = {"typed", "phase"} /\ editor'.typed \in {None, dialog}
  BY <1>4 DEF PageOK, NoEditor
<1>8. QED BY <1>1, <1>2, <1>5, <1>6, <1>7 DEF PageOK

-----------------------------------------------------------------------------
(* The invariant *)

(* Every step is one of these. *)
LEMMA StepCases ==
  ASSUME [Next]_vars
  PROVE  \/ UserStep
         \/ \E i \in Ids : OthersConnect(i) \/ Rekeyed(i)
         \/ \E r \in BagToSet(requests) : Serve(r) \/ Arrives(r) \/ Fails(r)
         \/ UNCHANGED vars
BY Zenon DEF Next, UserStep, InFlight

LEMMA NextInv == SettingsInv /\ [Next]_vars => SettingsInv'
<1> SUFFICES ASSUME SettingsInv, [Next]_vars PROVE SettingsInv'
  OBVIOUS
<1>0. BackendOK /\ PageOK /\ AllFine(requests, consented) BY DEF SettingsInv
<1>1. CASE UserStep
  <2>1. UNCHANGED <<backend, faults>> BY <1>1, UserFrame
  <2>2. BackendOK' BY <1>0, <2>1, BackendKept DEF BackendOK
  <2>3. PageOK' BY <1>0, <1>1, UserPage
  <2>4. AllFine(requests', consented') BY <1>1, UserGood
  <2>5. QED BY <2>2, <2>3, <2>4 DEF SettingsInv, AllFine, BagToSet
<1>2. ASSUME NEW i \in Ids, OthersConnect(i) \/ Rekeyed(i) PROVE SettingsInv'
  <2>1. UNCHANGED <<requests, list, page, consented>> BY <1>2 DEF OthersConnect, Rekeyed
  <2>2. BackendOK' BY <1>0, <1>2 DEF OthersConnect, Rekeyed, Fault, BackendOK
  <2>3. PageOK' BY <1>0, <2>1 DEF PageOK, list, page
  <2>4. QED BY <1>0, <2>1, <2>2, <2>3 DEF SettingsInv, AllFine, BagToSet
<1>3. ASSUME NEW r \in BagToSet(requests), Serve(r) PROVE SettingsInv'
  <2>1. Good(r, consented) BY <1>0 DEF AllFine
  <2>2. ServeStep(r) /\ UNCHANGED <<list, page, consented>> BY <1>3 DEF Serve, ServeStep
  <2>3. BackendOK' BY <1>0, <2>1, <2>2, ServeBackend
  <2>4. PageOK' BY <1>0, <2>2 DEF PageOK, list, page
  <2>5. AllFine(requests', consented) BY <1>0, <2>2, ServeGood
  <2>6. QED BY <2>2, <2>3, <2>4, <2>5 DEF SettingsInv, AllFine, BagToSet
<1>4. ASSUME NEW r \in BagToSet(requests), Arrives(r) PROVE SettingsInv'
  <2>1. Good(r, consented) BY <1>0 DEF AllFine
  <2>2. UNCHANGED <<backend, faults, consented>> BY <1>4, ArriveFrame
  <2>3. BackendOK' BY <1>0, <2>2, BackendKept DEF BackendOK
  <2>4. PageOK' BY <1>0, <1>4, <2>1, ArrivePage
  <2>5. AllFine(requests', consented) BY <1>0, <1>4, ArriveGood
  <2>6. QED BY <2>2, <2>3, <2>4, <2>5 DEF SettingsInv, AllFine, BagToSet
<1>5. ASSUME NEW r \in BagToSet(requests), Fails(r) PROVE SettingsInv'
  <2>1. UNCHANGED backend /\ faults' \in {faults, faults + 1} BY <1>0, <1>5, FailFrame
  <2>2. faults' \in Nat BY <1>0, <2>1 DEF BackendOK
  <2>3. BackendOK' BY <1>0, <2>1, <2>2, BackendKept
  <2>4. PageOK' BY <1>0, <1>5, FailPage
  <2>5. AllFine(requests', consented') BY <1>0, <1>5, FailGood
  <2>6. QED BY <2>3, <2>4, <2>5 DEF SettingsInv, AllFine, BagToSet
<1>6. CASE UNCHANGED vars
  BY <1>0, <1>6 DEF vars, backend, list, page, SettingsInv, BackendOK, PageOK, AllFine, BagToSet
<1>7. QED BY <1>1, <1>2, <1>3, <1>4, <1>5, <1>6, StepCases, Zenon

(* The registry, the trust store, the passwords and the list keep their      *)
(* types.                                                                    *)
THEOREM TypeCorrect == Spec => []TypeOK
<1>1. SettingsInv => TypeOK BY DEF SettingsInv, BackendOK, PageOK, TypeOK
<1>2. QED BY <1>1, InitInv, NextInv, PTL DEF Spec

(* A host key is trusted only after the user confirmed a prompt with that    *)
(* host and that key, for every number of servers, keys, dialogs and         *)
(* requests in flight.                                                       *)
THEOREM TrustCorrect == Spec => []TrustWasConfirmed
<1>1. Init => TrustWasConfirmed BY DEF Init, TrustWasConfirmed
<1>2. SettingsInv /\ TrustWasConfirmed /\ [Next]_vars => TrustWasConfirmed'
  <2> SUFFICES ASSUME SettingsInv, TrustWasConfirmed, [Next]_vars PROVE TrustWasConfirmed'
    OBVIOUS
  <2>0. BackendOK /\ AllFine(requests, consented) BY DEF SettingsInv
  <2>1. ASSUME UNCHANGED known, consented \subseteq consented' PROVE TrustWasConfirmed'
    BY <2>1 DEF TrustWasConfirmed
  <2>2. CASE UserStep BY <2>1, <2>2, UserFrame DEF backend
  <2>3. ASSUME NEW i \in Ids, OthersConnect(i) \/ Rekeyed(i) PROVE TrustWasConfirmed'
    BY <2>1, <2>3 DEF OthersConnect, Rekeyed
  <2>4. ASSUME NEW r \in BagToSet(requests), Serve(r) PROVE TrustWasConfirmed'
    <3>1. consented' = consented BY <2>4 DEF Serve
    <3>2. CASE trust_host_key(r)
      <4>1. CASE pending[r.id] # None /\ r.arg = r.id /\ r.key = pending[r.id]
        <5>1. known' = [known EXCEPT ![r.id] = @ \cup {r.key}] /\ r.op = "trust"
          BY <3>2, <4>1 DEF trust_host_key
        <5>2. <<r.id, r.key>> \in consented BY <2>0, <4>1, <5>1 DEF AllFine, Good
        <5>3. QED BY <2>0, <3>1, <5>1, <5>2 DEF TrustWasConfirmed, BackendOK
      <4>2. CASE ~(pending[r.id] # None /\ r.arg = r.id /\ r.key = pending[r.id])
        BY <2>1, <3>1, <3>2, <4>2 DEF trust_host_key
      <4>3. QED BY <4>1, <4>2
    <3>3. CASE ServeChange(r) \/ test_connection(r) \/ ServePassword(r) \/ ServeRead(r) \/ ServeDirect(r)
      BY <2>1, <3>1, <3>3
         DEF ServeChange, test_connection, ServePassword, ServeRead, ServeDirect, backend
    <3>4. QED BY <2>4, <3>2, <3>3 DEF Serve
  <2>5. ASSUME NEW r \in BagToSet(requests), Arrives(r) PROVE TrustWasConfirmed'
    BY <2>1, <2>5, ArriveFrame DEF backend
  <2>6. ASSUME NEW r \in BagToSet(requests), Fails(r) PROVE TrustWasConfirmed'
    BY <2>0, <2>1, <2>6, FailFrame DEF backend
  <2>7. CASE UNCHANGED vars BY <2>1, <2>7 DEF vars, backend
  <2>8. QED BY <2>2, <2>3, <2>4, <2>5, <2>6, <2>7, StepCases, Zenon
<1>3. QED BY <1>1, <1>2, InitInv, NextInv, PTL DEF Spec

(* A stored password belongs to the server it is stored for, and outlives it *)
(* only when the clean-up failed.                                            *)
THEOREM PasswordCorrect == Spec => []PasswordsStayHome
<1>1. Init => PasswordsStayHome BY DEF Init, PasswordsStayHome
<1>2. SettingsInv /\ PasswordsStayHome /\ [Next]_vars => PasswordsStayHome'
  <2> SUFFICES ASSUME SettingsInv, PasswordsStayHome, [Next]_vars PROVE PasswordsStayHome'
    OBVIOUS
  <2>0. BackendOK /\ AllFine(requests, consented) BY DEF SettingsInv
  <2>1. ASSUME UNCHANGED <<registry, passwords>>, faults' \in {faults, faults + 1}
        PROVE  PasswordsStayHome'
    BY <2>0, <2>1 DEF PasswordsStayHome, Exists, BackendOK
  <2>2. CASE UserStep BY <2>1, <2>2, UserFrame DEF backend
  <2>3. ASSUME NEW i \in Ids, OthersConnect(i) \/ Rekeyed(i) PROVE PasswordsStayHome'
    BY <2>1, <2>3 DEF OthersConnect, Rekeyed, Fault
  <2>4. ASSUME NEW r \in BagToSet(requests), Serve(r) PROVE PasswordsStayHome'
    <3>0. Good(r, consented) BY <2>0 DEF AllFine
    <3>1. CASE ServeChange(r)
      <4>1. PICK to \in {"on", "off", "gone"} :
               /\ registry' = [registry EXCEPT ![r.id] = to]
               /\ \/ to # "gone" /\ UNCHANGED <<passwords, faults>>
                  \/ to = "gone" /\ passwords' = [passwords EXCEPT ![r.id] = None] /\ UNCHANGED faults
                  \/ /\ to = "gone" /\ faults' = faults + 1
                     /\ passwords' \in {passwords, [passwords EXCEPT ![r.id] = None]}
        BY <2>0, <3>0, <3>1, ChangeEffect
      <4>2. r.id \in Ids BY <2>0, <3>0, <3>1, ChangeEffect
      <4>3. CASE to # "gone"
        BY <2>0, <4>1, <4>2, <4>3 DEF PasswordsStayHome, Exists, BackendOK
      <4>4. CASE to = "gone" /\ passwords' = [passwords EXCEPT ![r.id] = None] /\ UNCHANGED faults
        BY <2>0, <4>1, <4>2, <4>4 DEF PasswordsStayHome, Exists, BackendOK
      <4>5. CASE /\ to = "gone" /\ faults' = faults + 1
                 /\ passwords' \in {passwords, [passwords EXCEPT ![r.id] = None]}
        <5>1. faults' > 0 BY <2>0, <4>5 DEF BackendOK
        <5>2. QED BY <2>0, <4>5, <5>1 DEF PasswordsStayHome, BackendOK
      <4>6. QED BY <4>1, <4>3, <4>4, <4>5
    <3>2. CASE ServePassword(r)
      <4>1. r.id \in Ids /\ r.arg \in {None, r.id} /\ Exists(r.id)
        BY <3>0, <3>2 DEF ServePassword, PasswordActions, Good
      <4>2. passwords' = [passwords EXCEPT ![r.id] = r.arg] /\ UNCHANGED <<registry, faults>>
        BY <3>2 DEF ServePassword
      <4>3. QED BY <2>0, <4>1, <4>2 DEF PasswordsStayHome, Exists, BackendOK
    <3>3. CASE test_connection(r) \/ trust_host_key(r) \/ ServeRead(r) \/ ServeDirect(r)
      BY <2>1, <3>3 DEF test_connection, trust_host_key, ServeRead, ServeDirect, backend
    <3>4. QED BY <2>4, <3>1, <3>2, <3>3 DEF Serve
  <2>5. ASSUME NEW r \in BagToSet(requests), Arrives(r) PROVE PasswordsStayHome'
    BY <2>1, <2>5, ArriveFrame DEF backend
  <2>6. ASSUME NEW r \in BagToSet(requests), Fails(r) PROVE PasswordsStayHome'
    BY <2>0, <2>1, <2>6, FailFrame DEF backend
  <2>7. CASE UNCHANGED vars BY <2>1, <2>7 DEF vars, backend
  <2>8. QED BY <2>2, <2>3, <2>4, <2>5, <2>6, <2>7, StepCases, Zenon
<1>3. QED BY <1>1, <1>2, InitInv, NextInv, PTL DEF Spec

-----------------------------------------------------------------------------
(* The list of servers. It depends on the changes and on the lists in        *)
(* flight; a list that no change has crossed has no change to miss, and      *)
(* carries the registry as it is once the backend has answered it.           *)

RegistryOps == RegistryChanges \cup {"list"}
Registering(S) == {r \in S : r.op \in RegistryOps}

FreshLists(S, rows) ==
  \A r \in S : r.op = "list" /\ ~r.crossed =>
    /\ \A x \in S : x.op \notin RegistryChanges
    /\ r.served => r.rows = rows

ListInv ==
  /\ FreshLists(InFlight, Listed)
  /\ ~suspect /\ Registering(InFlight) = {} => servers = Listed

LEMMA FreshSubset ==
  ASSUME NEW S, NEW T, NEW rows, FreshLists(S, rows), Registering(T) \subseteq Registering(S)
  PROVE  FreshLists(T, rows)
BY DEF FreshLists, Registering, RegistryOps

LEMMA UnmountRegistering ==
  ASSUME NEW bag, NEW c, AllFine(bag, c)
  PROVE  Registering(BagToSet(Unmounting(bag))) = Registering(BagToSet(bag))
<1>1. \A r \in BagToSet(bag) : DOMAIN r = Fields BY DEF AllFine, Good
<1>2. \A r \in BagToSet(bag) : Orphan(r).op = r.op BY <1>1 DEF Orphan, Fields
<1>3. \A r \in BagToSet(bag) : r.op \in RegistryOps => Orphan(r) = r
  BY DEF Orphan, RegistryOps, RegistryChanges, SectionOps, DirectActions, PasswordActions
<1>4. QED BY <1>2, <1>3, UnmountingSet DEF Registering

LEMMA AddRegistering ==
  ASSUME NEW bag, NEW c, AllFine(bag, c), NEW q, Good(q, c), q.op \notin RegistryOps
  PROVE  Registering(BagToSet(Adding({q}, bag))) = Registering(BagToSet(bag))
BY AddGood DEF Registering

LEMMA RemoveRegistering ==
  ASSUME NEW bag, NEW c, AllFine(bag, c), NEW q
  PROVE  /\ Registering(BagToSet(Removing(q, bag))) \subseteq Registering(BagToSet(bag))
         /\ q.op \notin RegistryOps =>
              Registering(BagToSet(Removing(q, bag))) = Registering(BagToSet(bag))
BY RemoveGood DEF Registering

(* Nothing that the list depends on changes. *)
LEMMA ListUndisturbed ==
  ASSUME ListInv, Registering(BagToSet(requests')) = Registering(BagToSet(requests)),
         UNCHANGED <<registry, servers>>, suspect => suspect'
  PROVE  ListInv'
<1>1. Listed' = Listed BY DEF Listed, Exists
<1>2. FreshLists(BagToSet(requests'), Listed) BY FreshSubset DEF ListInv, InFlight
<1>3. FreshLists(InFlight, Listed)'
  BY <1>1, <1>2 DEF FreshLists, InFlight, BagToSet
<1>4. Registering(InFlight)' = Registering(InFlight) BY DEF InFlight, Registering, BagToSet
<1>5. QED BY <1>1, <1>3, <1>4 DEF ListInv

(* A change or a list is in flight afterwards. *)
LEMMA ListAwaited ==
  ASSUME FreshLists(BagToSet(requests'), Listed'), NEW q \in BagToSet(requests'), q.op \in RegistryOps
  PROVE  ListInv'
<1>1. FreshLists(InFlight, Listed)' BY DEF FreshLists, InFlight, BagToSet
<1>2. Registering(InFlight)' # {} BY DEF Registering, InFlight, BagToSet
<1>3. QED BY <1>1, <1>2 DEF ListInv

(* Sending a change, or a list, crosses every list that is in flight.        *)
LEMMA SentFresh ==
  ASSUME NEW bag, NEW c, AllFine(bag, c), NEW q, NEW rows,
         \/ q.op \in RegistryChanges
         \/ /\ q.op = "list" /\ ~q.served
            /\ ~q.crossed => \A x \in BagToSet(bag) : x.op \notin RegistryChanges
  PROVE  FreshLists({Crossed(x) : x \in BagToSet(bag)} \cup {q}, rows)
<1>1. \A x \in BagToSet(bag) : DOMAIN x = Fields BY DEF AllFine, Good
<1>2. \A x \in BagToSet(bag) : Crossed(x).op = x.op BY <1>1 DEF Crossed, Fields
<1>3. \A x \in BagToSet(bag) : x.op = "list" => Crossed(x).crossed = TRUE BY <1>1 DEF Crossed, Fields
<1>4. QED BY <1>2, <1>3 DEF FreshLists, RegistryChanges

LEMMA ChangeList ==
  ASSUME AllFine(requests, consented), NEW op \in RegistryChanges, NEW i \in Ids,
         NEW enabled \in {"on", "off"}, Change(op, i, enabled)
  PROVE  ListInv'
<1> DEFINE q == [Request(op, i) EXCEPT !.arg = enabled]
<1>1. Good(q, consented) BY ArgGood DEF RegistryChanges, DirectActions
<1>2. q.op \in RegistryChanges BY DEF Request
<1>3. requests' = Sending(q, requests) BY Zenon DEF Change
<1> HIDE DEF q
<1>4. BagToSet(requests') = {Crossed(x) : x \in BagToSet(requests)} \cup {q}
  BY <1>1, <1>2, <1>3, SendGood
<1>5. FreshLists(BagToSet(requests'), Listed') BY <1>2, <1>4, SentFresh
<1>6. QED BY <1>2, <1>4, <1>5, ListAwaited DEF RegistryOps
LEMMA UserList ==
  ASSUME SettingsInv, ListInv, UserStep
  PROVE  ListInv'
<1>0. AllFine(requests, consented) /\ PageOK BY DEF SettingsInv
<1> DEFINE Same == /\ Registering(BagToSet(requests')) = Registering(BagToSet(requests))
                   /\ UNCHANGED <<registry, servers, suspect>>
<1>1. ASSUME Same PROVE ListInv' BY <1>1, ListUndisturbed
<1>2. ASSUME NEW q, Good(q, consented), q.op \notin RegistryOps, requests' = Adding({q}, requests),
             UNCHANGED <<registry, servers, suspect>>
      PROVE  ListInv'
  BY <1>0, <1>1, <1>2, AddRegistering
<1> HIDE DEF Same
<1> USE DEF backend, list
<1>3. CASE OpenAdd \/ CloseRemove \/ typePassword \/ CancelPassword
  BY <1>1, <1>3 DEF OpenAdd, CloseRemove, typePassword, CancelPassword, Same
<1>4. CASE onClose BY <1>0, <1>1, <1>4, UnmountRegistering DEF onClose, Same
<1>5. CASE loadServers
  <2>1. Good(List, consented) BY ListGood DEF List
  <2>2. List.op = "list" /\ List.served = FALSE
        /\ List.crossed = (Waiting(RegistryChanges) # {})
    BY DEF List, Request
  <2>3. ~List.crossed => \A x \in BagToSet(requests) : x.op \notin RegistryChanges
    BY <2>2 DEF Waiting, InFlight
  <2>4. requests' = Sending(List, requests) BY <1>5 DEF loadServers
  <2>5. BagToSet(requests') = {Crossed(x) : x \in BagToSet(requests)} \cup {List}
    BY <1>0, <2>1, <2>2, <2>4, SendGood
  <2>6. FreshLists(BagToSet(requests'), Listed') BY <1>0, <2>2, <2>3, <2>5, SentFresh
  <2>7. QED BY <2>2, <2>5, <2>6, ListAwaited DEF RegistryOps
<1>6. CASE removeServer
  <2>1. removal.target \in Ids BY <1>0, <1>6 DEF removeServer, PageOK
  <2>2. QED BY <1>0, <1>6, <2>1, ChangeList DEF removeServer, RegistryChanges
<1>7. CASE runTest
  <2>1. wizard.active \in Ids BY <1>0, <1>7 DEF runTest, PageOK
  <2> DEFINE q == Request("test", wizard.active)
  <2>2. Good(q, consented) BY <2>1, PlainGood DEF Plain
  <2>3. q.op \notin RegistryOps BY DEF Request, RegistryOps, RegistryChanges
  <2>4. requests' = Unmounting(Adding({q}, requests)) BY <1>7 DEF runTest
  <2> HIDE DEF q
  <2>5. Registering(BagToSet(Adding({q}, requests))) = Registering(BagToSet(requests))
    BY <1>0, <2>2, <2>3, AddRegistering
  <2>6. AllFine(Adding({q}, requests), consented) BY <1>0, <2>2, AddGood
  <2>7. QED BY <1>1, <1>7, <2>4, <2>5, <2>6, UnmountRegistering DEF runTest, Same
<1>8. CASE BackToForm
  <2>1. CASE dialog = "add" BY <1>1, <1>8, <2>1 DEF BackToForm, Same
  <2>2. CASE dialog # "add"
    <3>1. dialog \in Ids BY <1>0, <1>8, <2>2 DEF BackToForm, PageOK
    <3>2. Good(Request("pairs", dialog), consented) BY <3>1, PlainGood DEF Plain
    <3>3. Request("pairs", dialog).op \notin RegistryOps BY DEF Request, RegistryOps, RegistryChanges
    <3>4. QED BY <1>2, <1>8, <2>2, <3>2, <3>3 DEF BackToForm, Mounting
  <2>3. QED BY <2>1, <2>2
<1>9. CASE trustAndRetry
  <2>1. wizard.active \in Ids BY <1>0, <1>9 DEF trustAndRetry, PageOK
  <2> DEFINE q == [Request("trust", wizard.active) EXCEPT !.arg = wizard.result[1], !.key = wizard.result[3]]
  <2>2. <<wizard.result[1], wizard.result[3]>> \in consented' /\ consented \subseteq consented'
    BY <1>9 DEF trustAndRetry
  <2>3. Good(q, consented') BY <2>1, <2>2, TrustGood
  <2>4. q.op \notin RegistryOps BY DEF Request, RegistryOps, RegistryChanges
  <2>5. requests' = Adding({q}, requests) BY <1>9 DEF trustAndRetry
  <2> HIDE DEF q
  <2>6. AllFine(requests, consented') BY <1>0, <2>2, GoodMonotone
  <2>7. Registering(BagToSet(requests')) = Registering(BagToSet(requests))
    BY <2>3, <2>4, <2>5, <2>6, AddRegistering
  <2>8. QED BY <1>1, <1>9, <2>7 DEF trustAndRetry, Same
<1>10. CASE save
  <2>1. dialog \in Ids /\ editor.typed = dialog BY <1>0, <1>10 DEF save, Mounted, PageOK
  <2> DEFINE q == [Request("setPassword", dialog) EXCEPT !.arg = editor.typed]
  <2>2. Good(q, consented) BY <2>1, ArgGood DEF DirectActions
  <2>3. q.op \notin RegistryOps BY DEF Request, RegistryOps, RegistryChanges
  <2>4. requests' = Adding({q}, requests) BY <1>10 DEF save
  <2> HIDE DEF q
  <2>5. QED BY <1>2, <1>10, <2>2, <2>3, <2>4 DEF save
<1>11. CASE clear
  <2>1. Good(Request("deletePassword", dialog), consented)
    BY <1>11, PlainGood DEF clear, Mounted, Plain
  <2>2. Request("deletePassword", dialog).op \notin RegistryOps
    BY DEF Request, RegistryOps, RegistryChanges
  <2>3. QED BY <1>2, <1>11, <2>1, <2>2 DEF clear
<1>12. CASE RetryAuth
  <2>1. Good(Request("auth", dialog), consented)
    BY <1>12, PlainGood DEF RetryAuth, Mounted, Plain
  <2>2. Request("auth", dialog).op \notin RegistryOps BY DEF Request, RegistryOps, RegistryChanges
  <2>3. QED BY <1>2, <1>12, <2>1, <2>2 DEF RetryAuth
<1>13. CASE RetryPairs
  <2>1. Good(Request("pairs", dialog), consented)
    BY <1>13, PlainGood DEF RetryPairs, Mounted, Plain
  <2>2. Request("pairs", dialog).op \notin RegistryOps BY DEF Request, RegistryOps, RegistryChanges
  <2>3. QED BY <1>2, <1>13, <2>1, <2>2 DEF RetryPairs, Mounting
<1>14. ASSUME NEW enabled \in {"on", "off"}, submit(enabled) PROVE ListInv'
  <2>1. ASSUME NEW i \in Ids, Change("create", i, enabled) PROVE ListInv'
    BY <1>0, <2>1, ChangeList DEF RegistryChanges
  <2>2. CASE dialog # "add" /\ Change("patch", dialog, enabled)
    <3>1. dialog \in Ids BY <1>0, <1>14, <2>2 DEF submit, PageOK
    <3>2. QED BY <1>0, <2>2, <3>1, ChangeList DEF RegistryChanges
  <2>3. QED BY <1>14, <2>1, <2>2, Zenon DEF submit
<1>15. ASSUME NEW enabled \in {"on", "off"}, NEW i \in Ids, toggleEnabled(i, enabled) PROVE ListInv'
  BY <1>0, <1>15, ChangeList DEF toggleEnabled, RegistryChanges
<1>16. ASSUME NEW i \in Ids, OpenEdit(i) PROVE ListInv'
  <2>1. Good(Request("auth", i), consented) /\ Good(Request("pairs", i), consented)
    BY PlainGood DEF Plain
  <2>2. AllFine(Adding({Request("auth", i)}, requests), consented) BY <1>0, <2>1, AddGood
  <2>3. Request("auth", i).op \notin RegistryOps /\ Request("pairs", i).op \notin RegistryOps
    BY DEF Request, RegistryOps, RegistryChanges
  <2>4. Registering(BagToSet(Adding({Request("auth", i)}, requests))) = Registering(BagToSet(requests))
    BY <1>0, <2>1, <2>3, AddRegistering
  <2>5. Registering(BagToSet(requests')) = Registering(BagToSet(Adding({Request("auth", i)}, requests)))
    BY <1>16, <2>1, <2>2, <2>3, AddRegistering DEF OpenEdit, Mounting
  <2>6. QED BY <1>1, <1>16, <2>4, <2>5 DEF OpenEdit, Same
<1>17. ASSUME NEW i \in Ids, OpenRemove(i) PROVE ListInv' BY <1>1, <1>17 DEF OpenRemove, Same
<1>18. ASSUME NEW i \in Ids, FleetRemove(i) PROVE ListInv'
  BY <1>0, <1>18, ChangeList DEF FleetRemove, RegistryChanges
<1>19. ASSUME NEW i \in Ids, NEW action \in DirectActions, run(i, action) PROVE ListInv'
  <2> DEFINE q == [Request(action, i) EXCEPT !.arg = dialog]
  <2>1. Good(q, consented) BY <1>19, ArgGood DEF run, Mounted, DirectActions
  <2>2. q.op \notin RegistryOps BY DEF Request, RegistryOps, RegistryChanges, DirectActions
  <2>3. requests' = Adding({q}, requests) BY <1>19 DEF run
  <2> HIDE DEF q
  <2>4. QED BY <1>2, <1>19, <2>1, <2>2, <2>3 DEF run
<1>20. ASSUME NEW i \in Ids, NEW yes \in BOOLEAN, ConfirmRevoke(i, yes) PROVE ListInv'
  BY <1>1, <1>20 DEF ConfirmRevoke, Same
<1>21. QED
  BY <1>3, <1>4, <1>5, <1>6, <1>7, <1>8, <1>9, <1>10, <1>11, <1>12, <1>13, <1>14, <1>15, <1>16,
     <1>17, <1>18, <1>19, <1>20, Zenon DEF UserStep
LEMMA ServeList ==
  ASSUME SettingsInv, ListInv, NEW r \in BagToSet(requests), Serve(r)
  PROVE  ListInv'
<1>0. BackendOK /\ AllFine(requests, consented) BY DEF SettingsInv
<1>1. ServeStep(r) /\ UNCHANGED <<servers, suspect>> BY DEF Serve, ServeStep, list
<1>2. PICK s : Good(s, consented) /\ Answers(s, r) /\ Becomes(r, s) BY <1>0, <1>1, ServeAnswer
<1>3. /\ BagToSet(requests') \subseteq BagToSet(requests) \cup {s} /\ s \in BagToSet(requests')
      /\ \A e \in BagToSet(requests) : e # r => e \in BagToSet(requests')
  BY <1>0, <1>2, BecomesGood
<1>4. FreshLists(BagToSet(requests), Listed) BY DEF ListInv, InFlight
<1>5. CASE r.op \in RegistryChanges
  <2>1. \A x \in BagToSet(requests) : x.op = "list" => x.crossed BY <1>4, <1>5 DEF FreshLists
  <2>2. s.op \in RegistryChanges BY <1>2, <1>5 DEF Answers
  <2>3. FreshLists(BagToSet(requests'), Listed')
    BY <1>3, <2>1, <2>2 DEF FreshLists, RegistryChanges
  <2>4. QED BY <1>3, <2>2, <2>3, ListAwaited DEF RegistryOps
<1>6. CASE r.op = "list"
  <2>1. ServeRead(r)
    BY <1>1, <1>6 DEF ServeStep, ServeChange, test_connection, trust_host_key, ServePassword,
                      ServeDirect, RegistryChanges, PasswordActions
  <2>2. Listed' = Listed BY <2>1 DEF ServeRead, backend, Listed, Exists
  <2>3. s.op = "list" /\ s.crossed = r.crossed /\ s.rows = Listed BY <1>2, <1>6 DEF Answers
  <2>4. FreshLists(BagToSet(requests'), Listed)
    BY <1>3, <1>4, <1>6, <2>3 DEF FreshLists, RegistryChanges
  <2>5. QED BY <1>3, <2>2, <2>3, <2>4, ListAwaited DEF RegistryOps
<1>7. CASE r.op \notin RegistryOps
  <2>1. UNCHANGED registry
    BY <1>1, <1>7 DEF ServeStep, ServeChange, test_connection, trust_host_key, ServePassword,
                      ServeRead, ServeDirect, RegistryOps, backend
  <2>2. s.op \notin RegistryOps BY <1>2, <1>7 DEF Answers
  <2>3. Registering(BagToSet(requests')) = Registering(BagToSet(requests))
    BY <1>3, <1>7, <2>2 DEF Registering
  <2>4. QED BY <1>1, <2>1, <2>3, ListUndisturbed
<1>8. QED BY <1>5, <1>6, <1>7 DEF RegistryOps

(* The answer to a change brings a new list. *)
LEMMA RefreshedFresh ==
  ASSUME NEW bag, AllFine(bag, consented), BagToSet(bag) \subseteq InFlight
  PROVE  /\ FreshLists(BagToSet(Refreshing(bag)), Listed)
         /\ Refresh(bag) \in BagToSet(Refreshing(bag)) /\ Refresh(bag).op = "list"
<1>1. BagToSet(Refreshing(bag)) = {Crossed(x) : x \in BagToSet(bag)} \cup {Refresh(bag)}
  BY RefreshGood
<1>2. /\ Refresh(bag).op = "list" /\ Refresh(bag).served = FALSE
      /\ Refresh(bag).crossed = (Waiting(RegistryChanges) \cap BagToSet(bag) # {})
  BY DEF Refresh, Request
<1>3. ~Refresh(bag).crossed => \A x \in BagToSet(bag) : x.op \notin RegistryChanges
  BY <1>2 DEF Waiting
<1>4. FreshLists(BagToSet(Refreshing(bag)), Listed) BY <1>1, <1>2, <1>3, SentFresh
<1>5. QED BY <1>1, <1>2, <1>4

LEMMA ArriveList ==
  ASSUME SettingsInv, ListInv, NEW r \in BagToSet(requests), Arrives(r)
  PROVE  ListInv'
<1>0. AllFine(requests, consented) /\ Good(r, consented) BY DEF SettingsInv, AllFine
<1>1. Listed' = Listed /\ UNCHANGED registry BY ArriveFrame DEF backend, Listed, Exists
<1> DEFINE rest == Removing(r, requests)
<1>2. /\ AllFine(rest, consented) /\ BagToSet(rest) \subseteq BagToSet(requests)
      /\ Registering(BagToSet(rest)) \subseteq Registering(BagToSet(requests))
      /\ r.op \notin RegistryOps => Registering(BagToSet(rest)) = Registering(BagToSet(requests))
  BY <1>0, RemoveGood, RemoveRegistering
<1> HIDE DEF rest
<1> DEFINE new == Refreshing(rest)
<1>3. AllFine(new, consented) BY <1>2, RefreshGood
<1>4. FreshLists(BagToSet(new), Listed) /\ Refresh(rest) \in BagToSet(new) /\ Refresh(rest).op = "list"
  BY <1>2, RefreshedFresh DEF InFlight
<1> HIDE DEF new
<1>5. ASSUME Registering(BagToSet(requests')) = Registering(BagToSet(new)) PROVE ListInv'
  <2>1. FreshLists(BagToSet(requests'), Listed') BY <1>1, <1>4, <1>5, FreshSubset
  <2>2. Refresh(rest) \in BagToSet(requests') /\ Refresh(rest).op \in RegistryOps
    BY <1>4, <1>5 DEF Registering, RegistryOps
  <2>3. QED BY <2>1, <2>2, ListAwaited
<1>6. ASSUME r.op \notin RegistryOps, Registering(BagToSet(requests')) = Registering(BagToSet(rest)),
             UNCHANGED <<servers, suspect>>
      PROVE  ListInv'
  BY <1>1, <1>2, <1>6, ListUndisturbed
<1>7. CASE CreateArrives(r)
  <2> DEFINE q == Request("test", r.id)
  <2>1. Good(q, consented) BY <1>0, <1>7, PlainGood DEF CreateArrives, Good, Plain
  <2>2. q.op \notin RegistryOps BY DEF Request, RegistryOps, RegistryChanges
  <2>3. requests' = Adding({q}, Unmounting(new)) BY <1>7 DEF CreateArrives, rest, new
  <2> HIDE DEF q
  <2>4. AllFine(Unmounting(new), consented) BY <1>3, UnmountGood
  <2>5. Registering(BagToSet(requests')) = Registering(BagToSet(Unmounting(new)))
    BY <2>1, <2>2, <2>3, <2>4, AddRegistering
  <2>6. QED BY <1>3, <1>5, <2>5, UnmountRegistering
<1>8. CASE PatchArrives(r)
  <2>1. requests' = Unmounting(new) BY <1>8 DEF PatchArrives, rest, new
  <2>2. QED BY <1>3, <1>5, <2>1, UnmountRegistering
<1>9. CASE RemovalArrives(r) BY <1>5, <1>9 DEF RemovalArrives, rest, new
<1>10. CASE ListArrives(r)
  <2>1. /\ r.op = "list" /\ r.served /\ requests' = rest /\ servers' = r.rows /\ suspect' = r.crossed
    BY <1>10 DEF ListArrives, Arrives, rest
  <2>2. FreshLists(BagToSet(requests), Listed) BY DEF ListInv, InFlight
  <2>3. FreshLists(BagToSet(requests'), Listed) BY <1>2, <2>1, <2>2, FreshSubset
  <2>4. FreshLists(InFlight, Listed)' BY <1>1, <2>3 DEF FreshLists, InFlight, BagToSet
  <2>5. ~suspect' => servers' = Listed BY <2>1, <2>2 DEF FreshLists
  <2>6. QED BY <1>1, <2>4, <2>5 DEF ListInv
<1>11. CASE TestArrives(r)
  <2>1. r.op \notin RegistryOps BY <1>11 DEF TestArrives, RegistryOps, RegistryChanges
  <2>2. requests' = Unmounting(rest) /\ UNCHANGED <<servers, suspect>>
    BY <1>11 DEF TestArrives, rest, list
  <2>3. QED BY <1>2, <1>6, <2>1, <2>2, UnmountRegistering
<1>12. CASE TrustArrives(r)
  <2> DEFINE q == [Request("test", r.id) EXCEPT !.arg = "chain"]
  <2>1. r.id \in Ids BY <1>0, <1>12 DEF TrustArrives, Good
  <2>2. Good(q, consented) BY <2>1, ArgGood DEF DirectActions
  <2>3. q.op \notin RegistryOps BY DEF Request, RegistryOps, RegistryChanges
  <2>4. requests' = Unmounting(Adding({q}, rest)) /\ UNCHANGED <<servers, suspect>>
    BY <1>12 DEF TrustArrives, rest, list
  <2> HIDE DEF q
  <2>5. AllFine(Adding({q}, rest), consented) BY <1>2, <2>2, AddGood
  <2>6. Registering(BagToSet(Adding({q}, rest))) = Registering(BagToSet(rest))
    BY <1>2, <2>2, <2>3, AddRegistering
  <2>7. r.op \notin RegistryOps BY <1>12 DEF TrustArrives, RegistryOps, RegistryChanges
  <2>8. QED BY <1>6, <2>4, <2>5, <2>6, <2>7, UnmountRegistering
<1>13. CASE PasswordArrives(r)
  <2> DEFINE q == Request("auth", r.id)
  <2>1. Good(q, consented)
    BY <1>0, <1>13, PlainGood DEF PasswordArrives, PasswordActions, Good, Plain
  <2>2. q.op \notin RegistryOps BY DEF Request, RegistryOps, RegistryChanges
  <2>3. requests' = Adding({q}, rest) /\ UNCHANGED <<servers, suspect>>
    BY <1>13 DEF PasswordArrives, rest, list
  <2> HIDE DEF q
  <2>4. r.op \notin RegistryOps
    BY <1>13 DEF PasswordArrives, PasswordActions, RegistryOps, RegistryChanges
  <2>5. QED BY <1>2, <1>6, <2>1, <2>2, <2>3, <2>4, AddRegistering
<1>14. CASE AuthArrives(r) \/ PairsArrive(r) \/ DirectArrives(r)
  <2>1. r.op \notin RegistryOps
    BY <1>14 DEF AuthArrives, PairsArrive, DirectArrives, DirectActions, RegistryOps, RegistryChanges
  <2>2. requests' = rest /\ UNCHANGED <<servers, suspect>>
    BY <1>14 DEF AuthArrives, PairsArrive, DirectArrives, rest, list
  <2>3. QED BY <1>6, <2>1, <2>2
<1>15. QED
  BY <1>7, <1>8, <1>9, <1>10, <1>11, <1>12, <1>13, <1>14 DEF Arrives

LEMMA FailList ==
  ASSUME SettingsInv, ListInv, NEW r \in BagToSet(requests), Fails(r)
  PROVE  ListInv'
<1>0. AllFine(requests, consented) /\ BackendOK BY DEF SettingsInv
<1>1. UNCHANGED <<registry, servers>> BY <1>0 DEF Fails, backend
<1>2. Listed' = Listed BY <1>1 DEF Listed, Exists
<1> DEFINE rest == Removing(r, requests)
<1>3. /\ AllFine(rest, consented)
      /\ Registering(BagToSet(rest)) \subseteq Registering(BagToSet(requests))
      /\ r.op \notin RegistryOps => Registering(BagToSet(rest)) = Registering(BagToSet(requests))
  BY <1>0, RemoveGood, RemoveRegistering
<1>4. requests' = rest \/ requests' = Unmounting(rest) BY DEF Fails
<1> HIDE DEF rest
<1>5. Registering(BagToSet(requests')) = Registering(BagToSet(rest))
  BY <1>3, <1>4, UnmountRegistering
<1>6. CASE r.op \in RegistryOps
  <2>1. suspect' BY <1>6 DEF Fails, RegistryOps
  <2>2. FreshLists(BagToSet(requests), Listed) BY DEF ListInv, InFlight
  <2>3. FreshLists(BagToSet(requests'), Listed) BY <1>3, <1>5, <2>2, FreshSubset
  <2>4. FreshLists(InFlight, Listed)' BY <1>2, <2>3 DEF FreshLists, InFlight, BagToSet
  <2>5. QED BY <2>1, <2>4 DEF ListInv
<1>7. CASE r.op \notin RegistryOps
  <2>1. suspect => suspect' BY DEF Fails
  <2>2. QED BY <1>1, <1>3, <1>5, <1>7, <2>1, ListUndisturbed
<1>8. QED BY <1>6, <1>7
LEMMA ListInvInit == Init => ListInv
<1> SUFFICES ASSUME Init PROVE ListInv OBVIOUS
<1>1. InFlight = {} BY EmptyBagFact DEF Init, InFlight
<1>2. servers = Listed
  <2>1. \A i \in Ids : registry[i] = IF Exists(i) THEN registry[i] ELSE "absent" BY DEF Init, Exists
  <2>2. QED BY <2>1 DEF Init, Listed
<1>3. QED BY <1>1, <1>2 DEF ListInv, FreshLists

LEMMA ListInvNext == SettingsInv /\ ListInv /\ [Next]_vars => ListInv'
<1> SUFFICES ASSUME SettingsInv, ListInv, [Next]_vars PROVE ListInv'
  OBVIOUS
<1>1. CASE UserStep BY <1>1, UserList
<1>2. ASSUME NEW i \in Ids, OthersConnect(i) \/ Rekeyed(i) PROVE ListInv'
  <2>1. UNCHANGED <<registry, requests, servers, suspect>> BY <1>2 DEF OthersConnect, Rekeyed, list
  <2>2. QED BY <2>1, ListUndisturbed
<1>3. ASSUME NEW r \in BagToSet(requests), Serve(r) PROVE ListInv' BY <1>3, ServeList
<1>4. ASSUME NEW r \in BagToSet(requests), Arrives(r) PROVE ListInv' BY <1>4, ArriveList
<1>5. ASSUME NEW r \in BagToSet(requests), Fails(r) PROVE ListInv' BY <1>5, FailList
<1>6. CASE UNCHANGED vars
  <2>1. UNCHANGED <<registry, requests, servers, suspect>> BY <1>6 DEF vars, backend, list
  <2>2. QED BY <2>1, ListUndisturbed
<1>7. QED BY <1>1, <1>2, <1>3, <1>4, <1>5, <1>6, StepCases, Zenon

(* With no change and no list in flight, and no load failed or overtaken,    *)
(* the list of the settings page is the registry, however many changes and   *)
(* loads from both pages have overlapped before.                             *)
THEOREM RegistryListCorrect == Spec => []QuietRegistryAgrees
<1>1. SettingsInv /\ ListInv => QuietRegistryAgrees
  <2> SUFFICES ASSUME SettingsInv, ListInv, ~suspect, Waiting(RegistryChanges \cup {"list"}) = {},
                      NEW i \in Ids
               PROVE  servers[i] = IF Exists(i) THEN registry[i] ELSE "absent"
    BY Zenon DEF QuietRegistryAgrees
  <2>1. Registering(InFlight) = {} BY DEF Registering, RegistryOps, Waiting
  <2>2. QED BY <2>1 DEF ListInv, Listed
<1>2. QED BY <1>1, InitInv, NextInv, ListInvInit, ListInvNext, PTL DEF Spec
-----------------------------------------------------------------------------
(* Busy states. A request stays in flight through the marks it gets and its  *)
(* answer by the backend; with the section that awaits it still mounted, it  *)
(* stays awaited.                                                            *)

SameCall(v, w) == v.op = w.op /\ v.id = w.id /\ v.arg = w.arg
Keeps(S, T) == \A w \in S : \E v \in T : SameCall(v, w)
KeepsHere(S, T) == \A w \in S : \E v \in T : SameCall(v, w) /\ v.here = w.here

LEMMA KeepsFacts ==
  ASSUME NEW S, NEW T, NEW U
  PROVE  /\ KeepsHere(S, S) /\ (KeepsHere(S, T) => Keeps(S, T))
         /\ KeepsHere(S, T) /\ KeepsHere(T, U) => KeepsHere(S, U)
         /\ Keeps(S, T) /\ Keeps(T, U) => Keeps(S, U)
         /\ S \subseteq T => KeepsHere(S, T)
BY DEF Keeps, KeepsHere, SameCall

LEMMA MarkSame ==
  ASSUME NEW r, NEW c, Good(r, c)
  PROVE  /\ SameCall(Orphan(r), r) /\ SameCall(Crossed(r), r) /\ Crossed(r).here = r.here
         /\ r.op \notin SectionOps => Orphan(r) = r
<1>1. DOMAIN r = Fields BY DEF Good
<1>2. QED BY <1>1 DEF SameCall, Orphan, Crossed, Fields

LEMMA AddKeeps ==
  ASSUME NEW bag, NEW c, AllFine(bag, c), NEW q, Good(q, c)
  PROVE  /\ KeepsHere(BagToSet(bag), BagToSet(Adding({q}, bag)))
         /\ q \in BagToSet(Adding({q}, bag))
BY AddGood, KeepsFacts

LEMMA SendKeeps ==
  ASSUME NEW bag, NEW c, AllFine(bag, c), NEW q, Good(q, c)
  PROVE  /\ KeepsHere(BagToSet(bag), BagToSet(Sending(q, bag)))
         /\ q \in BagToSet(Sending(q, bag))
<1>1. \A w \in BagToSet(bag) : SameCall(Crossed(w), w) /\ Crossed(w).here = w.here
  BY MarkSame DEF AllFine
<1>2. \A w \in BagToSet(bag) : SameCall(w, w) BY DEF SameCall
<1>3. QED BY <1>1, <1>2, SendGood DEF KeepsHere

LEMMA RefreshKeeps ==
  ASSUME NEW bag, NEW c, AllFine(bag, c)
  PROVE  /\ KeepsHere(BagToSet(bag), BagToSet(Refreshing(bag)))
         /\ Refresh(bag) \in BagToSet(Refreshing(bag)) /\ Refresh(bag).op = "list"
<1>1. \A w \in BagToSet(bag) : SameCall(Crossed(w), w) /\ Crossed(w).here = w.here
  BY MarkSame DEF AllFine
<1>2. Refresh(bag).op = "list" BY DEF Refresh, Request
<1>3. QED BY <1>1, <1>2, RefreshGood DEF KeepsHere

LEMMA UnmountKeeps ==
  ASSUME NEW bag, NEW c, AllFine(bag, c)
  PROVE  /\ Keeps(BagToSet(bag), BagToSet(Unmounting(bag)))
         /\ \A w \in BagToSet(bag) : w.op \notin SectionOps => w \in BagToSet(Unmounting(bag))
<1>1. \A w \in BagToSet(bag) : /\ SameCall(Orphan(w), w)
                               /\ w.op \notin SectionOps => Orphan(w) = w
  BY MarkSame DEF AllFine
<1>2. \A w \in BagToSet(bag) : Orphan(w) \in BagToSet(Unmounting(bag)) BY UnmountingSet
<1>3. QED BY <1>1, <1>2 DEF Keeps

LEMMA RemoveKeeps ==
  ASSUME NEW bag, NEW c, AllFine(bag, c), NEW q
  PROVE  KeepsHere(BagToSet(bag) \ {q}, BagToSet(Removing(q, bag)))
BY RemoveGood, KeepsFacts

(* The busy states that any request in flight justifies, and those that wait *)
(* for a request of the mounted sections.                                    *)
IsTrusting(w) == w.op = "trust" \/ (w.op = "test" /\ w.arg = "chain")
Calls(S, ops) == \E w \in S : w.op \in ops

OuterBusy ==
  /\ listState.loading => Calls(InFlight, {"list"})
  /\ wizard.saving => Calls(InFlight, {"create", "patch"})
  /\ wizard.step = "testing" => Calls(InFlight, {"test"})
  /\ wizard.trusting => \E w \in InFlight : IsTrusting(w)
  /\ removal.busy => Calls(InFlight, {"delete"})

InnerBusy ==
  /\ editor.phase # "idle" => \E w \in InFlight : w.op \in PasswordActions /\ w.here /\ w.id = dialog
  /\ section.state = "loading" => \E w \in InFlight : w.op = "pairs" /\ w.here /\ w.id = dialog
  /\ \A i \in Ids : Row(i).busy # "" =>
       \E w \in InFlight : w.op = Row(i).busy /\ w.here /\ w.id = i /\ w.arg = dialog

SectionOK ==
  /\ DOMAIN section = {"state", "pairs", "rows"} /\ DOMAIN section.rows = Ids
  /\ \A i \in Ids : /\ DOMAIN section.rows[i] = {"current", "busy", "confirming"}
                    /\ section.rows[i].busy \in DirectActions \cup {""}

ClosedIsBlank == dialog = None => wizard = Form(None)

BusyInv == OuterBusy /\ InnerBusy /\ SectionOK /\ ClosedIsBlank

(* What a step that ends the requests in G, and leaves those in T, may do to *)
(* the busy states.                                                          *)
OuterEffect(G, T) ==
  /\ listState'.loading => \/ listState.loading /\ ~Calls(G, {"list"})
                           \/ Calls(T, {"list"})
  /\ wizard'.saving => \/ wizard.saving /\ ~Calls(G, {"create", "patch"})
                       \/ Calls(T, {"create", "patch"})
  /\ wizard'.step = "testing" => \/ wizard.step = "testing" /\ ~Calls(G, {"test"})
                                 \/ Calls(T, {"test"})
  /\ wizard'.trusting => \/ wizard.trusting /\ \A g \in G : ~IsTrusting(g)
                         \/ \E v \in T : IsTrusting(v)
  /\ removal'.busy => \/ removal.busy /\ ~Calls(G, {"delete"})
                      \/ Calls(T, {"delete"})

InnerEffect(G, T) ==
  /\ editor'.phase # "idle" =>
       \/ /\ dialog' = dialog /\ editor.phase # "idle"
          /\ \A g \in G : ~(g.op \in PasswordActions /\ g.here)
       \/ \E v \in T : v.op \in PasswordActions /\ v.here /\ v.id = dialog'
  /\ section'.state = "loading" =>
       \/ dialog' = dialog /\ section.state = "loading" /\ \A g \in G : ~(g.op = "pairs" /\ g.here)
       \/ \E v \in T : v.op = "pairs" /\ v.here /\ v.id = dialog'
  /\ \A i \in Ids : section'.rows[i].busy # "" =>
       \/ /\ dialog' = dialog /\ section'.rows[i].busy = section.rows[i].busy
          /\ \A g \in G : ~(g.op \in DirectActions /\ g.here /\ g.id = i)
       \/ \E v \in T : v.op = section'.rows[i].busy /\ v.here /\ v.id = i /\ v.arg = dialog'

LEMMA OuterStep ==
  ASSUME OuterBusy, NEW G, Keeps(BagToSet(requests) \ G, BagToSet(requests')),
         OuterEffect(G, BagToSet(requests'))
  PROVE  OuterBusy'
<1> DEFINE S == BagToSet(requests)
           T == BagToSet(requests')
<1>1. \A ops : Calls(S, ops) /\ ~Calls(G, ops) => Calls(T, ops)
  BY DEF Keeps, SameCall, Calls
<1>2. (\E w \in S : IsTrusting(w)) /\ (\A g \in G : ~IsTrusting(g)) => \E v \in T : IsTrusting(v)
  BY DEF Keeps, SameCall, IsTrusting
<1>3. S = InFlight /\ T = InFlight' BY DEF InFlight, BagToSet
<1> HIDE DEF S, T
<1>4. /\ listState'.loading => Calls(T, {"list"})
      /\ wizard'.saving => Calls(T, {"create", "patch"})
      /\ wizard'.step = "testing" => Calls(T, {"test"})
      /\ wizard'.trusting => \E w \in T : IsTrusting(w)
      /\ removal'.busy => Calls(T, {"delete"})
  <2>1. OuterEffect(G, T) BY DEF T
  <2>2. QED BY <1>1, <1>2, <1>3, <2>1, Zenon DEF OuterBusy, OuterEffect
<1>5. QED BY <1>3, <1>4 DEF OuterBusy, Calls, IsTrusting

LEMMA InnerStep ==
  ASSUME InnerBusy, SectionOK, NEW G, KeepsHere(BagToSet(requests) \ G, BagToSet(requests')),
         InnerEffect(G, BagToSet(requests'))
  PROVE  InnerBusy'
<1> DEFINE S == BagToSet(requests)
           T == BagToSet(requests')
<1>1. S = InFlight /\ T = InFlight' BY DEF InFlight, BagToSet
<1>2. ASSUME editor'.phase # "idle"
      PROVE  \E w \in T : w.op \in PasswordActions /\ w.here /\ w.id = dialog'
  <2>1. CASE /\ dialog' = dialog /\ editor.phase # "idle"
             /\ \A g \in G : ~(g.op \in PasswordActions /\ g.here)
    <3>1. PICK w \in S : w.op \in PasswordActions /\ w.here /\ w.id = dialog
      BY <1>1, <2>1 DEF InnerBusy
    <3>2. QED BY <2>1, <3>1 DEF KeepsHere, SameCall
  <2>2. QED BY <1>2, <2>1 DEF InnerEffect
<1>3. ASSUME section'.state = "loading"
      PROVE  \E w \in T : w.op = "pairs" /\ w.here /\ w.id = dialog'
  <2>1. CASE dialog' = dialog /\ section.state = "loading" /\ \A g \in G : ~(g.op = "pairs" /\ g.here)
    <3>1. PICK w \in S : w.op = "pairs" /\ w.here /\ w.id = dialog BY <1>1, <2>1 DEF InnerBusy
    <3>2. QED BY <2>1, <3>1 DEF KeepsHere, SameCall
  <2>2. QED BY <1>3, <2>1 DEF InnerEffect
<1>4. ASSUME NEW i \in Ids, section'.rows[i].busy # ""
      PROVE  \E w \in T : w.op = section'.rows[i].busy /\ w.here /\ w.id = i /\ w.arg = dialog'
  <2>1. CASE /\ dialog' = dialog /\ section'.rows[i].busy = section.rows[i].busy
             /\ \A g \in G : ~(g.op \in DirectActions /\ g.here /\ g.id = i)
    <3>1. PICK w \in S : w.op = section.rows[i].busy /\ w.here /\ w.id = i /\ w.arg = dialog
      BY <1>1, <1>4, <2>1 DEF InnerBusy, Row
    <3>2. w.op \in DirectActions BY <1>4, <2>1, <3>1 DEF SectionOK
    <3>3. QED BY <2>1, <3>1, <3>2 DEF KeepsHere, SameCall
  <2>2. QED BY <1>4, <2>1 DEF InnerEffect
<1>5. QED BY <1>1, <1>2, <1>3, <1>4 DEF InnerBusy, Row

(* The sections are gone, or fresh. *)
IdleSection(s, state) ==
  /\ s.state = state /\ DOMAIN s = {"state", "pairs", "rows"} /\ DOMAIN s.rows = Ids
  /\ \A i \in Ids : s.rows[i].busy = "" /\ DOMAIN s.rows[i] = {"current", "busy", "confirming"}

LEMMA SectionFacts ==
  ASSUME NEW state, NEW pairs
  PROVE  IdleSection(SectionOf(state, pairs), state)
BY DEF IdleSection, SectionOf, IdleRow

LEMMA InnerBlank ==
  ASSUME editor' = NoEditor, section' = NoSection
  PROVE  InnerBusy' /\ SectionOK'
<1>1. IdleSection(section', "unmounted") BY SectionFacts DEF NoSection
<1>2. editor'.phase = "idle" BY DEF NoEditor
<1>3. QED BY <1>1, <1>2 DEF IdleSection, InnerBusy, SectionOK, Row
(* Ways to reach the invariant again. *)
LEMMA BusyByEffect ==
  ASSUME BusyInv, NEW G, KeepsHere(BagToSet(requests) \ G, BagToSet(requests')),
         OuterEffect(G, BagToSet(requests')), InnerEffect(G, BagToSet(requests')),
         SectionOK', ClosedIsBlank'
  PROVE  BusyInv'
<1>1. OuterBusy /\ InnerBusy /\ SectionOK BY DEF BusyInv
<1>2. Keeps(BagToSet(requests) \ G, BagToSet(requests')) BY KeepsFacts
<1>3. QED BY <1>1, <1>2, OuterStep, InnerStep DEF BusyInv

LEMMA BusyBlank ==
  ASSUME BusyInv, NEW G, Keeps(BagToSet(requests) \ G, BagToSet(requests')),
         OuterEffect(G, BagToSet(requests')), editor' = NoEditor, section' = NoSection, ClosedIsBlank'
  PROVE  BusyInv'
<1>1. OuterBusy BY DEF BusyInv
<1>2. QED BY <1>1, OuterStep, InnerBlank DEF BusyInv

LEMMA NothingEnds ==
  ASSUME NEW T
  PROVE  /\ UNCHANGED <<listState, wizard, removal>> => OuterEffect({}, T)
         /\ UNCHANGED <<dialog, editor, section>> => InnerEffect({}, T)
         /\ SectionOK /\ UNCHANGED section => SectionOK'
         /\ ClosedIsBlank /\ UNCHANGED <<dialog, wizard>> => ClosedIsBlank'
<1>1. \A ops : ~Calls({}, ops) BY DEF Calls
<1>2. UNCHANGED <<listState, wizard, removal>> => OuterEffect({}, T) BY <1>1 DEF OuterEffect
<1>3. UNCHANGED <<dialog, editor, section>> => InnerEffect({}, T) BY DEF InnerEffect
<1>4. SectionOK /\ UNCHANGED section => SectionOK' BY DEF SectionOK
<1>5. ClosedIsBlank /\ UNCHANGED <<dialog, wizard>> => ClosedIsBlank' BY DEF ClosedIsBlank
<1>6. QED BY <1>2, <1>3, <1>4, <1>5

(* Sending a change makes the dialog that sends it busy. *)
LEMMA ChangeKeeps ==
  ASSUME AllFine(requests, consented), NEW op \in RegistryChanges, NEW i \in Ids,
         NEW enabled \in {"on", "off"}, Change(op, i, enabled)
  PROVE  KeepsHere(BagToSet(requests), BagToSet(requests')) /\ Calls(BagToSet(requests'), {op})
<1> DEFINE q == [Request(op, i) EXCEPT !.arg = enabled]
<1>1. Good(q, consented) BY ArgGood DEF RegistryChanges, DirectActions
<1>2. q.op = op BY DEF Request
<1>3. requests' = Sending(q, requests) BY Zenon DEF Change
<1> HIDE DEF q
<1>4. QED BY <1>1, <1>2, <1>3, SendKeeps DEF Calls

LEMMA UserBusy ==
  ASSUME SettingsInv, BusyInv, UserStep
  PROVE  BusyInv'
<1>0. /\ AllFine(requests, consented) /\ PageOK /\ SectionOK /\ ClosedIsBlank
      /\ DOMAIN wizard = {"step", "active", "result", "saving", "trusting"}
      /\ DOMAIN editor = {"typed", "phase"} /\ DOMAIN removal = {"target", "busy"}
  BY DEF SettingsInv, BusyInv, PageOK
<1> DEFINE S == BagToSet(requests)
           T == BagToSet(requests')
<1>1. ASSUME KeepsHere(S, T), OuterEffect({}, T), InnerEffect({}, T), SectionOK', ClosedIsBlank'
      PROVE  BusyInv'
  <2>1. S \ {} = S OBVIOUS
  <2>2. QED BY <1>1, <2>1, BusyByEffect
<1>2. ASSUME Keeps(S, T), OuterEffect({}, T), editor' = NoEditor, section' = NoSection, ClosedIsBlank'
      PROVE  BusyInv'
  <2>1. S \ {} = S OBVIOUS
  <2>2. QED BY <1>2, <2>1, BusyBlank
<1>3. ASSUME UNCHANGED requests PROVE KeepsHere(S, T) BY <1>3, KeepsFacts
<1>4. ASSUME NEW q, Good(q, consented), requests' = Adding({q}, requests)
      PROVE  KeepsHere(S, T) /\ q \in T
  BY <1>0, <1>4, AddKeeps
<1>5. \A ops : ~Calls({}, ops) BY DEF Calls
<1> HIDE DEF S, T
<1> USE DEF list, page
<1>6. CASE OpenAdd
  <2>1. KeepsHere(S, T) /\ UNCHANGED <<listState, removal>> BY <1>3, <1>6 DEF OpenAdd
  <2>2. OuterEffect({}, T) BY <1>5, <1>6, <2>1 DEF OpenAdd, Form, OuterEffect
  <2>3. ClosedIsBlank' BY <1>6 DEF OpenAdd, ClosedIsBlank
  <2>4. QED BY <1>2, <1>6, <2>1, <2>2, <2>3, KeepsFacts DEF OpenAdd
<1>7. CASE onClose
  <2>1. Keeps(S, T) /\ UNCHANGED <<listState, removal>>
    BY <1>0, <1>7, UnmountKeeps DEF onClose, S, T
  <2>2. OuterEffect({}, T) BY <1>5, <1>7, <2>1 DEF onClose, Closed, Form, OuterEffect
  <2>3. ClosedIsBlank' BY <1>7 DEF onClose, Closed, ClosedIsBlank, Form
  <2>4. QED BY <1>2, <1>7, <2>1, <2>2, <2>3 DEF onClose, Closed
<1>8. CASE CloseRemove
  <2>1. OuterEffect({}, T) BY <1>0, <1>5, <1>8 DEF CloseRemove, OuterEffect
  <2>2. QED BY <1>0, <1>1, <1>3, <1>8, <2>1, NothingEnds DEF CloseRemove
<1>9. ASSUME NEW i \in Ids, OpenRemove(i) PROVE BusyInv'
  <2>1. OuterEffect({}, T) BY <1>0, <1>5, <1>9 DEF OpenRemove, OuterEffect
  <2>2. QED BY <1>0, <1>1, <1>3, <1>9, <2>1, NothingEnds DEF OpenRemove
<1>10. CASE loadServers
  <2>1. Good(List, consented) /\ List.op = "list" BY ListGood DEF List, Request
  <2>2. KeepsHere(S, T) /\ Calls(T, {"list"})
    BY <1>0, <1>10, <2>1, SendKeeps DEF loadServers, Calls, S, T
  <2>3. OuterEffect({}, T) BY <1>5, <1>10, <2>2 DEF loadServers, OuterEffect
  <2>4. QED BY <1>0, <1>1, <1>10, <2>2, <2>3, NothingEnds DEF loadServers
<1>11. CASE removeServer
  <2>1. removal.target \in Ids BY <1>0, <1>11 DEF removeServer, PageOK
  <2>2. KeepsHere(S, T) /\ Calls(T, {"delete"})
    BY <1>0, <1>11, <2>1, ChangeKeeps DEF removeServer, RegistryChanges, S, T
  <2>3. UNCHANGED <<listState, dialog, wizard, editor, section>> BY <1>11 DEF removeServer, Change
  <2>4. OuterEffect({}, T) BY <1>5, <2>2, <2>3 DEF OuterEffect
  <2>5. QED BY <1>0, <1>1, <2>2, <2>3, <2>4, NothingEnds
<1>12. CASE runTest
  <2>1. wizard.active \in Ids BY <1>0, <1>12 DEF runTest, PageOK
  <2> DEFINE q == Request("test", wizard.active)
  <2>2. Good(q, consented) BY <2>1, PlainGood DEF Plain
  <2>3. q.op = "test" BY DEF Request
  <2>4. requests' = Unmounting(Adding({q}, requests)) BY <1>12 DEF runTest
  <2> HIDE DEF q
  <2>5. AllFine(Adding({q}, requests), consented) BY <1>0, <2>2, AddGood
  <2>6. KeepsHere(S, BagToSet(Adding({q}, requests))) /\ q \in BagToSet(Adding({q}, requests))
    BY <1>0, <2>2, AddKeeps DEF S
  <2>7. Keeps(BagToSet(Adding({q}, requests)), T) BY <2>4, <2>5, UnmountKeeps DEF T
  <2>8. Keeps(S, T) BY <2>6, <2>7, KeepsFacts
  <2>9. Calls(T, {"test"}) BY <2>3, <2>6, <2>7 DEF Keeps, SameCall, Calls
  <2>10. UNCHANGED <<listState, dialog, removal>> /\ wizard' = Testing /\ dialog # None
    BY <1>12 DEF runTest
  <2>11. OuterEffect({}, T) BY <1>0, <1>5, <2>9, <2>10 DEF Testing, OuterEffect
  <2>12. QED BY <1>2, <1>12, <2>8, <2>10, <2>11 DEF runTest, ClosedIsBlank
<1>13. CASE BackToForm
  <2>1. /\ UNCHANGED <<listState, dialog, editor, removal>> /\ dialog # None
        /\ wizard' = [wizard EXCEPT !.step = "form", !.result = NoResult]
    BY <1>13 DEF BackToForm
  <2>2. OuterEffect({}, T) BY <1>0, <1>5, <2>1 DEF OuterEffect
  <2>3. ClosedIsBlank' BY <2>1 DEF ClosedIsBlank
  <2>4. CASE dialog = "add"
    <3>1. UNCHANGED <<requests, section>> BY <1>13, <2>4 DEF BackToForm
    <3>2. QED BY <1>0, <1>1, <1>3, <2>1, <2>2, <2>3, <3>1, NothingEnds
  <2>5. CASE dialog # "add"
    <3>1. dialog \in Ids BY <1>0, <1>13, <2>5 DEF BackToForm, PageOK
    <3> DEFINE q == Request("pairs", dialog)
    <3>2. Good(q, consented) BY <3>1, PlainGood DEF Plain
    <3>3. q.op = "pairs" /\ q.here /\ q.id = dialog BY DEF Request
    <3>4. requests' = Adding({q}, requests) /\ section' = SectionOf("loading", NoPairs)
      BY <1>13, <2>5 DEF BackToForm, Mounting
    <3> HIDE DEF q
    <3>5. KeepsHere(S, T) /\ q \in T BY <1>4, <3>2, <3>4
    <3>6. IdleSection(section', "loading") BY <3>4, SectionFacts
    <3>7. InnerEffect({}, T) BY <2>1, <3>3, <3>5, <3>6 DEF InnerEffect, IdleSection
    <3>8. SectionOK' BY <3>6 DEF IdleSection, SectionOK
    <3>9. QED BY <1>1, <2>2, <2>3, <3>5, <3>7, <3>8
  <2>6. QED BY <2>4, <2>5
<1>14. CASE trustAndRetry
  <2>1. wizard.active \in Ids BY <1>0, <1>14 DEF trustAndRetry, PageOK
  <2> DEFINE q == [Request("trust", wizard.active) EXCEPT !.arg = wizard.result[1], !.key = wizard.result[3]]
  <2>2. <<wizard.result[1], wizard.result[3]>> \in consented' /\ consented \subseteq consented'
    BY <1>14 DEF trustAndRetry
  <2>3. Good(q, consented') BY <2>1, <2>2, TrustGood
  <2>4. IsTrusting(q) BY DEF Request, IsTrusting
  <2>5. requests' = Adding({q}, requests) BY <1>14 DEF trustAndRetry
  <2> HIDE DEF q
  <2>6. AllFine(requests, consented') BY <1>0, <2>2, GoodMonotone
  <2>7. KeepsHere(S, T) /\ q \in T BY <2>3, <2>5, <2>6, AddKeeps DEF S, T
  <2>8. /\ UNCHANGED <<listState, dialog, editor, section, removal>> /\ dialog # None
        /\ wizard' = [wizard EXCEPT !.trusting = TRUE]
    BY <1>14 DEF trustAndRetry
  <2>9. OuterEffect({}, T) BY <1>0, <1>5, <2>4, <2>7, <2>8 DEF OuterEffect
  <2>10. ClosedIsBlank' BY <2>8 DEF ClosedIsBlank
  <2>11. QED BY <1>0, <1>1, <2>7, <2>8, <2>9, <2>10, NothingEnds
<1>15. CASE typePassword \/ CancelPassword
  <2>1. UNCHANGED <<requests, listState, dialog, wizard, section, removal>> /\ editor'.phase = editor.phase
    BY <1>0, <1>15 DEF typePassword, CancelPassword
  <2>2. InnerEffect({}, T) BY <2>1 DEF InnerEffect
  <2>3. QED BY <1>0, <1>1, <1>3, <2>1, <2>2, NothingEnds
<1>16. ASSUME NEW q, Good(q, consented), requests' = Adding({q}, requests),
              q.op \in PasswordActions, q.here, q.id = dialog,
              UNCHANGED <<listState, dialog, wizard, section, removal>>
       PROVE  BusyInv'
  <2>1. KeepsHere(S, T) /\ q \in T BY <1>4, <1>16
  <2>2. InnerEffect({}, T) BY <1>16, <2>1 DEF InnerEffect
  <2>3. QED BY <1>0, <1>1, <1>16, <2>1, <2>2, NothingEnds
<1>17. CASE save
  <2>1. dialog \in Ids /\ editor.typed = dialog BY <1>0, <1>17 DEF save, Mounted, PageOK
  <2> DEFINE q == [Request("setPassword", dialog) EXCEPT !.arg = editor.typed]
  <2>2. Good(q, consented) BY <2>1, ArgGood DEF DirectActions
  <2>3. q.op \in PasswordActions /\ q.here /\ q.id = dialog BY DEF Request, PasswordActions
  <2>4. requests' = Adding({q}, requests) BY <1>17 DEF save
  <2> HIDE DEF q
  <2>5. QED BY <1>16, <1>17, <2>2, <2>3, <2>4 DEF save
<1>18. CASE clear
  <2> DEFINE q == Request("deletePassword", dialog)
  <2>1. Good(q, consented) BY <1>18, PlainGood DEF clear, Mounted, Plain
  <2>2. q.op \in PasswordActions /\ q.here /\ q.id = dialog BY DEF Request, PasswordActions
  <2>3. requests' = Adding({q}, requests) BY <1>18 DEF clear
  <2> HIDE DEF q
  <2>4. QED BY <1>16, <1>18, <2>1, <2>2, <2>3 DEF clear
<1>19. CASE RetryAuth
  <2>1. Good(Request("auth", dialog), consented)
    BY <1>19, PlainGood DEF RetryAuth, Mounted, Plain
  <2>2. KeepsHere(S, T) BY <1>4, <1>19, <2>1 DEF RetryAuth
  <2>3. QED BY <1>0, <1>1, <1>19, <2>2, NothingEnds DEF RetryAuth
<1>20. CASE RetryPairs
  <2> DEFINE q == Request("pairs", dialog)
  <2>1. Good(q, consented) BY <1>20, PlainGood DEF RetryPairs, Mounted, Plain
  <2>2. q.op = "pairs" /\ q.here /\ q.id = dialog BY DEF Request
  <2>3. /\ requests' = Adding({q}, requests) /\ section' = [section EXCEPT !.state = "loading"]
        /\ UNCHANGED <<listState, dialog, wizard, editor, removal>>
    BY <1>20 DEF RetryPairs, Mounting
  <2> HIDE DEF q
  <2>4. KeepsHere(S, T) /\ q \in T BY <1>4, <2>1, <2>3
  <2>5. section'.rows = section.rows BY <1>0, <2>3 DEF SectionOK
  <2>6. InnerEffect({}, T) BY <2>2, <2>3, <2>4, <2>5 DEF InnerEffect
  <2>7. SectionOK' BY <1>0, <2>3, <2>5 DEF SectionOK
  <2>8. QED BY <1>0, <1>1, <2>3, <2>4, <2>6, <2>7, NothingEnds
<1>21. ASSUME NEW enabled \in {"on", "off"}, submit(enabled) PROVE BusyInv'
  <2>1. KeepsHere(S, T) /\ Calls(T, {"create", "patch"})
    <3>1. ASSUME NEW i \in Ids, Change("create", i, enabled)
          PROVE  KeepsHere(S, T) /\ Calls(T, {"create"})
      BY <1>0, <3>1, ChangeKeeps DEF RegistryChanges, S, T
    <3>2. CASE dialog # "add" /\ Change("patch", dialog, enabled)
      <4>1. dialog \in Ids BY <1>0, <1>21, <3>2 DEF submit, PageOK
      <4>2. KeepsHere(S, T) /\ Calls(T, {"patch"})
        BY <1>0, <3>2, <4>1, ChangeKeeps DEF RegistryChanges, S, T
      <4>3. QED BY <4>2 DEF Calls
    <3>3. \/ \E i \in Ids : Change("create", i, enabled)
          \/ dialog # "add" /\ Change("patch", dialog, enabled)
      BY <1>21, Zenon DEF submit
    <3>4. QED BY <3>1, <3>2, <3>3 DEF Calls
  <2>2. /\ UNCHANGED <<listState, dialog, editor, section, removal>> /\ dialog # None
        /\ wizard' = [wizard EXCEPT !.saving = TRUE]
    BY <1>21 DEF submit, Change
  <2>3. OuterEffect({}, T) BY <1>0, <1>5, <2>1, <2>2 DEF OuterEffect
  <2>4. ClosedIsBlank' BY <2>2 DEF ClosedIsBlank
  <2>5. QED BY <1>0, <1>1, <2>1, <2>2, <2>3, <2>4, NothingEnds
<1>22. ASSUME NEW op \in RegistryChanges, NEW enabled \in {"on", "off"}, NEW i \in Ids,
              Change(op, i, enabled), UNCHANGED page
       PROVE  BusyInv'
  <2>1. KeepsHere(S, T)
    <3>1. AllFine(requests, consented) BY <1>0
    <3>2. Change(op, i, enabled) BY <1>22
    <3>3. KeepsHere(BagToSet(requests), BagToSet(requests')) BY <3>1, <3>2, ChangeKeeps
    <3>4. QED BY <3>3 DEF S, T
  <2>2. UNCHANGED <<listState, wizard, removal, dialog, editor, section>> BY <1>22 DEF Change
  <2>3. QED BY <1>0, <1>1, <2>1, <2>2, NothingEnds
<1>23. ASSUME NEW enabled \in {"on", "off"}, NEW i \in Ids, toggleEnabled(i, enabled) PROVE BusyInv'
  BY <1>22, <1>23 DEF toggleEnabled, RegistryChanges
<1>24. ASSUME NEW i \in Ids, FleetRemove(i) PROVE BusyInv'
  BY <1>22, <1>24 DEF FleetRemove, RegistryChanges
<1>25. ASSUME NEW i \in Ids, OpenEdit(i) PROVE BusyInv'
  <2> DEFINE p == Request("auth", i)
             q == Request("pairs", i)
  <2>1. Good(p, consented) /\ Good(q, consented) BY PlainGood DEF Plain
  <2>2. q.op = "pairs" /\ q.here /\ q.id = i BY DEF Request
  <2>3. /\ requests' = Adding({q}, Adding({p}, requests)) /\ dialog' = i /\ wizard' = Form(i)
        /\ editor' = NoEditor /\ section' = SectionOf("loading", NoPairs)
        /\ UNCHANGED <<listState, removal>>
    BY <1>25 DEF OpenEdit, Mounting
  <2> HIDE DEF p, q
  <2>4. AllFine(Adding({p}, requests), consented) BY <1>0, <2>1, AddGood
  <2>5. KeepsHere(S, BagToSet(Adding({p}, requests))) BY <1>0, <2>1, AddKeeps DEF S
  <2>6. KeepsHere(BagToSet(Adding({p}, requests)), T) /\ q \in T
    BY <2>1, <2>3, <2>4, AddKeeps DEF T
  <2>7. KeepsHere(S, T) BY <2>5, <2>6, KeepsFacts
  <2>8. IdleSection(section', "loading") BY <2>3, SectionFacts
  <2>9. SectionOK' BY <2>8 DEF IdleSection, SectionOK
  <2>10. InnerEffect({}, T) BY <2>2, <2>3, <2>6, <2>8 DEF InnerEffect, IdleSection, NoEditor
  <2>11. OuterEffect({}, T) BY <1>5, <2>3 DEF OuterEffect, Form
  <2>12. ClosedIsBlank' BY <2>3, SettingsAssumption DEF ClosedIsBlank
  <2>13. QED BY <1>1, <2>7, <2>9, <2>10, <2>11, <2>12
<1>26. ASSUME NEW i \in Ids, NEW action \in DirectActions, run(i, action) PROVE BusyInv'
  <2> DEFINE q == [Request(action, i) EXCEPT !.arg = dialog]
  <2>1. Good(q, consented) BY <1>26, ArgGood DEF run, Mounted, DirectActions
  <2>2. q.op = action /\ q.here /\ q.id = i /\ q.arg = dialog BY DEF Request
  <2>3. /\ requests' = Adding({q}, requests) /\ section' = [section EXCEPT !.rows[i].busy = action]
        /\ UNCHANGED <<listState, dialog, wizard, editor, removal>>
    BY <1>26 DEF run
  <2> HIDE DEF q
  <2>4. KeepsHere(S, T) /\ q \in T BY <1>4, <2>1, <2>3
  <2>5. /\ section'.state = section.state /\ DOMAIN section' = DOMAIN section
        /\ section'.rows = [section.rows EXCEPT ![i].busy = action]
    BY <1>0, <2>3 DEF SectionOK
  <2>6. /\ section'.rows[i].busy = action
        /\ \A j \in Ids : j # i => section'.rows[j] = section.rows[j]
        /\ DOMAIN section'.rows = Ids /\ DOMAIN section'.rows[i] = DOMAIN section.rows[i]
    <3>1. DOMAIN section.rows = Ids /\ "busy" \in DOMAIN section.rows[i] BY <1>0 DEF SectionOK
    <3>2. section'.rows[i] = [section.rows[i] EXCEPT !.busy = action] BY <2>5, <3>1
    <3>3. QED BY <2>5, <3>1, <3>2
  <2>7. SectionOK' BY <1>0, <2>5, <2>6 DEF SectionOK
  <2>8. InnerEffect({}, T) BY <2>2, <2>3, <2>4, <2>5, <2>6 DEF InnerEffect
  <2>9. QED BY <1>0, <1>1, <2>3, <2>4, <2>7, <2>8, NothingEnds
<1>27. ASSUME NEW i \in Ids, NEW yes \in BOOLEAN, ConfirmRevoke(i, yes) PROVE BusyInv'
  <2>1. /\ UNCHANGED <<requests, listState, dialog, wizard, editor, removal>>
        /\ section' = [section EXCEPT !.rows[i].confirming = yes]
    BY <1>27 DEF ConfirmRevoke
  <2>2. /\ section'.state = section.state /\ DOMAIN section' = DOMAIN section
        /\ section'.rows = [section.rows EXCEPT ![i].confirming = yes]
    BY <1>0, <2>1 DEF SectionOK
  <2>3. /\ section'.rows[i].busy = section.rows[i].busy
        /\ \A j \in Ids : j # i => section'.rows[j] = section.rows[j]
        /\ DOMAIN section'.rows = Ids /\ DOMAIN section'.rows[i] = DOMAIN section.rows[i]
    BY <1>0, <2>2 DEF SectionOK
  <2>4. SectionOK' BY <1>0, <2>2, <2>3 DEF SectionOK
  <2>5. InnerEffect({}, T) BY <2>1, <2>2, <2>3 DEF InnerEffect
  <2>6. QED BY <1>0, <1>1, <1>3, <2>1, <2>4, <2>5, NothingEnds
<1>28. QED
  BY <1>6, <1>7, <1>8, <1>9, <1>10, <1>11, <1>12, <1>13, <1>14, <1>15, <1>17, <1>18, <1>19,
     <1>20, <1>21, <1>23, <1>24, <1>25, <1>26, <1>27, Zenon DEF UserStep
LEMMA ServeBusy ==
  ASSUME SettingsInv, BusyInv, NEW r \in BagToSet(requests), Serve(r)
  PROVE  BusyInv'
<1>0. BackendOK /\ AllFine(requests, consented) /\ SectionOK /\ ClosedIsBlank
  BY DEF SettingsInv, BusyInv
<1> DEFINE S == BagToSet(requests)
           T == BagToSet(requests')
<1>1. ServeStep(r) /\ UNCHANGED <<listState, dialog, wizard, editor, section, removal>>
  BY DEF Serve, ServeStep, list, page
<1>2. PICK s : Good(s, consented) /\ Answers(s, r) /\ Becomes(r, s) BY <1>0, <1>1, ServeAnswer
<1>3. s \in T /\ \A e \in S : e # r => e \in T BY <1>0, <1>2, BecomesGood
<1>4. SameCall(s, r) /\ s.here = r.here BY <1>2 DEF Answers, SameCall
<1>5. \A e \in S : SameCall(e, e) BY DEF SameCall
<1> HIDE DEF S, T
<1>6. KeepsHere(S, T) BY <1>3, <1>4, <1>5 DEF KeepsHere
<1>7. S \ {} = S OBVIOUS
<1>8. OuterEffect({}, T) /\ InnerEffect({}, T) /\ SectionOK' /\ ClosedIsBlank'
  BY <1>0, <1>1, NothingEnds
<1>9. QED BY <1>6, <1>7, <1>8, BusyByEffect DEF S, T

(* What landing in the server dialog does: nothing when it is closed.        *)
LEMMA LandingFacts ==
  ASSUME ClosedIsBlank, NEW w, Landing(w), dialog' = dialog
  PROVE  /\ ClosedIsBlank'
         /\ dialog = None => wizard' = wizard /\ ~wizard.saving /\ wizard.step = "form" /\ ~wizard.trusting
         /\ dialog # None => wizard' = w
<1>1. CASE dialog = None
  <2>1. wizard = Form(None) /\ wizard' = wizard BY <1>1 DEF ClosedIsBlank, Landing
  <2>2. ~wizard.saving /\ wizard.step = "form" /\ ~wizard.trusting BY <2>1 DEF Form
  <2>3. ClosedIsBlank'
    <3>1. Form(None)' = Form(None) BY DEF Form, NoResult
    <3>2. QED BY <2>1, <3>1 DEF ClosedIsBlank
  <2>4. QED BY <1>1, <2>1, <2>2, <2>3
<1>2. CASE dialog # None BY <1>2 DEF ClosedIsBlank, Landing
<1>3. QED BY <1>1, <1>2

LEMMA ArriveBusy ==
  ASSUME SettingsInv, BusyInv, NEW r \in BagToSet(requests), Arrives(r)
  PROVE  BusyInv'
<1>0. /\ AllFine(requests, consented) /\ Good(r, consented) /\ PageOK /\ SectionOK /\ ClosedIsBlank
      /\ DOMAIN wizard = {"step", "active", "result", "saving", "trusting"}
      /\ DOMAIN editor = {"typed", "phase"} /\ DOMAIN removal = {"target", "busy"}
  BY DEF SettingsInv, BusyInv, PageOK, AllFine
<1> DEFINE S == BagToSet(requests)
           T == BagToSet(requests')
           rest == Removing(r, requests)
           new == Refreshing(rest)
<1>1. ASSUME KeepsHere(S \ {r}, T), OuterEffect({r}, T), InnerEffect({r}, T), SectionOK',
             ClosedIsBlank'
      PROVE  BusyInv'
  BY <1>1, BusyByEffect
<1>2. ASSUME Keeps(S \ {r}, T), OuterEffect({r}, T), editor' = NoEditor, section' = NoSection,
             ClosedIsBlank'
      PROVE  BusyInv'
  BY <1>2, BusyBlank
<1>3. AllFine(rest, consented) /\ KeepsHere(S \ {r}, BagToSet(rest))
  BY <1>0, RemoveGood, RemoveKeeps
<1> HIDE DEF S, rest
<1>4. AllFine(new, consented) /\ KeepsHere(S \ {r}, BagToSet(new)) /\ Calls(BagToSet(new), {"list"})
  BY <1>3, RefreshGood, RefreshKeeps, KeepsFacts DEF Calls
<1>5. \A ops : Calls({r}, ops) <=> r.op \in ops BY DEF Calls
<1> HIDE DEF new, T
<1> USE DEF list, page
<1>6. CASE CreateArrives(r)
  <2> DEFINE q == Request("test", r.id)
  <2>1. Good(q, consented) BY <1>0, <1>6, PlainGood DEF CreateArrives, Good, Plain
  <2>2. q.op = "test" BY DEF Request
  <2>3. requests' = Adding({q}, Unmounting(new)) BY <1>6 DEF CreateArrives, rest, new
  <2> HIDE DEF q
  <2>4. AllFine(Unmounting(new), consented) BY <1>4, UnmountGood
  <2>5. Keeps(BagToSet(new), BagToSet(Unmounting(new))) BY <1>4, UnmountKeeps
  <2>6. Keeps(BagToSet(Unmounting(new)), T) /\ q \in T
    BY <2>1, <2>3, <2>4, AddKeeps, KeepsFacts DEF T
  <2>7. Keeps(BagToSet(new), T) BY <2>5, <2>6, KeepsFacts
  <2>8. Keeps(S \ {r}, T) BY <1>4, <2>7, KeepsFacts
  <2>9. Calls(T, {"list"}) BY <1>4, <2>7 DEF Calls, Keeps, SameCall
  <2>10. Calls(T, {"test"}) BY <2>2, <2>6 DEF Calls
  <2>11. /\ r.op = "create" /\ dialog' = dialog /\ removal' = removal
         /\ Landing([Testing EXCEPT !.active = r.id, !.saving = FALSE])
         /\ editor' = NoEditor /\ section' = NoSection
    BY <1>6 DEF CreateArrives
  <2>12. ClosedIsBlank' BY <1>0, <2>11, LandingFacts
  <2>13. ~wizard'.saving /\ (wizard'.trusting => wizard.trusting)
    <3> DEFINE w == [Testing EXCEPT !.active = r.id, !.saving = FALSE]
    <3>1. ~w.saving /\ w.trusting = wizard.trusting BY <1>0 DEF Testing
    <3>2. Landing(w) BY <2>11
    <3> HIDE DEF w
    <3>3. QED BY <1>0, <2>11, <3>1, <3>2, LandingFacts
  <2>14. OuterEffect({r}, T)
    BY <1>5, <2>9, <2>10, <2>11, <2>13 DEF OuterEffect, IsTrusting
  <2>15. QED BY <1>2, <2>8, <2>11, <2>12, <2>14
<1>7. CASE PatchArrives(r)
  <2>1. requests' = Unmounting(new) BY <1>7 DEF PatchArrives, rest, new
  <2>2. Keeps(BagToSet(new), T) BY <1>4, <2>1, UnmountKeeps DEF T
  <2>3. Keeps(S \ {r}, T) BY <1>4, <2>2, KeepsFacts
  <2>4. Calls(T, {"list"}) BY <1>4, <2>2 DEF Calls, Keeps, SameCall
  <2>5. r.op = "patch" /\ Closed /\ removal' = removal BY <1>7 DEF PatchArrives
  <2>6. ClosedIsBlank' BY <2>5 DEF Closed, ClosedIsBlank, Form
  <2>7. OuterEffect({r}, T) BY <1>5, <2>4, <2>5 DEF OuterEffect, Closed, Form
  <2>8. QED BY <1>2, <2>3, <2>5, <2>6, <2>7 DEF Closed
<1>8. CASE RemovalArrives(r)
  <2>1. /\ r.op \in {"delete", "toggle", "fleetDelete"} /\ requests' = new
        /\ removal' = IF r.op = "delete" THEN [target |-> None, busy |-> FALSE] ELSE removal
        /\ UNCHANGED <<dialog, wizard, editor, section>>
    BY <1>8 DEF RemovalArrives, rest, new
  <2>2. KeepsHere(S \ {r}, T) /\ Calls(T, {"list"}) BY <1>4, <2>1 DEF T
  <2>3. OuterEffect({r}, T) BY <1>5, <2>1, <2>2 DEF OuterEffect, IsTrusting
  <2>4. InnerEffect({r}, T)
    BY <2>1 DEF InnerEffect, PasswordActions, DirectActions
  <2>5. QED BY <1>0, <1>1, <2>1, <2>2, <2>3, <2>4, NothingEnds
<1>9. CASE ListArrives(r)
  <2>1. /\ r.op = "list" /\ requests' = rest /\ listState' = [listState EXCEPT !.loading = FALSE]
        /\ UNCHANGED <<dialog, wizard, editor, section, removal>>
    BY <1>9 DEF ListArrives, rest
  <2>2. ~listState'.loading BY <1>0, <2>1 DEF PageOK
  <2>3. KeepsHere(S \ {r}, T) BY <1>3, <2>1 DEF T
  <2>4. OuterEffect({r}, T) BY <1>5, <2>1, <2>2 DEF OuterEffect, IsTrusting
  <2>5. InnerEffect({r}, T) BY <2>1 DEF InnerEffect, PasswordActions, DirectActions
  <2>6. QED BY <1>0, <1>1, <2>1, <2>3, <2>4, <2>5, NothingEnds
<1>10. CASE TestArrives(r)
  <2> DEFINE w == [wizard EXCEPT !.step = "result", !.result = <<r.id, r.kind, r.key>>,
                                 !.trusting = @ /\ r.arg # "chain"]
  <2>1. /\ r.op = "test" /\ requests' = Unmounting(rest) /\ Landing(w)
        /\ editor' = NoEditor /\ section' = NoSection
        /\ UNCHANGED <<listState, dialog, removal>>
    BY <1>10 DEF TestArrives, rest
  <2>2. w.step = "result" /\ w.saving = wizard.saving /\ w.trusting = (wizard.trusting /\ r.arg # "chain")
    BY <1>0
  <2> HIDE DEF w
  <2>3. Keeps(S \ {r}, T) BY <1>3, <2>1, UnmountKeeps, KeepsFacts DEF T
  <2>4. ClosedIsBlank' BY <1>0, <2>1, LandingFacts
  <2>5. /\ wizard'.saving => wizard.saving /\ wizard'.step # "testing"
        /\ wizard'.trusting => wizard.trusting /\ r.arg # "chain"
    BY <1>0, <2>1, <2>2, LandingFacts
  <2>6. wizard'.step # "testing" BY <1>0, <2>1, <2>2, LandingFacts
  <2>7. OuterEffect({r}, T) BY <1>5, <2>1, <2>5, <2>6 DEF OuterEffect, IsTrusting
  <2>8. QED BY <1>2, <2>1, <2>3, <2>4, <2>7
<1>11. CASE TrustArrives(r)
  <2> DEFINE q == [Request("test", r.id) EXCEPT !.arg = "chain"]
  <2>1. r.id \in Ids BY <1>0, <1>11 DEF TrustArrives, Good
  <2>2. Good(q, consented) BY <2>1, ArgGood DEF DirectActions
  <2>3. q.op = "test" /\ q.arg = "chain" BY DEF Request
  <2>4. /\ r.op = "trust" /\ requests' = Unmounting(Adding({q}, rest)) /\ Landing(Testing)
        /\ editor' = NoEditor /\ section' = NoSection
        /\ UNCHANGED <<listState, dialog, removal>>
    BY <1>11 DEF TrustArrives, rest
  <2> HIDE DEF q
  <2>5. AllFine(Adding({q}, rest), consented) BY <1>3, <2>2, AddGood
  <2>6. Keeps(BagToSet(rest), BagToSet(Adding({q}, rest))) /\ q \in BagToSet(Adding({q}, rest))
    BY <1>3, <2>2, AddKeeps, KeepsFacts
  <2>7. Keeps(BagToSet(Adding({q}, rest)), T) BY <2>4, <2>5, UnmountKeeps DEF T
  <2>8. Keeps(S \ {r}, T) BY <1>3, <2>6, <2>7, KeepsFacts
  <2>9. \E v \in T : v.op = "test" /\ v.arg = "chain" BY <2>3, <2>6, <2>7 DEF Keeps, SameCall
  <2>10. Calls(T, {"test"}) /\ \E v \in T : IsTrusting(v) BY <2>9 DEF Calls, IsTrusting
  <2>11. ClosedIsBlank' BY <1>0, <2>4, LandingFacts
  <2>12. wizard'.saving => wizard.saving
    <3>1. Testing.saving = wizard.saving BY <1>0 DEF Testing
    <3>2. QED BY <1>0, <2>4, <3>1, LandingFacts
  <2>13. OuterEffect({r}, T) BY <1>5, <2>4, <2>10, <2>12 DEF OuterEffect
  <2>14. QED BY <1>2, <2>4, <2>8, <2>11, <2>13
<1>12. CASE PasswordArrives(r)
  <2> DEFINE q == Request("auth", r.id)
  <2>1. Good(q, consented)
    BY <1>0, <1>12, PlainGood DEF PasswordArrives, PasswordActions, Good, Plain
  <2>2. /\ r.op \in PasswordActions /\ requests' = Adding({q}, rest)
        /\ editor' = IF r.here THEN NoEditor ELSE editor
        /\ UNCHANGED <<listState, dialog, wizard, section, removal>>
    BY <1>12 DEF PasswordArrives, rest
  <2> HIDE DEF q
  <2>3. KeepsHere(S \ {r}, T) BY <1>3, <2>1, <2>2, AddKeeps, KeepsFacts DEF T
  <2>4. OuterEffect({r}, T) BY <1>5, <2>2 DEF OuterEffect, IsTrusting, PasswordActions
  <2>5. InnerEffect({r}, T)
    BY <2>2 DEF InnerEffect, PasswordActions, DirectActions, NoEditor
  <2>6. QED BY <1>0, <1>1, <2>2, <2>3, <2>4, <2>5, NothingEnds
<1>13. CASE AuthArrives(r)
  <2>1. /\ r.op = "auth" /\ requests' = rest
        /\ UNCHANGED <<listState, dialog, wizard, editor, section, removal>>
    BY <1>13 DEF AuthArrives, rest
  <2>2. KeepsHere(S \ {r}, T) BY <1>3, <2>1 DEF T
  <2>3. OuterEffect({r}, T) BY <1>5, <2>1 DEF OuterEffect, IsTrusting
  <2>4. InnerEffect({r}, T) BY <2>1 DEF InnerEffect, PasswordActions, DirectActions
  <2>5. QED BY <1>0, <1>1, <2>1, <2>2, <2>3, <2>4, NothingEnds
<1>14. CASE PairsArrive(r)
  <2>1. /\ r.op = "pairs" /\ requests' = rest
        /\ section' = IF r.here THEN SectionOf("loaded", r.rows) ELSE section
        /\ UNCHANGED <<listState, dialog, wizard, editor, removal>>
    BY <1>14 DEF PairsArrive, rest
  <2>2. KeepsHere(S \ {r}, T) BY <1>3, <2>1 DEF T
  <2>3. OuterEffect({r}, T) BY <1>5, <2>1 DEF OuterEffect, IsTrusting
  <2>4. CASE r.here
    <3>1. IdleSection(section', "loaded") BY <2>1, <2>4, SectionFacts
    <3>2. SectionOK' BY <3>1 DEF IdleSection, SectionOK
    <3>3. InnerEffect({r}, T) BY <2>1, <3>1 DEF InnerEffect, IdleSection, PasswordActions
    <3>4. QED BY <1>0, <1>1, <2>1, <2>2, <2>3, <3>2, <3>3, NothingEnds
  <2>5. CASE ~r.here
    <3>1. InnerEffect({r}, T) BY <2>1, <2>5 DEF InnerEffect
    <3>2. QED BY <1>0, <1>1, <2>1, <2>2, <2>3, <2>5, <3>1, NothingEnds
  <2>6. QED BY <2>4, <2>5
<1>15. CASE DirectArrives(r)
  <2> DEFINE pairs == [section.pairs EXCEPT ![r.id] = IF @ = "unlisted" THEN @ ELSE r.kind]
             row == IdleRow(Peer(pairs, r.id))
  <2>1. /\ r.op \in DirectActions /\ requests' = rest
        /\ section' = IF r.here THEN [section EXCEPT !.pairs = pairs, !.rows[r.id] = row] ELSE section
        /\ UNCHANGED <<listState, dialog, wizard, editor, removal>>
    BY <1>15 DEF DirectArrives, rest
  <2>2. KeepsHere(S \ {r}, T) BY <1>3, <2>1 DEF T
  <2>3. OuterEffect({r}, T) BY <1>5, <2>1 DEF OuterEffect, IsTrusting, DirectActions
  <2>4. CASE r.here
    <3>1. row.busy = "" /\ DOMAIN row = {"current", "busy", "confirming"} BY DEF IdleRow
    <3> HIDE DEF pairs, row
    <3>2. /\ section'.state = section.state /\ DOMAIN section' = DOMAIN section
          /\ section'.rows = [section.rows EXCEPT ![r.id] = row]
      BY <1>0, <2>1, <2>4 DEF SectionOK
    <3>3. r.id \in Ids BY <1>0, <2>1 DEF Good, DirectActions
    <3>4. /\ section'.rows[r.id] = row /\ DOMAIN section'.rows = Ids
          /\ \A j \in Ids : j # r.id => section'.rows[j] = section.rows[j]
      BY <1>0, <3>2, <3>3 DEF SectionOK
    <3>5. SectionOK' BY <1>0, <3>1, <3>2, <3>4 DEF SectionOK
    <3>6. InnerEffect({r}, T)
      <4>1. r.op \notin PasswordActions /\ r.op # "pairs" BY <2>1 DEF PasswordActions, DirectActions
      <4>2. \A j \in Ids : section'.rows[j].busy # "" => j # r.id /\ section'.rows[j] = section.rows[j]
        BY <3>1, <3>4
      <4>3. QED BY <2>1, <3>2, <4>1, <4>2 DEF InnerEffect
    <3>7. QED BY <1>0, <1>1, <2>1, <2>2, <2>3, <3>5, <3>6, NothingEnds
  <2>5. CASE ~r.here
    <3>1. InnerEffect({r}, T) BY <2>1, <2>5 DEF InnerEffect
    <3>2. QED BY <1>0, <1>1, <2>1, <2>2, <2>3, <2>5, <3>1, NothingEnds
  <2>6. QED BY <2>4, <2>5
<1>16. QED
  BY <1>6, <1>7, <1>8, <1>9, <1>10, <1>11, <1>12, <1>13, <1>14, <1>15 DEF Arrives
LEMMA FailBusy ==
  ASSUME SettingsInv, BusyInv, NEW r \in BagToSet(requests), Fails(r)
  PROVE  BusyInv'
<1>0. /\ AllFine(requests, consented) /\ Good(r, consented) /\ PageOK /\ SectionOK /\ ClosedIsBlank
      /\ DOMAIN wizard = {"step", "active", "result", "saving", "trusting"}
      /\ DOMAIN editor = {"typed", "phase"} /\ DOMAIN removal = {"target", "busy"}
  BY DEF SettingsInv, BusyInv, PageOK, AllFine
<1> DEFINE S == BagToSet(requests)
           T == BagToSet(requests')
           rest == Removing(r, requests)
<1>1. AllFine(rest, consented) /\ KeepsHere(S \ {r}, BagToSet(rest))
  BY <1>0, RemoveGood, RemoveKeeps
<1>2. requests' = IF r.op = "test" THEN Unmounting(rest) ELSE rest BY DEF Fails
<1> HIDE DEF S, rest
<1>3. \A ops : Calls({r}, ops) <=> r.op \in ops BY DEF Calls
<1>4. UNCHANGED dialog BY DEF Fails
<1>5. listState'.loading => listState.loading /\ r.op # "list"
  <2>1. listState' = IF r.op = "list" THEN [loading |-> FALSE, error |-> TRUE] ELSE listState
    BY DEF Fails
  <2>2. QED BY <2>1
<1>6. removal'.busy => removal.busy /\ r.op # "delete"
  <2>1. removal' = IF r.op = "delete" THEN [removal EXCEPT !.busy = FALSE] ELSE removal BY DEF Fails
  <2>2. QED BY <1>0, <2>1
<1>7. /\ ClosedIsBlank'
      /\ wizard'.saving => wizard.saving /\ r.op \notin {"create", "patch"}
      /\ wizard'.step = "testing" => wizard.step = "testing" /\ r.op # "test"
      /\ wizard'.trusting => wizard.trusting /\ ~IsTrusting(r)
  <2>1. CASE r.op \in {"create", "patch"}
    <3> DEFINE w == [wizard EXCEPT !.saving = FALSE]
    <3>1. Landing(w) BY <2>1 DEF Fails
    <3>2. ~w.saving /\ w.step = wizard.step /\ w.trusting = wizard.trusting BY <1>0
    <3> HIDE DEF w
    <3>3. QED BY <1>0, <1>4, <2>1, <3>1, <3>2, LandingFacts DEF IsTrusting
  <2>2. CASE r.op = "test"
    <3> DEFINE w == [wizard EXCEPT !.step = "result", !.result = <<r.id, "error", None>>,
                                   !.trusting = @ /\ r.arg # "chain"]
    <3>1. Landing(w) BY <2>2 DEF Fails
    <3>2. w.step = "result" /\ w.saving = wizard.saving /\ w.trusting = (wizard.trusting /\ r.arg # "chain")
      BY <1>0
    <3> HIDE DEF w
    <3>3. QED BY <1>0, <1>4, <2>2, <3>1, <3>2, LandingFacts DEF IsTrusting
  <2>3. CASE r.op = "trust"
    <3> DEFINE w == [wizard EXCEPT !.trusting = FALSE]
    <3>1. Landing(w) BY <2>3 DEF Fails
    <3>2. ~w.trusting /\ w.step = wizard.step /\ w.saving = wizard.saving BY <1>0
    <3> HIDE DEF w
    <3>3. QED BY <1>0, <1>4, <2>3, <3>1, <3>2, LandingFacts DEF IsTrusting
  <2>4. CASE r.op \notin {"create", "patch", "test", "trust"}
    <3>1. UNCHANGED wizard BY <2>4 DEF Fails
    <3>2. QED BY <1>0, <1>4, <2>4, <3>1, NothingEnds DEF IsTrusting
  <2>5. QED BY <2>1, <2>2, <2>3, <2>4
<1>8. OuterEffect({r}, T) BY <1>3, <1>5, <1>6, <1>7 DEF OuterEffect
<1>9. CASE r.op = "test"
  <2>1. editor' = NoEditor /\ section' = NoSection
    BY <1>9 DEF Fails, PasswordActions, DirectActions
  <2>2. Keeps(S \ {r}, T) BY <1>1, <1>2, <1>9, UnmountKeeps, KeepsFacts
  <2>3. QED BY <1>7, <1>8, <2>1, <2>2, BusyBlank DEF S
<1>10. CASE r.op # "test"
  <2>1. KeepsHere(S \ {r}, T) BY <1>1, <1>2, <1>10
  <2>2. editor' = IF r.op \in PasswordActions /\ r.here THEN [editor EXCEPT !.phase = "idle"] ELSE editor
    BY <1>10 DEF Fails
  <2>3. editor'.phase # "idle" => editor.phase # "idle" /\ ~(r.op \in PasswordActions /\ r.here)
    BY <1>0, <2>2
  <2>4. SectionOK' /\ InnerEffect({r}, T)
    <3>1. CASE r.op = "pairs" /\ r.here
      <4>1. section' = [section EXCEPT !.state = "failed"] BY <3>1 DEF Fails, DirectActions
      <4>2. /\ section'.state = "failed" /\ section'.rows = section.rows
            /\ DOMAIN section' = DOMAIN section
        BY <1>0, <4>1 DEF SectionOK
      <4>3. SectionOK' BY <1>0, <4>2 DEF SectionOK
      <4>4. InnerEffect({r}, T) BY <1>4, <2>3, <3>1, <4>2 DEF InnerEffect, DirectActions
      <4>5. QED BY <4>3, <4>4
    <3>2. CASE r.op \in DirectActions /\ r.here
      <4>1. section' = [section EXCEPT !.rows[r.id].busy = "", !.rows[r.id].confirming = FALSE]
        BY <3>2 DEF Fails, DirectActions
      <4>2. r.id \in Ids BY <1>0, <3>2 DEF Good, DirectActions
      <4>3. DOMAIN section.rows = Ids /\ DOMAIN section.rows[r.id] = {"current", "busy", "confirming"}
            /\ DOMAIN section = {"state", "pairs", "rows"}
        BY <1>0, <4>2 DEF SectionOK
      <4>4. /\ section'.state = section.state /\ DOMAIN section' = DOMAIN section
            /\ DOMAIN section'.rows = Ids
            /\ section'.rows[r.id] = [section.rows[r.id] EXCEPT !.busy = "", !.confirming = FALSE]
            /\ \A j \in Ids : j # r.id => section'.rows[j] = section.rows[j]
        BY <4>1, <4>2, <4>3
      <4>5. section'.rows[r.id].busy = "" /\ DOMAIN section'.rows[r.id] = {"current", "busy", "confirming"}
        BY <4>3, <4>4
      <4>6. SectionOK' BY <1>0, <4>4, <4>5 DEF SectionOK
      <4>7. r.op # "pairs" BY <3>2 DEF DirectActions
      <4>8. \A j \in Ids : section'.rows[j].busy # "" => j # r.id /\ section'.rows[j] = section.rows[j]
        BY <4>4, <4>5
      <4>9. InnerEffect({r}, T) BY <1>4, <2>3, <4>4, <4>7, <4>8 DEF InnerEffect
      <4>10. QED BY <4>6, <4>9
    <3>3. CASE ~(r.op \in DirectActions \cup {"pairs"} /\ r.here)
      <4>1. section' = section BY <1>10, <3>3 DEF Fails
      <4>2. InnerEffect({r}, T) BY <1>4, <2>3, <3>3, <4>1 DEF InnerEffect
      <4>3. QED BY <1>0, <4>1, <4>2, NothingEnds
    <3>4. QED BY <3>1, <3>2, <3>3
  <2>5. QED BY <1>7, <1>8, <2>1, <2>4, BusyByEffect DEF S
<1>11. QED BY <1>9, <1>10

LEMMA BusyInvInit == Init => BusyInv
<1> SUFFICES ASSUME Init PROVE BusyInv OBVIOUS
<1>1. IdleSection(section, "unmounted") BY SectionFacts DEF Init, NoSection
<1>2. SectionOK BY <1>1 DEF SectionOK, IdleSection
<1>3. InnerBusy BY <1>1 DEF InnerBusy, IdleSection, Row, Init, NoEditor
<1>4. OuterBusy BY DEF OuterBusy, Init, Form
<1>5. ClosedIsBlank BY DEF Init, ClosedIsBlank
<1>6. QED BY <1>2, <1>3, <1>4, <1>5 DEF BusyInv

LEMMA BusyInvNext == SettingsInv /\ BusyInv /\ [Next]_vars => BusyInv'
<1> SUFFICES ASSUME SettingsInv, BusyInv, [Next]_vars PROVE BusyInv'
  OBVIOUS
<1>1. CASE UserStep BY <1>1, UserBusy
<1>2. ASSUME UNCHANGED <<requests, list, page>> PROVE BusyInv'
  <2>1. UNCHANGED <<requests, listState, dialog, wizard, editor, section, removal>>
    BY <1>2 DEF list, page
  <2>2. SectionOK /\ ClosedIsBlank BY DEF BusyInv
  <2>3. KeepsHere(BagToSet(requests) \ {}, BagToSet(requests')) BY <2>1, KeepsFacts
  <2>4. QED BY <2>1, <2>2, <2>3, NothingEnds, BusyByEffect
<1>3. ASSUME NEW i \in Ids, OthersConnect(i) \/ Rekeyed(i) PROVE BusyInv'
  BY <1>2, <1>3 DEF OthersConnect, Rekeyed
<1>4. ASSUME NEW r \in BagToSet(requests), Serve(r) PROVE BusyInv' BY <1>4, ServeBusy
<1>5. ASSUME NEW r \in BagToSet(requests), Arrives(r) PROVE BusyInv' BY <1>5, ArriveBusy
<1>6. ASSUME NEW r \in BagToSet(requests), Fails(r) PROVE BusyInv' BY <1>6, FailBusy
<1>7. CASE UNCHANGED vars BY <1>2, <1>7 DEF vars
<1>8. QED BY <1>1, <1>3, <1>4, <1>5, <1>6, <1>7, StepCases, Zenon

(* No busy state of the settings page outlives the request that ends it:     *)
(* the flags that closing and reopening resets, and those that a late answer *)
(* of an earlier dialog sets, always wait for a request in flight, and those *)
(* of the password and pair sections for one that the mounted section        *)
(* awaits.                                                                   *)
THEOREM SettingsBusyCorrect == Spec => []BusyIsInFlight
<1>1. BusyInv => BusyIsInFlight
  <2> SUFFICES ASSUME BusyInv PROVE BusyIsInFlight OBVIOUS
  <2>1. OuterBusy /\ InnerBusy BY DEF BusyInv
  <2>2. /\ listState.loading => Waiting({"list"}) # {}
        /\ wizard.saving => Waiting({"create", "patch"}) # {}
        /\ wizard.step = "testing" => Waiting({"test"}) # {}
        /\ removal.busy => Waiting({"delete"}) # {}
    BY <2>1 DEF OuterBusy, Calls, Waiting
  <2>3. wizard.trusting => \E r \in Waiting({"trust", "test"}) : r.op = "trust" \/ r.arg = "chain"
    BY <2>1 DEF OuterBusy, IsTrusting, Waiting
  <2>4. /\ editor.phase # "idle" => \E r \in Waiting(PasswordActions) : r.here /\ r.id = dialog
        /\ section.state = "loading" => \E r \in Waiting({"pairs"}) : r.here /\ r.id = dialog
        /\ \A i \in Ids : Row(i).busy # "" =>
             \E r \in Waiting({Row(i).busy}) : r.here /\ r.id = i /\ r.arg = dialog
    BY <2>1 DEF InnerBusy, Waiting
  <2>5. QED BY <2>2, <2>3, <2>4 DEF BusyIsInFlight
<1>2. QED BY <1>1, InitInv, NextInv, BusyInvInit, BusyInvNext, PTL DEF Spec
=============================================================================
