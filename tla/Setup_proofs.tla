---------------------------- MODULE Setup_proofs ----------------------------
(***************************************************************************)
(* Theorems about the pages before a scan, for any providers, sources and  *)
(* number of forests.                                                      *)
(*                                                                         *)
(* The properties hold because an answer finds the page as it was when the *)
(* validation was asked for, unless the user rushed: this is what the      *)
(* invariants say of the validations under way.  And what is verified is   *)
(* in one session: before the first answer nothing is, and the session     *)
(* stays open until the scan is started.                                   *)
(***************************************************************************)
EXTENDS Setup, SequenceTheorems, TLAPS

PageName == {"providers", "credentials", "sources", "scanning"}

(* What the proofs need to know of the values; methods and sources may be  *)
(* anything.                                                               *)
Shape ==
  /\ page \in PageName
  /\ selected \subseteq Providers
  /\ status \in [Providers -> {"idle", "validating", "valid", "error"}]
  /\ DOMAIN method = Providers /\ DOMAIN subs = Providers /\ DOMAIN mode = Providers
  /\ upload = [file |-> upload.file, token |-> upload.token]
  /\ upload.file \in Nat /\ upload.token \in Nat
  /\ changes \in Nat
  /\ \A v \in asked : v.of \in Providers \cup {"forest"}
  /\ \A v \in asked : v.of \in Providers =>
       v.file \in Nat /\ (v.of = "nios" /\ v.method = "backup" => v.file # None)

(* A provider that was not rushed has at most one validation under way,    *)
(* which is of its method, and it shows that it is validating.             *)
AskedAsShown ==
  /\ \A v \in asked : v.of \in Providers \ rushed =>
       status[v.of] = "validating" /\ v.method = method[v.of]
  /\ \A v, w \in asked : v.of \in Providers \ rushed /\ v.of = w.of => v = w

(* As long as there is no session to scan with, nothing is verified; there *)
(* is one when the sources are on show.                                    *)
SessionInv ==
  /\ page # "providers" => selected # {}
  /\ page = "sources" /\ fresh => session = "created"
  /\ fresh /\ page # "scanning" /\ session # "created" =>
       /\ \A p \in Providers : status[p] # "valid"
       /\ forests = <<>>
       /\ \A v \in asked : v.of # "forest"

Ready(p) == fresh /\ p \notin rushed /\ status[p] = "valid" => CanBeScanned(p)

VerifiedInv == Shape /\ AskedAsShown /\ SessionInv /\ \A p \in Providers : Ready(p)

(* The pages follow each other.                                            *)
LEMMA PlaceOfPage ==
  ASSUME page \in PageName
  PROVE  /\ Place \in 1..4 /\ Pages[Place] = page
         /\ page # "scanning" => Place + 1 \in 1..4 /\ Pages[Place + 1] \in PageName \ {"providers"}
         /\ page # "providers" => Place - 1 \in 1..4 /\ Pages[Place - 1] \in PageName \ {"scanning"}
         /\ page # "scanning" /\ Pages[Place + 1] = "sources" => page = "credentials"
         /\ page # "scanning" => (Pages[Place + 1] = "scanning" <=> page = "sources")
         /\ page # "providers" /\ Pages[Place - 1] = "sources" => page = "scanning"
<1>1. DOMAIN Pages = 1..4 /\ \E i \in 1..4 : Pages[i] = page
  BY DEF Pages, PageName
<1>2. Place \in 1..4 /\ Pages[Place] = page
  BY <1>1 DEF Place
<1>3. Place = 1 \/ Place = 2 \/ Place = 3 \/ Place = 4
  BY <1>2
<1> QED
  BY <1>2, <1>3 DEF Pages, PageName

LEMMA ShapeInit == Init => Shape
  BY DEF Init, Shape, None, PageName

(* Turning a page.                                                         *)
LEMMA TurnedOn ==
  ASSUME Shape, GoNext
  PROVE  /\ page' \in PageName /\ page # "scanning" /\ page' # "providers" /\ CanGoNext
         /\ UNCHANGED <<changes, selected, accounts, seen, asked, stored, slots, history>>
         /\ page' = "sources" => page = "credentials"
         /\ page' = "scanning" <=> page = "sources"
         /\ page # "sources" => session' = session /\ request' = request
         /\ page = "sources" => request' = [p \in seen.selected |-> Entry(p)]
<1>1. page \in PageName
  BY DEF Shape
<1>2. page # "scanning" /\ page' = Pages[Place + 1]
  BY DEF GoNext
<1> QED
  BY <1>1, <1>2, PlaceOfPage DEF GoNext

LEMMA TurnedBack ==
  ASSUME Shape, GoBack
  PROVE  /\ page' \in PageName /\ page # "providers" /\ page' # "scanning"
         /\ UNCHANGED <<changes, selected, accounts, seen, server, request, rushed>>
         /\ fresh' = (fresh /\ page # "scanning")
         /\ page' = "sources" => page = "scanning"
<1>1. page \in PageName
  BY DEF Shape
<1>2. page # "providers" /\ page' = Pages[Place - 1]
  BY DEF GoBack
<1> QED
  BY <1>1, <1>2, PlaceOfPage DEF GoBack

LEMMA ShapeStep == Shape /\ [Next]_vars => Shape'
<1> SUFFICES ASSUME Shape, [Next]_vars PROVE Shape'
  OBVIOUS
<1> USE DEF Shape, Act, Change, Rush, Render, Memoize, pages, server
<1>1. CASE GoNext
  BY <1>1, TurnedOn DEF accounts
<1>18. CASE GoBack
  BY <1>18, TurnedBack DEF accounts
<1>19. CASE Restart
  BY <1>19 DEF Restart, None, PageName
<1>20. CASE ExpireCookie
  BY <1>20 DEF ExpireCookie, accounts
<1>2. ASSUME NEW p \in Providers, ToggleProvider(p) PROVE Shape'
  BY <1>2 DEF ToggleProvider
<1>3. ASSUME NEW p \in Providers, Validate(p) PROVE Shape'
  BY <1>3 DEF Validate, Ask, None
<1>4. ASSUME NEW p \in Providers, EditCredentials(p) PROVE Shape'
  BY <1>4 DEF EditCredentials, accounts
<1>5. ASSUME NEW p \in Providers, SwitchMode(p) PROVE Shape'
  BY <1>5 DEF SwitchMode, Check
<1>6. ASSUME NEW p \in Providers, NEW m \in Methods[p], SwitchMethod(p, m) PROVE Shape'
  BY <1>6 DEF SwitchMethod, None
<1>7. ASSUME NEW p \in Providers, NEW id \in DOMAIN subs[p], ToggleSubscription(p, id) PROVE Shape'
  BY <1>7 DEF ToggleSubscription, Check
<1>8. ASSUME NEW p \in Providers, NEW ids, ToggleAllFiltered(p, ids) PROVE Shape'
  BY <1>8 DEF ToggleAllFiltered, Check
<1>9. CASE ChooseFile
  BY <1>9 DEF ChooseFile, Ask, NextFile, None
<1>10. CASE RemoveFile
  <2>1. status' = [status EXCEPT !["nios"] = "idle"] /\ upload' = [upload EXCEPT !.file = None]
    BY <1>10 DEF RemoveFile
  <2>2. DOMAIN subs' = Providers /\ UNCHANGED <<page, selected, method, mode, asked>> /\ changes' \in Nat
    BY <1>10 DEF RemoveFile
  <2> QED
    BY <2>1, <2>2 DEF None
<1>11. CASE UploadQps
  BY <1>11 DEF UploadQps
<1>12. CASE AddForest
  BY <1>12 DEF AddForest
<1>13. ASSUME NEW id \in Discovered, AddDiscovered(id) PROVE Shape'
  BY <1>13 DEF AddDiscovered
<1>14. ASSUME NEW i \in DOMAIN forests,
              EditForest(i) \/ RemoveForest(i) \/ \E id \in DOMAIN forests[i].subs : ToggleForestSource(i, id)
       PROVE Shape'
  <2>1. /\ UNCHANGED <<page, selected, status, method, subs, mode, upload, asked>>
        /\ changes' = changes + 1
    BY <1>14 DEF EditForest, RemoveForest, ToggleForestSource
  <2> QED
    BY <2>1
<1>15. ASSUME NEW i \in DOMAIN forests, ValidateForest(i) PROVE Shape'
  BY <1>15, SourcesAssumption DEF ValidateForest, Ask
<1>16. ASSUME NEW v \in asked, Answer(v) PROVE Shape'
  <2>1. CASE Accepts(v)
    BY <1>16, <2>1, SourcesAssumption DEF Answer, Accepts, Answered
  <2>2. CASE AcceptsForest(v)
    BY <1>16, <2>2 DEF Answer, AcceptsForest, Answered
  <2>3. CASE Refuses(v)
    BY <1>16, <2>3 DEF Answer, Refuses, Answered
  <2> QED
    BY <1>16, <2>1, <2>2, <2>3 DEF Answer
<1>17. CASE UNCHANGED vars
  BY <1>17 DEF vars, accounts
<1> QED
  BY <1>1, <1>2, <1>3, <1>4, <1>5, <1>6, <1>7, <1>8, <1>9, <1>10, <1>11, <1>12, <1>13, <1>14,
     <1>15, <1>16, <1>17, <1>18, <1>19, <1>20
  DEF Next

(* Whatever is accepted is in a session to scan with, and only a scan, an  *)
(* expired cookie or starting over take it away.                           *)
LEMMA SessionStep == Shape /\ SessionInv /\ [Next]_vars => SessionInv'
<1> SUFFICES ASSUME Shape, SessionInv, [Next]_vars PROVE SessionInv'
  OBVIOUS
<1> USE DEF Shape, SessionInv, Act, Change, Rush, Render, pages, server
<1>1. CASE GoNext
  <2>1. page = "providers" => selected # {}
    BY <1>1 DEF GoNext, CanGoNext
  <2>2. page = "credentials" => \A p \in selected : status[p] = "valid"
    BY <1>1 DEF GoNext, CanGoNext, CredentialsValid
  <2> QED
    BY <1>1, <2>1, <2>2, TurnedOn DEF accounts, history
<1>18. CASE GoBack
  BY <1>18, TurnedBack DEF accounts
<1>19. CASE Restart
  BY <1>19 DEF Restart, Awaited
<1>20. CASE ExpireCookie
  BY <1>20 DEF ExpireCookie
<1>2. ASSUME NEW p \in Providers, ToggleProvider(p) PROVE SessionInv'
  BY <1>2 DEF ToggleProvider
<1>3. ASSUME NEW p \in Providers, Validate(p) PROVE SessionInv'
  BY <1>3, SourcesAssumption DEF Validate, Ask
<1>4. ASSUME NEW p \in Providers, EditCredentials(p) PROVE SessionInv'
  BY <1>4 DEF EditCredentials, accounts
<1>5. ASSUME NEW p \in Providers, SwitchMode(p) PROVE SessionInv'
  BY <1>5 DEF SwitchMode
<1>6. ASSUME NEW p \in Providers, NEW m \in Methods[p], SwitchMethod(p, m) PROVE SessionInv'
  BY <1>6 DEF SwitchMethod
<1>7. ASSUME NEW p \in Providers, NEW id \in DOMAIN subs[p], ToggleSubscription(p, id) PROVE SessionInv'
  BY <1>7 DEF ToggleSubscription
<1>8. ASSUME NEW p \in Providers, NEW ids, ToggleAllFiltered(p, ids) PROVE SessionInv'
  BY <1>8 DEF ToggleAllFiltered
<1>9. CASE ChooseFile
  BY <1>9 DEF ChooseFile, Ask
<1>10. CASE RemoveFile
  BY <1>10 DEF RemoveFile
<1>11. CASE UploadQps
  BY <1>11 DEF UploadQps
<1>12. CASE AddForest
  BY <1>12 DEF AddForest
<1>13. ASSUME NEW id \in Discovered, AddDiscovered(id) PROVE SessionInv'
  BY <1>13 DEF AddDiscovered
<1>14. ASSUME NEW i \in DOMAIN forests,
              \/ EditForest(i) \/ RemoveForest(i) \/ ValidateForest(i)
              \/ \E id \in DOMAIN forests[i].subs : ToggleForestSource(i, id)
       PROVE SessionInv'
  <2>1. /\ UNCHANGED <<page, selected, session, fresh, status>>
        /\ page \in {"credentials", "sources"}
    BY <1>14 DEF EditForest, RemoveForest, ToggleForestSource, ValidateForest
  <2>2. forests # <<>>
    OBVIOUS
  <2> QED
    BY <2>1, <2>2
<1>16. ASSUME NEW v \in asked, Answer(v) PROVE SessionInv'
  <2>1. /\ UNCHANGED <<page, selected>> /\ fresh' = (fresh /\ page # "scanning")
        /\ \A w \in asked' : w \in asked
    BY <1>16 DEF Answer, Accepts, AcceptsForest, Refuses, Answered
  <2>2. CASE session' = "created"
    BY <2>1, <2>2
  <2>3. CASE Refuses(v)
    <3>1. /\ session' = session
          /\ \A p \in Providers : status'[p] = "valid" => status[p] = "valid"
          /\ forests = <<>> => forests' = <<>>
      BY <2>3 DEF Refuses
    <3> QED
      BY <2>1, <3>1
  <2> QED
    BY <1>16, <2>2, <2>3 DEF Answer, Accepts, AcceptsForest
<1>17. CASE UNCHANGED vars
  BY <1>17 DEF vars, accounts, history
<1> QED
  BY <1>1, <1>2, <1>3, <1>4, <1>5, <1>6, <1>7, <1>8, <1>9, <1>10, <1>11, <1>12, <1>13, <1>14,
     <1>16, <1>17, <1>18, <1>19, <1>20
  DEF Next

LEMMA VerifiedStep == VerifiedInv /\ [Next]_vars => VerifiedInv'
<1> SUFFICES ASSUME VerifiedInv, [Next]_vars
             PROVE AskedAsShown' /\ \A q \in Providers : Ready(q)'
  BY ShapeStep, SessionStep DEF VerifiedInv
<1>0. Shape /\ AskedAsShown /\ Shape' /\ \A q \in Providers : Ready(q)
  BY ShapeStep DEF VerifiedInv
<1> DEFINE Goal == AskedAsShown' /\ \A q \in Providers : Ready(q)'
<1> USE <1>0 DEF Shape, AskedAsShown, Ready, CanBeScanned, Act, Change, Rush, Render, pages, server, Awaited
<1>1. CASE GoNext
  BY <1>1, TurnedOn DEF accounts, history
<1>18. CASE GoBack
  BY <1>18, TurnedBack DEF accounts
<1>19. CASE Restart
  BY <1>19 DEF Restart
<1>20. CASE ExpireCookie
  BY <1>20 DEF ExpireCookie, accounts
<1>2. ASSUME NEW p \in Providers, ToggleProvider(p) PROVE Goal
  BY <1>2 DEF ToggleProvider
<1>3. ASSUME NEW p \in Providers, Validate(p) PROVE Goal
  BY <1>3 DEF Validate, Ask
<1>4. ASSUME NEW p \in Providers, EditCredentials(p) PROVE Goal
  BY <1>4 DEF EditCredentials, accounts
<1>5. ASSUME NEW p \in Providers, SwitchMode(p) PROVE Goal
  BY <1>5 DEF SwitchMode
<1>6. ASSUME NEW p \in Providers, NEW m \in Methods[p], SwitchMethod(p, m) PROVE Goal
  BY <1>6 DEF SwitchMethod
<1>7. ASSUME NEW p \in Providers, NEW id \in DOMAIN subs[p], ToggleSubscription(p, id) PROVE Goal
  BY <1>7 DEF ToggleSubscription
<1>8. ASSUME NEW p \in Providers, NEW ids, ToggleAllFiltered(p, ids) PROVE Goal
  BY <1>8 DEF ToggleAllFiltered
<1>9. CASE ChooseFile
  BY <1>9 DEF ChooseFile, Ask
<1>10. CASE RemoveFile
  BY <1>10 DEF RemoveFile
<1>11. CASE UploadQps
  BY <1>11 DEF UploadQps
<1>12. CASE AddForest
  BY <1>12 DEF AddForest
<1>13. ASSUME NEW id \in Discovered, AddDiscovered(id) PROVE Goal
  BY <1>13 DEF AddDiscovered
<1>14. ASSUME NEW i \in DOMAIN forests,
              EditForest(i) \/ RemoveForest(i) \/ \E id \in DOMAIN forests[i].subs : ToggleForestSource(i, id)
       PROVE Goal
  <2>1. UNCHANGED <<selected, status, method, upload, asked, stored, rushed, fresh>>
    BY <1>14 DEF EditForest, RemoveForest, ToggleForestSource
  <2> QED
    BY <2>1
<1>15. ASSUME NEW i \in DOMAIN forests, ValidateForest(i) PROVE Goal
  BY <1>15, SourcesAssumption DEF ValidateForest, Ask
(* An answer keeps the session of what is verified.                        *)
<1>16. ASSUME NEW v \in asked, Answer(v) PROVE Goal
  <2>1. fresh' = (fresh /\ page # "scanning") /\ rushed' = rushed
    BY <1>16 DEF Answer
  <2>2. \A p \in Providers : fresh' /\ status[p] = "valid" => session = "created"
    BY <2>1 DEF VerifiedInv, SessionInv
  <2>3. CASE Accepts(v)
    <3>1. /\ asked' = asked \ {v} /\ v.of \in Providers /\ method' = method
          /\ status' = [status EXCEPT ![v.of] = "valid"]
      BY <2>3 DEF Accepts, Answered
    <3>2. AskedAsShown'
      BY <2>1, <3>1
    <3>3. ASSUME NEW q \in Providers, fresh', q \notin rushed', status'[q] = "valid", q # v.of
          PROVE CanBeScanned(q)'
      <4>1. session = "created" /\ CanBeScanned(q)
        BY <2>1, <2>2, <3>1, <3>3
      <4>2. stored \subseteq stored' /\ (q = "nios" => upload' = upload)
        BY <2>3, <3>3, <4>1 DEF Accepts, Kept
      <4> QED
        BY <3>1, <4>1, <4>2
    <3>4. ASSUME v.of \notin rushed PROVE CanBeScanned(v.of)'
      <4>1. v.method = method[v.of]
        BY <3>1, <3>4
      <4>2. CASE v.of = "nios" /\ v.method = "backup"
        BY <2>3, <3>1, <4>1, <4>2 DEF Accepts
      <4>3. CASE ~(v.of = "nios" /\ v.method = "backup")
        BY <2>3, <3>1, <4>1, <4>3 DEF Accepts
      <4> QED
        BY <4>2, <4>3
    <3>5. \A q \in Providers : Ready(q)'
      <4> SUFFICES ASSUME NEW q \in Providers, fresh', q \notin rushed', status'[q] = "valid"
                   PROVE CanBeScanned(q)'
        OBVIOUS
      <4> QED
        BY <2>1, <3>3, <3>4
    <3> QED
      BY <3>2, <3>5
  <2>4. CASE AcceptsForest(v)
    <3>1. /\ asked' = asked \ {v} /\ UNCHANGED <<status, method, upload>>
          /\ session = "created" => stored' = stored
      BY <2>4 DEF AcceptsForest, Answered, Kept
    <3> QED
      BY <2>1, <2>2, <3>1
  <2>5. CASE Refuses(v)
    BY <2>1, <2>5, SourcesAssumption DEF Refuses, Answered
  <2> QED
    BY <1>16, <2>3, <2>4, <2>5 DEF Answer
<1>17. CASE UNCHANGED vars
  BY <1>17 DEF vars, accounts, history
<1> QED
  BY <1>1, <1>2, <1>3, <1>4, <1>5, <1>6, <1>7, <1>8, <1>9, <1>10, <1>11, <1>12, <1>13, <1>14,
     <1>15, <1>16, <1>17, <1>18, <1>19, <1>20
  DEF Next

LEMMA VerifiedInit == Init => VerifiedInv
  BY ShapeInit DEF Init, VerifiedInv, AskedAsShown, SessionInv, Ready

(* Whatever the user does not rush: until a scan was started, what is      *)
(* shown as verified can be scanned (credentialStatus in wizard.tsx, the   *)
(* session in validate.go).                                                *)
THEOREM VerifiedIsReady == Spec => []VerifiedReady
<1>1. VerifiedInv => VerifiedReady
  BY DEF VerifiedInv, Shape, SessionInv, Ready, VerifiedReady, Scanning
<1> QED
  BY <1>1, VerifiedInit, VerifiedStep, PTL DEF Spec

-----------------------------------------------------------------------------
(* startScan was memoized with the selection that is on show.              *)
Current ==
  seen.selected = selected /\ seen.subs = subs /\ seen.mode = mode

LEMMA MemoizeCurrent ==
  ASSUME Current, Memoize
  PROVE  Current'
<1>1. CASE Dependencies' = Dependencies
  BY <1>1 DEF Memoize, Dependencies, Current
<1>2. CASE Dependencies' # Dependencies
  BY <1>2 DEF Memoize, Read, Current
<1> QED
  BY <1>1, <1>2

(* Once the sources are on show, every provider that was not rushed is     *)
(* verified, so no answer is awaited that would change it.                 *)
SelectionInv ==
  /\ VerifiedInv
  /\ Current
  /\ page \in {"sources", "scanning"} => \A p \in selected \ rushed : status[p] = "valid"
  /\ SelectionSent

LEMMA SelectionStep == SelectionInv /\ [Next]_vars => SelectionInv'
<1> SUFFICES ASSUME SelectionInv, [Next]_vars PROVE SelectionInv'
  OBVIOUS
<1>0. VerifiedInv' /\ Shape /\ Shape' /\ Current /\ AskedAsShown
  BY VerifiedStep DEF SelectionInv, VerifiedInv
<1> DEFINE Late == /\ page \in {"sources", "scanning"} => \A p \in selected \ rushed : status[p] = "valid"
                   /\ SelectionSent
<1>1. ASSUME Memoize \/ seen' = Read', Late' PROVE SelectionInv'
  BY <1>0, <1>1, MemoizeCurrent DEF SelectionInv, Current, Read
<1>2. Late
  BY DEF SelectionInv
<1> USE DEF Scanning, SelectionSent
(* What the user does on the pages before the sources.                     *)
<1>3. ASSUME page' \in {"providers", "credentials"}, Memoize \/ seen' = Read' PROVE SelectionInv'
  BY <1>1, <1>3
(* What the user does on the page of the sources.                          *)
<1>4. ASSUME page = "sources", page' = page, selected' = selected, status' = status, rushed' = rushed,
             Memoize
      PROVE SelectionInv'
  BY <1>1, <1>2, <1>4
<1>5. CASE GoNext
  <2>1. /\ page # "scanning" /\ page' # "providers"
        /\ UNCHANGED <<selected, status, subs, mode, seen, rushed>>
        /\ page' = "sources" => page = "credentials"
        /\ page' = "scanning" <=> page = "sources"
        /\ page = "sources" => request' = [p \in selected |-> Entry(p)]
    BY <1>0, <1>5, TurnedOn DEF accounts, history, Current
  <2>2. Current'
    BY <1>0, <2>1 DEF Current
  <2>3. page' = "sources" => \A p \in selected' : status'[p] = "valid"
    BY <1>5, <2>1 DEF GoNext, CanGoNext, CredentialsValid
  <2>4. ASSUME page' = "scanning" PROVE SelectionSent'
    <3>1. request' = [p \in selected |-> Entry(p)]
      BY <2>1, <2>4
    <3>2. \A p \in selected : Entry(p).subscriptions = EffectiveSelected(subs, mode, p)
      BY <1>0 DEF Entry, Current
    <3> QED
      BY <2>1, <3>1, <3>2 DEF EffectiveSelected
  <2>5. page' = "scanning" => \A p \in selected' \ rushed' : status'[p] = "valid"
    BY <1>2, <2>1
  <2> QED
    BY <1>0, <2>2, <2>3, <2>4, <2>5 DEF SelectionInv
<1>6. CASE GoBack
  <2>1. /\ page' # "scanning" /\ (page' = "sources" => page = "scanning")
        /\ UNCHANGED <<selected, status, subs, mode, seen, rushed>>
    BY <1>0, <1>6, TurnedBack DEF accounts
  <2> QED
    BY <1>0, <1>2, <2>1 DEF SelectionInv, Current
<1>16. CASE Restart
  BY <1>3, <1>16 DEF Restart, Render
<1>17. CASE ExpireCookie
  <2>1. UNCHANGED <<page, selected, status, subs, mode, seen, request, rushed>>
    BY <1>17 DEF ExpireCookie, accounts
  <2> QED
    BY <1>0, <1>2, <2>1 DEF SelectionInv, Current, EffectiveSelected
<1>7. ASSUME NEW p \in Providers, ToggleProvider(p) PROVE SelectionInv'
  BY <1>3, <1>7 DEF ToggleProvider, Render, pages
<1>8. ASSUME NEW p \in Providers,
             Validate(p) \/ EditCredentials(p) \/ \E m \in Methods[p] : SwitchMethod(p, m)
      PROVE SelectionInv'
  <2>1. page' = "credentials"
    BY <1>8 DEF Validate, EditCredentials, SwitchMethod, Change, Act
  <2>2. CASE EditCredentials(p)
    <3>1. seen' = Read'
      BY <2>2 DEF EditCredentials, Read, accounts
    <3> QED
      BY <1>3, <2>1, <3>1
  <2>3. CASE ~EditCredentials(p)
    BY <1>3, <1>8, <2>1, <2>3 DEF Validate, SwitchMethod, Render
  <2> QED
    BY <2>2, <2>3
<1>9. CASE ChooseFile \/ RemoveFile \/ UploadQps
  BY <1>3, <1>9 DEF ChooseFile, RemoveFile, UploadQps, Change, Act, Render
<1>10. CASE AddForest \/ \E id \in Discovered : AddDiscovered(id)
  BY <1>3, <1>10 DEF AddForest, AddDiscovered, Change, Act, Render
<1>11. ASSUME NEW i \in DOMAIN forests, EditForest(i) \/ RemoveForest(i) \/ ValidateForest(i)
       PROVE SelectionInv'
  BY <1>3, <1>11 DEF EditForest, RemoveForest, ValidateForest, Change, Act, Render
<1>12. ASSUME NEW p \in Providers,
              \/ SwitchMode(p)
              \/ \E id \in DOMAIN subs[p] : ToggleSubscription(p, id)
              \/ \E ids \in SUBSET DOMAIN subs[p] \ {{}} : ToggleAllFiltered(p, ids)
       PROVE SelectionInv'
  BY <1>4, <1>12 DEF SwitchMode, ToggleSubscription, ToggleAllFiltered, Change, Act, Render
<1>13. ASSUME NEW i \in DOMAIN forests, NEW id \in DOMAIN forests[i].subs, ToggleForestSource(i, id)
       PROVE SelectionInv'
  BY <1>4, <1>13 DEF ToggleForestSource, Change, Act, Render
(* An answer changes a provider that was rushed or is not selected, once   *)
(* the sources are on show.                                                *)
<1>14. ASSUME NEW v \in asked, Answer(v) PROVE SelectionInv'
  <2>1. /\ UNCHANGED <<page, selected, mode, request, rushed>> /\ Memoize
        /\ \/ Accepts(v) \/ AcceptsForest(v) \/ Refuses(v)
    BY <1>14 DEF Answer, Render, pages, Accepts, AcceptsForest, Refuses
  <2>2. v.of \in Providers \cup {"forest"}
    BY <1>0 DEF Shape
  <2>3. \A p \in Providers : p # v.of => status'[p] = status[p] /\ subs'[p] = subs[p]
    BY <1>0, <2>1, <2>2 DEF Shape, Accepts, AcceptsForest, Refuses
  <2>4. page \in {"sources", "scanning"} => v.of \notin selected \ rushed
    BY <1>0, <1>2, <2>2 DEF AskedAsShown, Shape
  <2>5. page \in {"sources", "scanning"} =>
          \A p \in selected \ rushed : status'[p] = status[p] /\ subs'[p] = subs[p]
    BY <1>0, <2>3, <2>4 DEF Shape
  <2>6. Late'
    BY <1>2, <2>1, <2>5 DEF EffectiveSelected
  <2> QED
    BY <1>1, <2>1, <2>6
<1>15. CASE UNCHANGED vars
  BY <1>0, <1>2, <1>15 DEF vars, pages, accounts, history, SelectionInv, Current, EffectiveSelected
<1> QED
  BY <1>5, <1>6, <1>7, <1>8, <1>9, <1>10, <1>11, <1>12, <1>13, <1>14, <1>15, <1>16, <1>17 DEF Next

(* The request names the sources that the page showed as the ones to scan  *)
(* (startScan and its dependencies in wizard.tsx), for every provider that *)
(* the user did not rush.                                                  *)
THEOREM ShownIsSent == Spec => []SelectionSent
<1>1. Init => SelectionInv
  BY VerifiedInit DEF Init, SelectionInv, Current, Read, SelectionSent, Scanning
<1>2. SelectionInv => SelectionSent
  BY DEF SelectionInv
<1> QED
  BY <1>1, <1>2, SelectionStep, PTL DEF Spec

-----------------------------------------------------------------------------
(* Forests.                                                                *)

IsForest(f) == f.id \in Int

ForestList ==
  /\ forests \in Seq({forests[i] : i \in DOMAIN forests})
  /\ \A i \in DOMAIN forests : IsForest(forests[i])

(* The entry of a forest that was verified is its own. *)
Verified(i) == forests[i].status = "valid" => i \in DOMAIN slots /\ slots[i] = forests[i].id

(* What the page shows of the forests is in the session with which the     *)
(* scan will be, or was, started.                                          *)
InSession == fresh /\ (session = "created" \/ page = "scanning")

ForestsStored ==
  /\ slots \in Seq(Int) /\ Len(slots) <= Len(forests)
  /\ \A v \in asked : v.of = "forest" =>
       v.place \in DOMAIN forests /\ v.id = forests[v.place].id
  /\ \A i \in DOMAIN forests : Verified(i)
  /\ page \in {"sources", "scanning"} =>
       \A i \in DOMAIN forests : i \in DOMAIN slots /\ slots[i] = forests[i].id

ForestInv == VerifiedInv /\ ForestList /\ (InSession => ForestsStored)

(* The forests of the page, whatever is done to one of them. *)
SameForests ==
  /\ DOMAIN forests' = DOMAIN forests
  /\ \A i \in DOMAIN forests : forests'[i].id = forests[i].id /\ IsForest(forests'[i])

LEMMA SequenceOf ==
  ASSUME NEW T, NEW n \in Nat, NEW s \in [1..n -> T]
  PROVE  s \in Seq(T) /\ Len(s) = n
  OBVIOUS

LEMMA SequenceOver ==
  ASSUME NEW S, NEW T, NEW s \in Seq(S), \A j \in 1..Len(s) : s[j] \in T
  PROVE  s \in Seq(T)
<1>1. Len(s) \in Nat /\ s \in [1..Len(s) -> S]
  OBVIOUS
<1>2. s \in [1..Len(s) -> T]
  BY <1>1
<1> QED
  BY <1>1, <1>2, SequenceOf

LEMMA KeptList ==
  ASSUME ForestList, NEW i \in DOMAIN forests, NEW f, IsForest(f), f.id = forests[i].id,
         forests' = [forests EXCEPT ![i] = f]
  PROVE  SameForests /\ ForestList' /\ Len(forests') = Len(forests)
<1> DEFINE S == {forests[j] : j \in DOMAIN forests} \cup {f}
<1>1. forests \in Seq(S) /\ forests' \in Seq(S)
  BY DEF ForestList
<1>2. DOMAIN forests = 1..Len(forests) /\ DOMAIN forests' = 1..Len(forests)
      /\ Len(forests') = Len(forests)
  BY <1>1
<1>3. \A j \in DOMAIN forests : forests'[j] = IF j = i THEN f ELSE forests[j]
  BY <1>2
<1> DEFINE T == {forests'[j] : j \in DOMAIN forests'}
<1>4. forests' \in Seq(T)
  <2>1. \A j \in 1..Len(forests) : forests'[j] \in T
    BY <1>2
  <2>2. forests' \in [1..Len(forests) -> T] /\ Len(forests) \in Nat
    BY <1>1, <1>2, <2>1
  <2> HIDE DEF T
  <2> QED
    BY <2>2, SequenceOf
<1> QED
  BY <1>2, <1>3, <1>4 DEF SameForests, ForestList

LEMMA LongerList ==
  ASSUME ForestList, NEW f, IsForest(f), forests' = Append(forests, f)
  PROVE  /\ ForestList' /\ Len(forests') = Len(forests) + 1
         /\ \A i \in DOMAIN forests : i \in DOMAIN forests' /\ forests'[i] = forests[i]
         /\ \A i \in DOMAIN forests' : i \notin DOMAIN forests => forests'[i] = f
<1> DEFINE S == {forests[j] : j \in DOMAIN forests} \cup {f}
<1>1. forests \in Seq(S) /\ f \in S
  BY DEF ForestList
<1>2. /\ forests' \in Seq(S) /\ Len(forests) \in Nat /\ Len(forests') = Len(forests) + 1
      /\ DOMAIN forests = 1..Len(forests) /\ DOMAIN forests' = 1..Len(forests')
      /\ \A j \in 1..Len(forests) : forests'[j] = forests[j]
      /\ forests'[Len(forests) + 1] = f
  <2> HIDE DEF S
  <2>1. forests' \in Seq(S)
    BY <1>1
  <2>2. Len(forests) \in Nat /\ Len(forests') = Len(forests) + 1
    BY <1>1
  <2>3. DOMAIN forests = 1..Len(forests) /\ DOMAIN forests' = 1..Len(forests')
    BY <1>1, <2>1
  <2>4. \A j \in 1..Len(forests) : forests'[j] = forests[j]
    BY <1>1, AppendProperties
  <2>5. forests'[Len(forests) + 1] = f
    BY <1>1, AppendProperties
  <2> QED
    BY <2>1, <2>2, <2>3, <2>4, <2>5
<1> DEFINE T == {forests'[j] : j \in DOMAIN forests'}
<1>3. forests' \in Seq(T)
  <2>1. \A j \in 1..Len(forests') : forests'[j] \in T
    BY <1>2
  <2>2. forests' \in Seq(S)
    BY <1>2
  <2> HIDE DEF S, T
  <2> QED
    BY <2>1, <2>2, SequenceOver
<1> QED
  BY <1>2, <1>3 DEF ForestList

(* Storing the credentials of a forest that is on the page.                *)
LEMMA StoredForest ==
  ASSUME slots \in Seq(Int), NEW i \in Nat \ {0}, NEW id \in Int, slots' = StoreForest(slots, i, id)
  PROVE  /\ slots' \in Seq(Int) /\ i \in DOMAIN slots' /\ slots'[i] = id
         /\ Len(slots') = IF i > Len(slots) THEN i ELSE Len(slots)
         /\ \A j \in DOMAIN slots : j # i => j \in DOMAIN slots' /\ slots'[j] = slots[j]
<1> DEFINE n == IF i > Len(slots) THEN i ELSE Len(slots)
<1>1. n \in Nat /\ DOMAIN slots = 1..Len(slots) /\ slots \in [1..Len(slots) -> Int] /\ Len(slots) \in Nat
  OBVIOUS
<1>2. slots' \in [1..n -> Int]
  BY <1>1 DEF StoreForest, Blank
<1>3. slots' \in Seq(Int) /\ Len(slots') = n
  <2> HIDE DEF n
  <2> QED
    BY <1>1, <1>2, SequenceOf
<1> QED
  BY <1>1, <1>2, <1>3 DEF StoreForest

(* What the user does to one forest on the page.                           *)
LEMMA OneForest ==
  ASSUME ForestList, InSession' => ForestsStored, NEW i \in DOMAIN forests, NEW f,
         IsForest(f), f.id = forests[i].id, f.status = "valid" => forests[i].status = "valid",
         forests' = [forests EXCEPT ![i] = f],
         page' = page, slots' = slots,
         \A v \in asked' : v \in asked \/ v.of # "forest" \/ (v.place = i /\ v.id = f.id)
  PROVE  ForestList' /\ (InSession' => ForestsStored')
<1>1. ForestList /\ SameForests /\ ForestList' /\ Len(forests') = Len(forests)
  BY KeptList
<1>2. forests'[i] = f /\ \A j \in DOMAIN forests : j # i => forests'[j] = forests[j]
  BY <1>1 DEF ForestList
<1>3. InSession' => \A j \in DOMAIN forests' : Verified(j)'
  BY <1>1, <1>2 DEF ForestsStored, Verified, SameForests
<1> QED
  BY <1>1, <1>2, <1>3 DEF ForestsStored, SameForests

LEMMA ForestStep == ~Removable /\ ForestInv /\ [Next]_vars => ForestInv'
<1> SUFFICES ASSUME ~Removable, ForestInv, [Next]_vars
             PROVE ForestList' /\ (InSession' => ForestsStored')
  BY VerifiedStep DEF ForestInv
<1> DEFINE Goal == ForestList' /\ (InSession' => ForestsStored')
<1>0. Shape /\ SessionInv /\ ForestList /\ (InSession => ForestsStored)
  BY DEF ForestInv, VerifiedInv
<1> USE DEF Act, Change, Rush, Render, pages, server, accounts
(* Steps that leave the forests alone.                                     *)
<1>1. ASSUME UNCHANGED <<page, session, fresh, forests, slots>>,
             \A v \in asked' : v \in asked \/ v.of # "forest"
      PROVE  Goal
  BY <1>0, <1>1 DEF ForestsStored, ForestList, IsForest, Verified, InSession
<1>2. UNCHANGED <<page, session, fresh>> => (InSession' => ForestsStored)
  BY <1>0 DEF InSession
<1>3. CASE GoNext
  <2>1. /\ page # "scanning" /\ UNCHANGED <<forests, asked, slots, fresh>>
        /\ page' = "sources" => page = "credentials"
        /\ page' = "scanning" <=> page = "sources"
        /\ page # "sources" => session' = session
    BY <1>0, <1>3, TurnedOn DEF history
  <2>2. InSession' => ForestsStored
    BY <1>0, <2>1 DEF InSession, SessionInv
  <2>3. page' = "sources" => \A i \in DOMAIN forests : forests[i].status = "valid"
    BY <1>3, <2>1 DEF GoNext, CanGoNext, CredentialsValid
  <2> QED
    BY <1>0, <2>1, <2>2, <2>3 DEF ForestsStored, ForestList, IsForest, Verified
<1>4. CASE GoBack
  <2>1. /\ UNCHANGED <<forests, asked, slots, session>> /\ page' # "scanning"
        /\ fresh' = (fresh /\ page # "scanning")
        /\ page' = "sources" => page = "scanning"
    BY <1>0, <1>4, TurnedBack
  <2> QED
    BY <1>0, <2>1 DEF ForestsStored, ForestList, IsForest, Verified, InSession
<1>18. CASE Restart
  <2>1. forests' = <<>> /\ page' = "providers" /\ session' = session /\ (fresh' => session # "created")
    BY <1>18 DEF Restart
  <2>2. ForestList'
    BY <2>1 DEF ForestList
  <2> QED
    BY <2>1, <2>2 DEF InSession
<1>19. CASE ExpireCookie
  BY <1>0, <1>19 DEF ExpireCookie, InSession, ForestList, IsForest
<1>5. ASSUME NEW p \in Providers, ToggleProvider(p) PROVE Goal
  BY <1>1, <1>5 DEF ToggleProvider
<1>6. ASSUME NEW p \in Providers, Validate(p) PROVE Goal
  <2>1. asked' = asked \cup {[of |-> p, method |-> method[p], file |-> None]} /\ p # "forest"
    BY <1>6, SourcesAssumption DEF Validate, Ask
  <2> QED
    BY <1>1, <1>6, <2>1 DEF Validate
<1>7. ASSUME NEW p \in Providers,
             \/ EditCredentials(p) \/ SwitchMode(p)
             \/ \E m \in Methods[p] : SwitchMethod(p, m)
             \/ \E id \in DOMAIN subs[p] : ToggleSubscription(p, id)
             \/ \E ids \in SUBSET DOMAIN subs[p] \ {{}} : ToggleAllFiltered(p, ids)
      PROVE Goal
  BY <1>1, <1>7
  DEF EditCredentials, SwitchMode, SwitchMethod, ToggleSubscription, ToggleAllFiltered
<1>8. CASE ChooseFile
  <2>1. \A v \in asked' : v \in asked \/ v.of = "nios"
    BY <1>8 DEF ChooseFile, Ask
  <2> QED
    BY <1>1, <1>8, <2>1 DEF ChooseFile
<1>9. CASE RemoveFile \/ UploadQps \/ \E id \in Discovered : AddDiscovered(id)
  BY <1>1, <1>9 DEF RemoveFile, UploadQps, AddDiscovered
<1>10. CASE AddForest
  <2> DEFINE f == Forest(changes + 1, "idle", <<>>)
  <2>1. /\ forests' = Append(forests, f) /\ page = "credentials"
        /\ UNCHANGED <<page, session, fresh, asked, slots>>
    BY <1>10 DEF AddForest
  <2>2. IsForest(f) /\ f.status # "valid"
    BY <1>0 DEF IsForest, Forest, Shape
  <2> HIDE DEF f
  <2>3. /\ ForestList' /\ Len(forests') = Len(forests) + 1
        /\ \A i \in DOMAIN forests : i \in DOMAIN forests' /\ forests'[i] = forests[i]
        /\ \A i \in DOMAIN forests' : i \notin DOMAIN forests => forests'[i] = f
    BY <1>0, <2>1, <2>2, LongerList
  <2>4. SUFFICES ASSUME ForestsStored PROVE ForestsStored'
    BY <1>2, <2>1, <2>3
  <2>5. Len(forests) \in Nat /\ Len(slots') \in Nat
    BY <1>0, <2>1, <2>4 DEF ForestsStored, ForestList
  <2>6. \A i \in DOMAIN forests' : Verified(i)'
    BY <2>1, <2>2, <2>3, <2>4 DEF ForestsStored, Verified
  <2>7. Len(slots') <= Len(forests')
    BY <2>1, <2>3, <2>4, <2>5 DEF ForestsStored
  <2> QED
    BY <2>1, <2>3, <2>4, <2>6, <2>7 DEF ForestsStored
<1>11. ASSUME NEW i \in DOMAIN forests, EditForest(i) PROVE Goal
  <2> PICK found \in {forests[i].subs, <<>>} :
         forests' = [forests EXCEPT ![i] = Forest(@.id, "idle", found)]
    BY <1>11 DEF EditForest
  <2>1. IsForest(forests[i])
    BY <1>0 DEF ForestList
  <2> DEFINE f == Forest(forests[i].id, "idle", found)
  <2>2. forests' = [forests EXCEPT ![i] = f] /\ IsForest(f)
    BY <2>1 DEF IsForest, Forest
  <2>3. UNCHANGED <<page, session, fresh, slots>> /\ \A v \in asked' : v \in asked
    BY <1>11 DEF EditForest
  <2>4. f.id = forests[i].id /\ f.status # "valid"
    BY DEF Forest
  <2>5. /\ f.status = "valid" => forests[i].status = "valid"
        /\ \A v \in asked' : v \in asked \/ v.of # "forest" \/ (v.place = i /\ v.id = f.id)
    BY <2>3, <2>4
  <2> HIDE DEF f
  <2> QED
    BY <1>0, <1>2, <2>2, <2>3, <2>4, <2>5, OneForest
<1>12. ASSUME NEW i \in DOMAIN forests, ValidateForest(i) PROVE Goal
  <2>1. IsForest(forests[i])
    BY <1>0 DEF ForestList
  <2> DEFINE f == Forest(forests[i].id, "validating", forests[i].subs)
  <2>2. forests' = [forests EXCEPT ![i] = f] /\ IsForest(f)
    BY <2>1, <1>12 DEF IsForest, Forest, ValidateForest
  <2>3. /\ UNCHANGED <<page, session, fresh, slots>>
        /\ \A v \in asked' : v \in asked \/ (v.place = i /\ v.id = forests[i].id)
    <3> DEFINE w == [of |-> "forest", place |-> i, id |-> forests[i].id]
    <3>1. asked' = asked \cup {w} /\ w.place = i /\ w.id = forests[i].id
      BY <1>12 DEF ValidateForest, Ask
    <3>2. UNCHANGED <<page, session, fresh, slots>>
      BY <1>12 DEF ValidateForest
    <3> HIDE DEF w
    <3> QED
      BY <3>1, <3>2
  <2>4. f.id = forests[i].id /\ f.status # "valid"
    BY DEF Forest
  <2>5. /\ f.status = "valid" => forests[i].status = "valid"
        /\ \A v \in asked' : v \in asked \/ v.of # "forest" \/ (v.place = i /\ v.id = f.id)
    BY <2>3, <2>4
  <2> HIDE DEF f
  <2> QED
    BY <1>0, <1>2, <2>2, <2>3, <2>4, <2>5, OneForest
<1>13. ASSUME NEW i \in DOMAIN forests, NEW id \in DOMAIN forests[i].subs, ToggleForestSource(i, id)
       PROVE Goal
  <2>1. IsForest(forests[i])
    BY <1>0 DEF ForestList
  <2> DEFINE found == [forests[i].subs EXCEPT ![id] = ~@]
  <2> DEFINE f == Forest(forests[i].id, forests[i].status, found)
  <2>2. forests' = [forests EXCEPT ![i] = f] /\ IsForest(f)
    <3>1. forests' = [forests EXCEPT ![i] = f]
      BY <1>13 DEF ToggleForestSource
    <3> HIDE DEF found
    <3>2. IsForest(f)
      BY <2>1 DEF IsForest, Forest
    <3> QED
      BY <3>1, <3>2
  <2>3. UNCHANGED <<page, session, fresh, slots>> /\ \A v \in asked' : v \in asked
    BY <1>13 DEF ToggleForestSource
  <2>4. f.id = forests[i].id /\ f.status = forests[i].status
    <3> HIDE DEF found
    <3> QED
      BY DEF Forest
  <2>5. /\ f.status = "valid" => forests[i].status = "valid"
        /\ \A v \in asked' : v \in asked \/ v.of # "forest" \/ (v.place = i /\ v.id = f.id)
    BY <2>3, <2>4
  <2> HIDE DEF f
  <2> QED
    BY <1>0, <1>2, <2>2, <2>3, <2>4, <2>5, OneForest
(* Answers.  The first one finds no forests.                               *)
<1>14. ASSUME NEW v \in asked, Answer(v), v.of # "forest" PROVE Goal
  <2>1. /\ UNCHANGED <<page, forests>> /\ asked' = asked \ {v}
        /\ fresh' = (fresh /\ page # "scanning")
    BY <1>14 DEF Answer, Accepts, AcceptsForest, Refuses, Answered
  <2>2. ForestList'
    BY <1>0, <2>1 DEF ForestList, IsForest
  <2>3. SUFFICES ASSUME fresh, page # "scanning", session' = "created" PROVE ForestsStored'
    BY <2>1, <2>2 DEF InSession
  <2>4. CASE session = "created"
    <3>1. slots' = slots
      BY <1>14, <2>4 DEF Answer, Accepts, AcceptsForest, Refuses, Kept
    <3> QED
      BY <1>0, <2>1, <2>3, <2>4, <3>1 DEF ForestsStored, Verified, InSession
  <2>5. CASE session # "created"
    <3>1. slots' = <<>>
      BY <1>14, <2>3, <2>5 DEF Answer, Accepts, AcceptsForest, Refuses, Kept
    <3>2. forests' = <<>> /\ \A w \in asked' : w.of # "forest"
      BY <1>0, <2>1, <2>3, <2>5 DEF SessionInv
    <3> QED
      BY <3>1, <3>2 DEF ForestsStored, Verified
  <2> QED
    BY <2>4, <2>5
<1>15. ASSUME NEW v \in asked, Answer(v), v.of = "forest" PROVE Goal
  <2> DEFINE i == v.place
  <2>1. /\ page' = page /\ asked' = asked \ {v}
        /\ fresh' = (fresh /\ page # "scanning")
        /\ AcceptsForest(v) \/ Refuses(v)
    BY <1>15 DEF Answer, Accepts, AcceptsForest, Refuses, Answered
  <2>2. ForestList'
    <3>1. CASE i \in DOMAIN forests
      <4> PICK f : IsForest(f) /\ f.id = forests[i].id /\ forests' = [forests EXCEPT ![i] = f]
        <5>1. IsForest(forests[i])
          BY <1>0, <3>1 DEF ForestList
        <5> DEFINE g == IF AcceptsForest(v) THEN Forest(forests[i].id, "valid", Found("microsoft"))
                        ELSE Forest(forests[i].id, "error", forests[i].subs)
        <5>2. forests' = [forests EXCEPT ![i] = g]
          BY <1>15, <2>1, <3>1 DEF AcceptsForest, Refuses
        <5>3. IsForest(g) /\ g.id = forests[i].id
          BY <5>1 DEF IsForest, Forest
        <5> HIDE DEF g
        <5> QED
          BY <5>2, <5>3
      <4> QED
        BY <1>0, <3>1, KeptList
    <3>2. CASE i \notin DOMAIN forests
      <4>1. forests' = forests
        BY <2>1, <3>2 DEF AcceptsForest, Refuses
      <4> QED
        BY <1>0, <4>1 DEF ForestList, IsForest
    <3> QED
      BY <3>1, <3>2
  <2>3. SUFFICES ASSUME fresh, page # "scanning" PROVE ForestsStored'
    BY <2>1, <2>2 DEF InSession
  <2>4. session = "created" /\ ForestsStored
    BY <1>0, <1>15, <2>3 DEF SessionInv, InSession
  <2>0. i \in DOMAIN forests /\ v.id = forests[i].id /\ IsForest(forests[i])
    BY <1>0, <1>15, <2>4 DEF ForestsStored, ForestList
  <2>5. CASE AcceptsForest(v)
    <3> DEFINE f == Forest(forests[i].id, "valid", Found("microsoft"))
    <3>1. forests' = [forests EXCEPT ![i] = f] /\ slots' = StoreForest(slots, i, f.id) /\ IsForest(f)
      BY <2>0, <2>4, <2>5 DEF AcceptsForest, IsForest, Forest, Kept
    <3>2. f.id = forests[i].id /\ f.id \in Int
      BY <3>1 DEF IsForest, Forest
    <3> HIDE DEF f
    <3>3. SameForests /\ Len(forests') = Len(forests)
      BY <1>0, <2>0, <3>1, <3>2, KeptList
    <3>4. i \in Nat \ {0} /\ DOMAIN forests = 1..Len(forests) /\ Len(forests) \in Nat
          /\ slots \in Seq(Int)
      BY <1>0, <2>0, <2>4 DEF ForestsStored, ForestList
    <3>5. /\ slots' \in Seq(Int) /\ i \in DOMAIN slots' /\ slots'[i] = f.id
          /\ Len(slots') = IF i > Len(slots) THEN i ELSE Len(slots)
          /\ \A j \in DOMAIN slots : j # i => j \in DOMAIN slots' /\ slots'[j] = slots[j]
      BY <3>1, <3>2, <3>4, StoredForest
    <3>6. Len(slots') <= Len(forests')
      BY <2>0, <2>4, <3>3, <3>4, <3>5 DEF ForestsStored
    <3>7. \A j \in DOMAIN forests : j # i => forests'[j] = forests[j]
      BY <3>1, <3>4
    <3>8. \A j \in DOMAIN forests' : Verified(j)'
      BY <2>4, <3>2, <3>3, <3>5, <3>7 DEF ForestsStored, Verified, SameForests
    <3> QED
      BY <2>1, <2>4, <3>2, <3>3, <3>5, <3>6, <3>8 DEF ForestsStored, SameForests
  <2>6. CASE Refuses(v)
    <3> DEFINE f == Forest(forests[i].id, "error", forests[i].subs)
    <3>1. forests' = [forests EXCEPT ![i] = f] /\ UNCHANGED <<slots, session>> /\ IsForest(f)
      BY <1>15, <2>0, <2>6 DEF Refuses, IsForest, Forest
    <3>2. f.id = forests[i].id /\ f.status # "valid"
      BY DEF Forest
    <3>3. /\ f.status = "valid" => forests[i].status = "valid"
          /\ \A w \in asked' : w \in asked \/ w.of # "forest" \/ (w.place = i /\ w.id = f.id)
      BY <2>1, <3>2
    <3>4. InSession'
      BY <2>1, <2>3, <2>4, <3>1 DEF InSession
    <3> HIDE DEF f
    <3> QED
      BY <1>0, <2>0, <2>1, <2>4, <3>1, <3>2, <3>3, <3>4, OneForest
  <2> QED
    BY <2>1, <2>5, <2>6
<1>16. CASE UNCHANGED vars
  BY <1>1, <1>16 DEF vars, history
<1>17. ASSUME NEW i \in DOMAIN forests, RemoveForest(i) PROVE Goal
  BY <1>17 DEF RemoveForest
<1> QED
  BY <1>3, <1>4, <1>5, <1>6, <1>7, <1>8, <1>9, <1>10, <1>11, <1>12, <1>13, <1>14, <1>15, <1>16, <1>17,
     <1>18, <1>19
  DEF Next

(* Where no forest is removed, the first scan starts with the credentials  *)
(* of the forests on the page, in their order (storeCredentials in         *)
(* validate.go).                                                           *)
THEOREM ForestsInOrder == Spec => [](~Removable => ForestsAsShown)
<1>1. Init => ForestInv
  BY VerifiedInit DEF Init, ForestInv, ForestList, InSession
<1>2. ForestInv => ForestsAsShown
  <2> SUFFICES ASSUME ForestList, ForestsStored, page = "scanning"
               PROVE slots = [i \in DOMAIN forests |-> forests[i].id]
    BY DEF ForestsAsShown, Scanning, ForestInv, InSession
  <2>1. \A i \in DOMAIN forests : i \in DOMAIN slots /\ slots[i] = forests[i].id
    BY DEF ForestsStored
  <2>2. /\ DOMAIN forests = 1..Len(forests) /\ Len(forests) \in Nat
        /\ DOMAIN slots = 1..Len(slots) /\ Len(slots) \in Nat /\ Len(slots) <= Len(forests)
        /\ slots \in [1..Len(slots) -> Int]
    BY DEF ForestsStored, ForestList
  <2>3. DOMAIN slots = DOMAIN forests
    <3>1. Len(forests) = 0 \/ Len(forests) \in DOMAIN forests
      BY <2>2
    <3>2. Len(forests) <= Len(slots)
      BY <2>1, <2>2, <3>1
    <3> QED
      <4>1. Len(slots) \in Nat /\ Len(forests) \in Nat /\ Len(slots) <= Len(forests)
        BY <2>2
      <4>2. Len(slots) = Len(forests)
        BY <3>2, <4>1
      <4> QED
        BY <2>2, <4>2
  <2> QED
    BY <2>1, <2>2, <2>3
<1>3. ~Removable /\ ForestInv => ForestsAsShown
  BY <1>2
<1>4. CASE Removable
  <2>1. ~Removable => ForestsAsShown
    BY <1>4
  <2> QED
    BY <2>1, PTL
<1>5. CASE ~Removable
  <2>1. ForestInv /\ [Next]_vars => ForestInv'
    BY <1>5, ForestStep
  <2>2. ForestInv => (~Removable => ForestsAsShown)
    BY <1>2
  <2> QED
    BY <1>1, <2>1, <2>2, PTL DEF Spec
<1> QED
  BY <1>4, <1>5
=============================================================================
