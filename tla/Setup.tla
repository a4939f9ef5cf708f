------------------------------- MODULE Setup --------------------------------
(***************************************************************************)
(* The pages before a scan: the choice of providers, their credentials and *)
(* backups, the forests of Active Directory beside the first, the sources  *)
(* to scan, and the request that starts the scan (wizard.tsx); with what   *)
(* the server keeps of it (validate.go, orchestrator.go).                  *)
(*                                                                         *)
(* A validation answers at any time, whatever the user did meanwhile, and  *)
(* marks the provider, or the place in the list of forests, that it was    *)
(* asked for.  startScan is memoized: it sends what the wizard held when   *)
(* one of the values it declares as dependencies changed last.             *)
(*                                                                         *)
(* The server stores what it accepts in the session that the cookie names, *)
(* and in a new, empty one when there is no cookie or a scan was started   *)
(* with that session.  The page does not notice.                           *)
(***************************************************************************)
EXTENDS Integers, Sequences, FiniteSets, SequencesExt

CONSTANTS
  Providers,   \* among "nios", "microsoft" and others
  Methods,     \* the authentication methods of each provider; "backup" and "wapi" of nios
  Sources,     \* the sources a validation of each provider finds
  Discovered,  \* servers the discovery of Active Directory finds besides
  MaxForests,  \* forests beside the first, in all
  Removable,   \* BOOLEAN: forests are removed
  Excludable,  \* BOOLEAN: the user turns a selection into an exclusion
  MaxChanges   \* what the user does, apart from choosing providers and turning pages, and expiries

ASSUME SourcesAssumption == Providers \subseteq DOMAIN Sources /\ "forest" \notin Providers

VARIABLES
  page,       \* currentStep
  selected,   \* selectedProviders
  status,     \* credentialStatus
  method,     \* selectedAuthMethod and, for nios, niosMode
  subs,       \* subscriptions: for the sources that were found, whether they are checked
  mode,       \* selectionMode
  upload,     \* niosUploadedFile and backupToken: numbers of files, 0 for none
  qps,        \* whether qpsToken is set
  forests,    \* adForests
  seen,       \* the values startScan was memoized with
  asked,      \* validations under way
  session,    \* server: of the cookie, "none", "created", or "scanning" and after
  stored,     \* server: the providers it has credentials of
  slots,      \* server: its ADForests, the forest each entry is of
  request,    \* the last request to start a scan, Nothing before
  changes,    \* a bound, not in the code
  rushed,     \* history: what the user changed while its validation was under way
  fresh       \* history: since the pages were begun no session was left behind

pages    == <<page, changes>>
accounts == <<status, method, subs, mode, upload, qps, forests>>
server   == <<asked, session, stored, slots>>
history  == <<rushed, fresh>>
vars     == <<page, changes, selected, accounts, seen, server, request, history>>

Nothing == <<>>
None == 0
Blank == -1  \* an entry of ADForests that no validation has filled
DefaultMethod(p) == IF p = "nios" THEN "backup" ELSE CHOOSE m \in Methods[p] : TRUE

(* What startScan reads, and of it what it declares as dependencies: not   *)
(* the token of the QPS data nor the forests.  The credentials are one too *)
(* and of them only the edits are in the model.                            *)
Read ==
  [selected |-> selected, subs |-> subs, mode |-> mode, method |-> method,
   token |-> upload.token, qps |-> qps, forests |-> forests]

(* Slip: the sources are not among the dependencies. *)
DependsOnAccounts == <<selected, method, mode, upload.token>>

Dependencies == <<selected, method, mode, upload.token, subs>>

Init ==
  /\ page = "providers" /\ selected = {}
  /\ status = [p \in Providers |-> "idle"]
  /\ method = [p \in Providers |-> DefaultMethod(p)]
  /\ subs = [p \in Providers |-> <<>>]
  /\ mode = [p \in Providers |-> "include"]
  /\ upload = [file |-> None, token |-> None]
  /\ qps = FALSE /\ forests = <<>>
  /\ seen = Read
  /\ asked = {} /\ session = "none" /\ stored = {} /\ slots = <<>>
  /\ request = Nothing /\ changes = 0
  /\ rushed = {} /\ fresh = TRUE

-----------------------------------------------------------------------------
(* What the wizard shows and allows.                                       *)

(* getEffectiveSelected: checked sources are scanned, or are skipped. *)
EffectiveSelected(s, m, p) == {id \in DOMAIN s[p] : s[p][id] = (m[p] = "include")}

CredentialsValid ==
  /\ \A p \in selected : status[p] = "valid"
  /\ \A i \in DOMAIN forests : forests[i].status = "valid"

SomethingSelected ==
  \/ \E p \in selected : EffectiveSelected(subs, mode, p) # {}
  \/ \E i \in DOMAIN forests : \E id \in DOMAIN forests[i].subs : forests[i].subs[id]

Pages == <<"providers", "credentials", "sources", "scanning">>
Place == CHOOSE i \in DOMAIN Pages : Pages[i] = page

CanGoNext ==
  CASE page = "providers"   -> selected # {}
    [] page = "credentials" -> CredentialsValid
    [] page = "sources"     -> SomethingSelected
    [] OTHER                -> FALSE

(* The last render in which a dependency changed is the one startScan sees. *)
Memoize == seen' = IF Dependencies' = Dependencies THEN seen ELSE Read'
Render(same) == UNCHANGED same /\ Memoize

(* A change by the user on a page, of what no validation is under way for  *)
(* or in spite of one.                                                     *)
Act(where) ==
  /\ page = where /\ changes < MaxChanges /\ changes' = changes + 1
  /\ UNCHANGED <<page, request, fresh>>

Change(where) == Act(where) /\ UNCHANGED rushed

Awaited(what) == \E v \in asked : v.of = what
Rush(what) == rushed' = IF Awaited(what) THEN rushed \cup {what} ELSE rushed

-----------------------------------------------------------------------------
(* Providers and credentials.                                              *)

ToggleProvider(p) ==
  /\ page = "providers" /\ Rush(p)
  /\ selected' = IF p \in selected THEN selected \ {p} ELSE selected \cup {p}
  /\ status' = [status EXCEPT ![p] = "idle"]
  /\ subs' = [subs EXCEPT ![p] = <<>>]
  /\ Render(<<pages, method, mode, upload, qps, forests, server, request, fresh>>)

Ask(v) == asked' = asked \cup {v}

(* validateCredential; a backup is parsed as soon as it is chosen. *)
Validate(p) ==
  /\ Change("credentials") /\ p \in selected
  /\ status[p] \notin {"validating", "valid"}
  /\ p # "nios" \/ method[p] # "backup"
  /\ status' = [status EXCEPT ![p] = "validating"]
  /\ Ask([of |-> p, method |-> method[p], file |-> None])
  /\ Render(<<selected, method, subs, mode, upload, qps, forests, session, stored, slots>>)

NextFile == 1 + IF upload.file > upload.token THEN upload.file ELSE upload.token

(* A file dropped while another one is parsed takes its place on the page. *)
ChooseFile ==
  /\ Act("credentials") /\ Rush("nios") /\ "nios" \in selected /\ method["nios"] = "backup"
  /\ upload' = [upload EXCEPT !.file = NextFile]
  /\ IF status["nios"] \in {"validating", "valid"} THEN UNCHANGED <<status, asked>>
     ELSE /\ status' = [status EXCEPT !["nios"] = "validating"]
          /\ Ask([of |-> "nios", method |-> "backup", file |-> NextFile])
  /\ Render(<<selected, method, subs, mode, qps, forests, session, stored, slots>>)

(* The token of the removed file stays. *)
RemoveFile ==
  /\ Change("credentials") /\ upload.file # None /\ status["nios"] \in {"valid", "error"}
  /\ upload' = [upload EXCEPT !.file = None]
  /\ status' = [status EXCEPT !["nios"] = "idle"]
  /\ subs' = [subs EXCEPT !["nios"] = <<>>]
  /\ Render(<<selected, method, mode, qps, forests, server>>)

UploadQps ==
  /\ Change("credentials") /\ "nios" \in selected
  /\ status["nios"] = "valid" /\ upload.file # None
  /\ qps' = ~qps
  /\ Render(<<selected, status, method, subs, mode, upload, forests, server>>)

(* Slip: the provider stays valid. *)
SwitchMethodOnly(p, m) ==
  /\ Act("credentials") /\ Rush(p) /\ p \in selected /\ m # method[p]
  /\ method' = [method EXCEPT ![p] = m]
  /\ upload' = IF p = "nios" THEN [file |-> None, token |-> None] ELSE upload
  /\ Render(<<selected, mode, qps, forests, server, status, subs>>)

SwitchMethod(p, m) ==
  /\ Act("credentials") /\ Rush(p) /\ p \in selected /\ m # method[p]
  /\ method' = [method EXCEPT ![p] = m]
  /\ status' = [status EXCEPT ![p] = IF p = "nios" \/ @ \in {"valid", "error"} THEN "idle" ELSE @]
  /\ upload' = IF p = "nios" THEN [file |-> None, token |-> None] ELSE upload
  /\ subs' = IF p = "nios" THEN [subs EXCEPT ![p] = <<>>] ELSE subs
  /\ Render(<<selected, mode, qps, forests, server>>)

(* Credentials that were verified stay verified while they are edited.     *)
(* They are a dependency of startScan.                                     *)
EditCredentials(p) ==
  /\ Change("credentials") /\ p \in selected
  /\ seen' = Read
  /\ UNCHANGED <<selected, accounts, server>>

(* A discovered server joins the credentials that were verified already. *)
AddDiscovered(id) ==
  /\ Change("credentials") /\ "microsoft" \in selected /\ status["microsoft"] = "valid"
  /\ id \notin DOMAIN subs["microsoft"]
  /\ subs' = [subs EXCEPT !["microsoft"] = (id :> TRUE) @@ @]
  /\ UNCHANGED <<selected, status, method, mode, upload, qps, forests, server>>
  /\ seen' = Read'

-----------------------------------------------------------------------------
(* Forests.  id tells them apart, which the code does by their place.      *)

Forest(id, state, found) == [id |-> id, status |-> state, subs |-> found]

AddForest ==
  /\ Change("credentials") /\ "microsoft" \in selected /\ status["microsoft"] = "valid"
  /\ Len(forests) < MaxForests
  /\ forests' = Append(forests, Forest(changes + 1, "idle", <<>>))
  /\ Render(<<selected, status, method, subs, mode, upload, qps, server>>)

(* Other credentials, or another method, which drops the sources too. *)
EditForest(i) ==
  /\ Change("credentials")
  /\ \E found \in {forests[i].subs, <<>>} :
       forests' = [forests EXCEPT ![i] = Forest(@.id, "idle", found)]
  /\ Render(<<selected, status, method, subs, mode, upload, qps, server>>)

RemoveForest(i) ==
  /\ Change("credentials") /\ Removable
  /\ forests' = RemoveAt(forests, i)
  /\ Render(<<selected, status, method, subs, mode, upload, qps, server>>)

ValidateForest(i) ==
  /\ Change("credentials") /\ forests[i].status # "validating"
  /\ forests' = [forests EXCEPT ![i] = Forest(@.id, "validating", @.subs)]
  /\ Ask([of |-> "forest", place |-> i, id |-> forests[i].id])
  /\ Render(<<selected, status, method, subs, mode, upload, qps, session, stored, slots>>)

-----------------------------------------------------------------------------
(* Answers.                                                                *)

(* All sources are checked, but for accounts the user is to choose from. *)
Found(p) == [id \in Sources[p] |-> p \in {"nios", "microsoft"}]

Answered(v) == asked' = asked \ {v}

(* HandleValidate and the upload of a backup: what the session of the      *)
(* cookie holds, if it can still be scanned, or an empty one.              *)
Kept(held, empty) == IF session = "created" THEN held ELSE empty

Accepts(v) ==
  /\ v.of # "forest"
  /\ Answered(v) /\ session' = "created"
  /\ status' = [status EXCEPT ![v.of] = "valid"]
  /\ subs' = [subs EXCEPT ![v.of] = Found(v.of)]
  /\ IF v.of = "nios" /\ v.method = "backup"
     THEN upload' = [upload EXCEPT !.token = v.file] /\ stored' = Kept(stored, {})
     ELSE stored' = Kept(stored, {}) \cup {v.of} /\ UNCHANGED upload
  /\ slots' = Kept(slots, <<>>)
  /\ UNCHANGED <<method, mode, qps, forests>>

(* Slip: the entry of the forest is appended. *)
StoreForestLast(s, place, id) == Append(s, id)

(* storeCredentials: the list grows to the place asked for. *)
StoreForest(s, place, id) ==
  [i \in 1..(IF place > Len(s) THEN place ELSE Len(s)) |->
     IF i = place THEN id ELSE IF i <= Len(s) THEN s[i] ELSE Blank]

AcceptsForest(v) ==
  /\ v.of = "forest"
  /\ Answered(v) /\ session' = "created"
  /\ slots' = StoreForest(Kept(slots, <<>>), v.place, v.id)
  /\ stored' = Kept(stored, {})
  /\ forests' = IF v.place \notin DOMAIN forests THEN forests
                ELSE [forests EXCEPT ![v.place] = Forest(@.id, "valid", Found("microsoft"))]
  /\ UNCHANGED <<status, method, subs, mode, upload, qps>>

(* An error, or no answer: nothing is stored. *)
Refuses(v) ==
  /\ Answered(v)
  /\ status' = IF v.of = "forest" THEN status ELSE [status EXCEPT ![v.of] = "error"]
  /\ forests' = IF v.of # "forest" \/ v.place \notin DOMAIN forests THEN forests
                ELSE [forests EXCEPT ![v.place] = Forest(@.id, "error", @.subs)]
  /\ UNCHANGED <<method, subs, mode, upload, qps, session, stored, slots>>

Answer(v) ==
  /\ Accepts(v) \/ AcceptsForest(v) \/ Refuses(v)
  /\ fresh' = (fresh /\ page # "scanning")
  /\ Render(<<pages, selected, request, rushed>>)

(* The cookie lives an hour from the validation that set it. *)
ExpireCookie ==
  /\ changes < MaxChanges /\ changes' = changes + 1
  /\ session # "none" /\ session' = "none" /\ fresh' = FALSE
  /\ UNCHANGED <<page, selected, accounts, seen, asked, stored, slots, request, rushed>>

-----------------------------------------------------------------------------
(* Sources.                                                                *)

Check(p, ids, checked) ==
  subs' = [subs EXCEPT ![p] = [id \in DOMAIN @ |-> IF id \in ids THEN checked ELSE @[id]]]

ToggleSubscription(p, id) ==
  /\ Change("sources") /\ p \in selected
  /\ Check(p, {id}, ~subs[p][id])
  /\ Render(<<selected, status, method, mode, upload, qps, forests, server>>)

(* Those the search leaves are all checked, or unchecked when all were. *)
ToggleAllFiltered(p, ids) ==
  /\ Change("sources") /\ p \in selected
  /\ Check(p, ids, \E id \in ids : ~subs[p][id])
  /\ Render(<<selected, status, method, mode, upload, qps, forests, server>>)

SwitchMode(p) ==
  /\ Change("sources") /\ p \in selected /\ Excludable
  /\ Check(p, DOMAIN subs[p], FALSE)
  /\ mode' = [mode EXCEPT ![p] = IF @ = "include" THEN "exclude" ELSE "include"]
  /\ Render(<<selected, status, method, upload, qps, forests, server>>)

ToggleForestSource(i, id) ==
  /\ Change("sources") /\ "microsoft" \in selected
  /\ LET f == forests[i] IN
       forests' = [forests EXCEPT ![i] = Forest(f.id, f.status, [f.subs EXCEPT ![id] = ~@])]
  /\ Render(<<selected, status, method, subs, mode, upload, qps, server>>)

-----------------------------------------------------------------------------
(* The request.                                                            *)

(* The entry of a provider; the members of a grid are its checked sources. *)
Entry(p) ==
  [subscriptions |-> EffectiveSelected(seen.subs, seen.mode, p),
   members       |-> IF p = "nios" THEN {id \in DOMAIN seen.subs[p] : seen.subs[p][id]} ELSE {},
   wapi          |-> p = "nios" /\ seen.method[p] = "wapi",
   token         |-> IF p = "nios" /\ seen.method[p] = "backup" THEN seen.token ELSE None,
   qps           |-> p = "nios" /\ seen.qps,
   forests       |-> IF p = "microsoft" THEN Len(seen.forests) ELSE 0]

(* HandleStartScan refuses a session that is not "created". *)
GoNext ==
  /\ page # "scanning" /\ CanGoNext
  /\ page' = Pages[Place + 1]
  /\ IF page = "sources"
     THEN /\ request' = [p \in seen.selected |-> Entry(p)]
          /\ session' = IF session = "created" THEN "scanning" ELSE session
     ELSE UNCHANGED <<request, session>>
  /\ UNCHANGED <<changes, selected, accounts, seen, asked, stored, slots, history>>

GoBack ==
  /\ page # "providers"
  /\ page' = Pages[Place - 1]
  /\ fresh' = (fresh /\ page # "scanning")
  /\ UNCHANGED <<changes, selected, accounts, seen, server, request, rushed>>

(* restart: from the results, after the scan or a file that was loaded on  *)
(* the first page.  Methods stay, but for nios; validations go on.         *)
Restart ==
  /\ page \in {"providers", "scanning"} /\ page' = "providers"
  /\ changes < MaxChanges /\ changes' = changes + 1
  /\ selected' = {}
  /\ status' = [p \in Providers |-> "idle"]
  /\ method' = [method EXCEPT !["nios"] = "backup"]
  /\ subs' = [p \in Providers |-> <<>>]
  /\ mode' = [p \in Providers |-> "include"]
  /\ upload' = [file |-> None, token |-> None]
  /\ qps' = FALSE /\ forests' = <<>>
  /\ rushed' = {v.of : v \in asked}
  /\ fresh' = (session # "created" /\ ~Awaited("forest"))
  /\ Render(<<request, server>>)

-----------------------------------------------------------------------------
Next ==
  \/ GoNext \/ GoBack \/ Restart \/ ExpireCookie
  \/ \E p \in Providers :
       \/ ToggleProvider(p) \/ Validate(p) \/ EditCredentials(p) \/ SwitchMode(p)
       \/ \E m \in Methods[p] : SwitchMethod(p, m)
       \/ \E id \in DOMAIN subs[p] : ToggleSubscription(p, id)
       \/ \E ids \in SUBSET DOMAIN subs[p] \ {{}} : ToggleAllFiltered(p, ids)
  \/ "nios" \in Providers /\ (ChooseFile \/ RemoveFile \/ UploadQps)
  \/ "microsoft" \in Providers /\ (AddForest \/ \E id \in Discovered : AddDiscovered(id))
  \/ \E i \in DOMAIN forests :
       \/ EditForest(i) \/ RemoveForest(i) \/ ValidateForest(i)
       \/ \E id \in DOMAIN forests[i].subs : ToggleForestSource(i, id)
  \/ \E v \in asked : Answer(v)

Spec == Init /\ [][Next]_vars

-----------------------------------------------------------------------------
(* Properties.                                                             *)

Scanning == page = "scanning"

(* The request names the sources that the page showed as the ones to scan, *)
(* whatever was changed before the last render: they are dependencies of   *)
(* startScan.  What the user changed while its validation was under way is *)
(* excepted: the late answer replaces the sources on show.                 *)
SelectionSent ==
  Scanning => /\ DOMAIN request = selected
              /\ \A p \in selected \ rushed :
                   request[p].subscriptions = EffectiveSelected(subs, mode, p)

(* What is shown as verified can be scanned: the session of the cookie has *)
(* credentials of the provider, or there is the file of its backup, and a  *)
(* scan can be started with it.  It holds until a scan was started or the  *)
(* cookie expired, and for all that the user did not change while it was   *)
(* being verified.                                                         *)
CanBeScanned(p) ==
  IF p = "nios" /\ method[p] = "backup" THEN upload.token # None ELSE p \in stored

VerifiedReady ==
  fresh => \A p \in selected \ rushed : status[p] = "valid" =>
             CanBeScanned(p) /\ (Scanning \/ session = "created")

(* When the first scan starts, its session holds the credentials of the    *)
(* forests on the page, in their order, and of no other: no blank entry    *)
(* stays where forests were validated out of order.  Removing a forest can *)
(* break it.                                                               *)
ForestsAsShown ==
  Scanning /\ fresh => slots = [i \in DOMAIN forests |-> forests[i].id]
=============================================================================
