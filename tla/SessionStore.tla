---------------------------- MODULE SessionStore ----------------------------
(***************************************************************************)
(* The sessions of the server (internal/session, server/validate.go and    *)
(* server/scan.go) and the concurrent HTTP handlers that create, fill,     *)
(* clone and start them.                                                   *)
(*                                                                         *)
(* A session is created by the first credentials that validate, is filled  *)
(* by the next ones while it is in its created state, and is handed over   *)
(* to a scan, after which the handlers must leave it alone.  The handlers  *)
(* read Session.State and act on it later, without a lock.                 *)
(*                                                                         *)
(* One browser talks to the server.  It has one ddi_session cookie, which  *)
(* expires, and it may have several requests under way at once.            *)
(***************************************************************************)
EXTENDS Naturals, FiniteSets

CONSTANTS MaxSessions, \* bound on the sessions created
          MaxRuns,     \* bound on the scans launched
          Handler,     \* goroutines that serve requests
          Starters,    \* those that may be asked to start a scan
          Provider,    \* providers with a credential struct in the session
          AD,          \* the one with additional forests
          MaxForests,  \* bound on their number
          MaxCreds     \* bound on the credential structs allocated

ASSUME SessionStoreAssumption ==
  /\ MaxSessions \in Nat
  /\ MaxRuns \in Nat
  /\ Starters \subseteq Handler
  /\ MaxForests \in Nat
  /\ MaxCreds \in Nat

Session   == 1 .. MaxSessions
NoSession == 0
Run       == 1 .. MaxRuns
Key    == (Provider \X {0}) \cup ({AD} \X (1 .. MaxForests))
Nil    == 0                    \* a nil pointer, or a slot the slice lacks
Blank  == MaxCreds + 1         \* the zero ADCredentials that fill the slice
Struct == 1 .. MaxCreds        \* allocated credential structs
NoCreds   == [k \in Key |-> Nil]
NoForests == [i \in 1 .. MaxForests |-> Nil]
NoKey     == <<AD, MaxForests + 1>>   \* an upload has no credentials

VARIABLES
  state,     \* Session.State, or "absent" while the id is not in the store
  creds,     \* the session's credential pointers and its ADForests
  heap,      \* what each credential struct holds: the validation it is of
  cookie,    \* the browser's ddi_session cookie
  handler,   \* what each handler is doing, with which session and cookie
  run,       \* the scans launched, with the credentials each has copied
  stored,    \* keys whose credentials a finished handler put in a session
  told,      \* keys the browser was told are valid since its cookie expired
  raced,     \* whether requests that disturb each other were under way at
             \* once, or one while the cookie expired
  covered    \* for each launched scan, the keys stored in its session then

storeVars == <<state, creds, heap, cookie, handler, run, stored, told, raced, covered>>

Idle  == [at |-> "idle", sess |-> NoSession, cookie |-> NoSession, key |-> NoKey,
          seen |-> NoForests]
NoRun == [at |-> "none", sess |-> NoSession, used |-> NoCreds]

Used == {c \in Struct : heap[c] # Nil}

StoreInit ==
  /\ state = [s \in Session |-> "absent"]
  /\ creds = [s \in Session |-> NoCreds]
  /\ heap = [c \in Struct |-> Nil]
  /\ cookie = NoSession
  /\ handler = [h \in Handler |-> Idle]
  /\ run = [r \in Run |-> NoRun]
  /\ stored = [s \in Session |-> {}]
  /\ told = {}
  /\ raced = FALSE
  /\ covered = [r \in Run |-> {}]

-----------------------------------------------------------------------------
(* HandleValidate and storeCredentials.  A validator that refuses the      *)
(* credentials changes nothing; this one accepts them.                     *)

(* Two requests without a cookie make two sessions; two for additional     *)
(* forests work on one slice.                                              *)
Races(k) == \E g \in Handler : handler[g] # Idle
              /\ \/ cookie = NoSession
                 \/ k[2] > 0 /\ handler[g].key[2] > 0

Validate(h, k) ==
  /\ handler[h] = Idle
  /\ handler' = [handler EXCEPT ![h].at = "validated", ![h].cookie = cookie, ![h].key = k]
  /\ raced' = (raced \/ Races(k))
  /\ UNCHANGED <<state, creds, heap, cookie, run, stored, told, covered>>

(* HandleUploadNiosBackup chooses a session the same way and stores no     *)
(* credentials in it: its answer carries a token for the uploaded file.    *)
UploadBackup(h) ==
  /\ handler[h] = Idle
  /\ handler' = [handler EXCEPT ![h].at = "validated", ![h].cookie = cookie]
  /\ raced' = (raced \/ Races(NoKey))
  /\ UNCHANGED <<state, creds, heap, cookie, run, stored, told, covered>>

Fresh(s) == s \in Session /\ state[s] = "absent" /\ \A t \in 1 .. s - 1 : state[t] # "absent"

(* Slip: a session for every provider. *)
ChooseNewSession(h) ==
  /\ handler[h].at = "validated"
  /\ \E s \in Session :
       /\ Fresh(s)
       /\ state' = [state EXCEPT ![s] = "created"]
       /\ handler' = [handler EXCEPT ![h].at = "storing", ![h].sess = s]
  /\ UNCHANGED <<creds, heap, cookie, run, stored, told, raced, covered>>

(* The cookie's session is reused if no scan was started on it, otherwise  *)
(* Store.New makes one.                                                    *)
ChooseSession(h) ==
  /\ handler[h].at = "validated"
  /\ LET c == handler[h].cookie
     IN  IF c # NoSession /\ state[c] = "created"
         THEN /\ handler' = [handler EXCEPT ![h].at = "storing", ![h].sess = c]
              /\ UNCHANGED state
         ELSE \E s \in Session :
                /\ Fresh(s)
                /\ state' = [state EXCEPT ![s] = "created"]
                /\ handler' = [handler EXCEPT ![h].at = "storing", ![h].sess = s]
  /\ UNCHANGED <<creds, heap, cookie, run, stored, told, raced, covered>>

(* Slip: an existing struct is overwritten, under the clones that share it. *)
StoreInPlace(h) ==
  /\ handler[h].at = "storing" /\ handler[h].key[2] = 0
  /\ \E c \in Struct \ Used :
       LET old == creds[handler[h].sess][handler[h].key]
       IN  /\ \A d \in Struct \ Used : c <= d
           /\ heap' = [heap EXCEPT ![IF old \in Struct THEN old ELSE c] = c]
           /\ creds' = IF old \in Struct THEN creds
                       ELSE [creds EXCEPT ![handler[h].sess][handler[h].key] = c]
  /\ handler' = [handler EXCEPT ![h].at = "stored"]
  /\ UNCHANGED <<state, cookie, run, stored, told, raced, covered>>

(* A new struct is allocated for every validation, never an old one        *)
(* written to.                                                             *)
StoreCredentials(h) ==
  /\ handler[h].at = "storing" /\ handler[h].key[2] = 0
  /\ \E c \in Struct \ Used :
       /\ \A d \in Struct \ Used : c <= d
       /\ heap' = [heap EXCEPT ![c] = c]
       /\ creds' = [creds EXCEPT ![handler[h].sess][handler[h].key] = c]
  /\ handler' = [handler EXCEPT ![h].at = "stored"]
  /\ UNCHANGED <<state, cookie, run, stored, told, raced, covered>>

(* The credentials of an additional forest go into a slot of the slice     *)
(* ADForests, without a lock: the handler loads the slice, stores a longer *)
(* one with blank entries if it lacks the slot, and fills the slot of the  *)
(* slice that is there then.                                               *)
Slots(s) == [i \in 1 .. MaxForests |-> creds[s][<<AD, i>>]]

Grown(slots, n) == [i \in 1 .. MaxForests |->
  IF i <= n /\ slots[i] = Nil THEN Blank ELSE slots[i]]

WithSlots(old, slots) ==
  [k \in Key |-> IF k[2] = 0 THEN old[k] ELSE slots[k[2]]]

LoadForests(h) ==
  /\ handler[h].at = "storing" /\ handler[h].key \in Key /\ handler[h].key[2] > 0
  /\ handler' = [handler EXCEPT ![h].at = "growing", ![h].seen = Slots(handler[h].sess)]
  /\ UNCHANGED <<state, creds, heap, cookie, run, stored, told, raced, covered>>

GrowForests(h) ==
  /\ handler[h].at = "growing"
  /\ LET longer == Grown(handler[h].seen, handler[h].key[2])
     IN  creds' = IF longer = handler[h].seen THEN creds
                  ELSE [creds EXCEPT ![handler[h].sess] = WithSlots(@, longer)]
  /\ handler' = [handler EXCEPT ![h].at = "grown", ![h].seen = NoForests]
  /\ UNCHANGED <<state, heap, cookie, run, stored, told, raced, covered>>

StoreForest(h) ==
  /\ handler[h].at = "grown"
  /\ creds[handler[h].sess][handler[h].key] # Nil
  /\ \E c \in Struct \ Used :
       /\ \A d \in Struct \ Used : c <= d
       /\ heap' = [heap EXCEPT ![c] = c]
       /\ creds' = [creds EXCEPT ![handler[h].sess][handler[h].key] = c]
  /\ handler' = [handler EXCEPT ![h].at = "stored"]
  /\ UNCHANGED <<state, cookie, run, stored, told, raced, covered>>

(* A shorter slice was stored in between: the handler panics, net/http     *)
(* ends the request and the browser gets no answer.                        *)
PanicOnForest(h) ==
  /\ handler[h].at = "grown"
  /\ creds[handler[h].sess][handler[h].key] = Nil
  /\ handler' = [handler EXCEPT ![h] = Idle]
  /\ UNCHANGED <<state, creds, heap, cookie, run, stored, told, raced, covered>>

(* The answer carries a Set-Cookie header when the session is a new one;   *)
(* reusing a session does not renew the cookie.                            *)
Answer(h) ==
  /\ \/ handler[h].at = "stored"
     \/ handler[h].at = "storing" /\ handler[h].key = NoKey
  /\ cookie' = IF handler[h].sess = handler[h].cookie THEN cookie ELSE handler[h].sess
  /\ stored' = [stored EXCEPT ![handler[h].sess] = @ \cup ({handler[h].key} \ {NoKey})]
  /\ told' = told \cup ({handler[h].key} \ {NoKey})
  /\ handler' = [handler EXCEPT ![h] = Idle]
  /\ UNCHANGED <<state, creds, heap, run, raced, covered>>

-----------------------------------------------------------------------------
(* HandleStartScan: the state is tested in one step and set in a later one. *)

CheckState(h, s) ==
  /\ handler[h] = Idle
  /\ state[s] = "created"          \* otherwise 409, and nothing changes
  /\ handler' = [handler EXCEPT ![h] =
                   [Idle EXCEPT !.at = "starting", !.sess = s, !.cookie = cookie]]
  /\ UNCHANGED <<state, creds, heap, cookie, run, stored, told, raced, covered>>

(* Slip: Session.ZeroCreds as soon as the goroutine is launched. *)
LaunchAndZero(h) ==
  /\ handler[h].at = "starting"
  /\ \E r \in Run :
       /\ run[r].at = "none"
       /\ run' = [run EXCEPT ![r] =
                     [at |-> "launched", sess |-> handler[h].sess, used |-> NoCreds]]
       /\ covered' = [covered EXCEPT ![r] = stored[handler[h].sess]]
  /\ creds' = [creds EXCEPT ![handler[h].sess] = NoCreds]
  /\ state' = [state EXCEPT ![handler[h].sess] = "scanning"]
  /\ handler' = [handler EXCEPT ![h] = Idle]
  /\ UNCHANGED <<heap, cookie, stored, told, raced>>

LaunchScan(h) ==
  /\ handler[h].at = "starting"
  /\ \E r \in Run :
       /\ run[r].at = "none"
       /\ \A q \in 1 .. r - 1 : run[q].at # "none"
       /\ run' = [run EXCEPT ![r] =
                     [at |-> "launched", sess |-> handler[h].sess, used |-> NoCreds]]
       /\ covered' = [covered EXCEPT ![r] = stored[handler[h].sess]]
  /\ state' = [state EXCEPT ![handler[h].sess] = "scanning"]
  /\ handler' = [handler EXCEPT ![h] = Idle]
  /\ UNCHANGED <<creds, heap, cookie, stored, told, raced>>

(* buildScanRequest, in the scan's goroutine: credentials are copied by    *)
(* value.                                                                  *)
CopyCredentials(r) ==
  /\ run[r].at = "launched"
  /\ run' = [run EXCEPT ![r].at = "running",
                        ![r].used = [k \in Key |->
                           LET c == creds[run[r].sess][k]
                           IN  IF c \in Struct THEN heap[c] ELSE c]]
  /\ UNCHANGED <<state, creds, heap, cookie, handler, stored, told, raced, covered>>

(* The goroutine stores its results and the state; its copies are gone. *)
FinishScan(r) ==
  /\ run[r].at = "running"
  /\ run' = [run EXCEPT ![r] = [at |-> "done", sess |-> NoSession, used |-> NoCreds]]
  /\ covered' = [covered EXCEPT ![r] = {}]
  /\ state' = [state EXCEPT ![run[r].sess] = "complete"]
  /\ UNCHANGED <<creds, heap, cookie, handler, stored, told, raced>>

-----------------------------------------------------------------------------
(* HandleCloneSession and Store.CloneSession: the credential pointers are  *)
(* copied one by one, ADForests is not among them.                         *)

Cloned(old) == [k \in Key |-> IF k[2] = 0 THEN old[k] ELSE Nil]

Clone(h) ==
  /\ handler[h] = Idle
  /\ cookie # NoSession
  /\ \E s \in Session :
       /\ Fresh(s)
       /\ state' = [state EXCEPT ![s] = "created"]
       /\ creds' = [creds EXCEPT ![s] = Cloned(creds[cookie])]
       /\ stored' = [stored EXCEPT ![s] = {k \in stored[cookie] : k[2] = 0}]
       /\ handler' = [handler EXCEPT ![h] =
                        [Idle EXCEPT !.at = "cloned", !.sess = s, !.cookie = cookie]]
  /\ raced' = TRUE
  /\ UNCHANGED <<heap, cookie, run, told, covered>>

AnswerClone(h) ==
  /\ handler[h].at = "cloned"
  /\ cookie' = handler[h].sess
  /\ handler' = [handler EXCEPT ![h] = Idle]
  /\ UNCHANGED <<state, creds, heap, run, stored, told, raced, covered>>

(* The cookie has a MaxAge of an hour; then the browser drops it. *)
ExpireCookie ==
  /\ cookie # NoSession
  /\ cookie' = NoSession
  /\ told' = {}
  /\ raced' = (raced \/ \E h \in Handler : handler[h] # Idle)
  /\ UNCHANGED <<state, creds, heap, handler, run, stored, covered>>

-----------------------------------------------------------------------------
(* The bounds on sessions, scans and structs stop the model; the server goes on.  *)
Step(h) ==
  \/ \E k \in Key : Validate(h, k)
  \/ UploadBackup(h)
  \/ ChooseSession(h)
  \/ StoreCredentials(h)
  \/ LoadForests(h) \/ GrowForests(h) \/ StoreForest(h) \/ PanicOnForest(h)
  \/ Answer(h)
  \/ h \in Starters /\ \E s \in Session : CheckState(h, s)
  \/ LaunchScan(h)
  \/ Clone(h)
  \/ AnswerClone(h)

StoreNext ==
  \/ \E h \in Handler : Step(h)
  \/ \E r \in Run : CopyCredentials(r) \/ FinishScan(r)
  \/ ExpireCookie

StoreSpec == StoreInit /\ [][StoreNext]_storeVars

-----------------------------------------------------------------------------
(* Properties.                                                             *)

(* A scan works with every credential that had been validated into its     *)
(* session, or inherited by it from the session it is a clone of, when it  *)
(* was started: a handler that writes late can only replace one.  Those of *)
(* additional forests may be lost when two were validated at once.         *)
ScanUsesStored ==
  \A r \in Run : run[r].at = "running" =>
    \A k \in covered[r] : k[2] = 0 \/ ~ raced => run[r].used[k] \in Struct

(* What a session's credentials say changes only by a validation that      *)
(* chose that session, although clones share the structs.                  *)
CredsOf(s) == [k \in Key |-> IF creds[s][k] \in Struct THEN heap[creds[s][k]] ELSE Nil]

CloneIsolated ==
  [][\A s \in Session :
       state[s] # "absent" /\ CredsOf(s)' # CredsOf(s) =>
         \E h \in Handler : /\ handler[h].at \in {"storing", "growing", "grown"}
                            /\ handler[h].sess = s]_storeVars

(* Credentials the browser was told are valid since its cookie expired are *)
(* in the session of its cookie, in whatever order requests are served,    *)
(* unless some raced before it had one or for the forests, or one was      *)
(* under way when it expired, and as long as no scan was started and no    *)
(* session cloned.  The comment in HandleValidate on the reuse of the      *)
(* session promises it of sequential requests; those told before the       *)
(* cookie expired are in a session the browser has lost.                   *)
KeptInOneSession ==
  ~ raced /\ (\A s \in Session : state[s] \in {"absent", "created"}) /\ told # {} =>
    /\ cookie # NoSession
    /\ \A k \in told : creds[cookie][k] \in Struct
=============================================================================
