--------------------------- MODULE SizerValidate ----------------------------
(***************************************************************************)
(* The validator of the sizer (sizer-validate.ts): the issues of a         *)
(* document.  An issue says what it is about where the code has a path     *)
(* into the document; messages are left out.  Connections and security are *)
(* not part of the document here, so their two issues are not either.      *)
(***************************************************************************)
EXTENDS SizerTree

Issue(code, severity, at) == [code |-> code, severity |-> severity, at |-> at]

HasSite(s, r) == SitesOfRegion(s, r.id) # {}

(* A region without sites is an error as soon as another one has some. *)
RegionIssues(s) ==
  LET populated == \E r \in s.regions : HasSite(s, r)
  IN  {IF populated THEN Issue("REGION_EMPTY_WHEN_OTHERS_POPULATED", "error", <<"region", r.id>>)
       ELSE Issue("REGION_EMPTY_OTHERWISE", "warning", <<"region", r.id>>)
         : r \in {q \in s.regions : ~HasSite(s, q)}}

Value(n, f) == IF f \in Fields THEN n.field[f] ELSE Undefined

(* One of users and activeIPs is needed. *)
MissingDriver(s) ==
  {Issue("SITE_MISSING_USERS_AND_IPS", "error", <<"site", n.id>>) :
     n \in {m \in s.sites : m.users = Undefined /\ Value(m, "activeIPs") = Undefined}}

LpsOutOfRange(s) ==
  {Issue("LPS_OUT_OF_RANGE", "warning", <<"site", n.id>>) :
     n \in {m \in s.sites : Value(m, "lps") # Undefined /\ Value(m, "lps") \notin 1 .. 10000}}

NoInfra(s) == s.niosx = {} /\ s.xaas = {}

(* Told of every site when there is something it could be assigned to, and *)
(* of the whole document when there is not.                                *)
Unassigned(s) ==
  IF NoInfra(s) THEN {}
  ELSE {Issue("SITE_UNASSIGNED", "warning", <<"site", n.id>>) :
          n \in {m \in s.sites : /\ \A k \in s.niosx : k.site # m.id
                                 /\ \A x \in s.xaas : m.id \notin x.sites}}

ObjectCountMismatch(s) ==
  IF NoInfra(s) /\ s.sites # {}
  THEN {Issue("OBJECT_COUNT_MISMATCH", "warning", <<"infrastructure">>)} ELSE {}

Validate(s) ==
  IF s.regions = {} THEN {Issue("STATE_EMPTY", "error", <<>>)}
  ELSE RegionIssues(s) \cup MissingDriver(s) \cup LpsOutOfRange(s) \cup Unassigned(s)
       \cup ObjectCountMismatch(s)

InfraDeferredCodes == {"OBJECT_COUNT_MISMATCH", "SITE_UNASSIGNED"}

(* Issues about infrastructure are not shown before the step it is on. *)
IsSuppressed(issue, step) == step < 3 /\ issue.code \in InfraDeferredCodes

StepFor(issue) ==
  CASE issue.at = <<>> -> 1
    [] issue.at = <<"infrastructure">> -> 3
    [] issue.at # <<>> /\ issue.at[1] = "site" -> 2
    [] OTHER -> 1
=============================================================================
