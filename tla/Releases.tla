------------------------------ MODULE Releases ------------------------------
(***************************************************************************)
(* The builds of the mobile apps: each a row of ios_releases (or of        *)
(* mobile_releases: the same code twice) and an object of a bucket, which  *)
(* no transaction spans; one of them current; and a phone that installs    *)
(* over the air.  Then the row of an iPhone that enrols itself.            *)
(***************************************************************************)
EXTENDS Handlers

CONSTANTS
  Versions,    \* version codes; the table has no two rows of one
  Retention,   \* IOS_RELEASE_RETENTION_COUNT, 3
  MaxUploads   \* bound: objects put into the bucket

ASSUME ReleasesAssumption ==
  IsFiniteSet(Versions) /\ Versions \subseteq Nat /\ Retention \in Nat /\ MaxUploads \in Nat

VARIABLES
  releases,    \* per version code: its row; the row's id is the upload's number
  bucket,      \* the objects that are there
  puts,        \* how many were ever put
  relReq,      \* per request: what it has read and will write
  phone,       \* an installing phone: the release that was announced to it
  \* history
  published,   \* the versions that were ever in the table
  promoted,    \* ids of rows an admin made current by hand
  cut,         \* ids of rows whose removal ended between the object and the row
  missed,      \* per open transaction: ids made current since it looked
  together     \* pairs of ids made current by transactions that overlapped

relVars == <<releases, bucket, puts, relReq, phone, published, promoted, cut, missed, together>>
relHistory == <<published, promoted, cut, missed, together>>

-----------------------------------------------------------------------------
Uploads   == 1..MaxUploads
NoRelease == [id |-> 0, current |-> FALSE]
ReleaseRow   == [id : Uploads, current : BOOLEAN]
Target    == [version : Versions, id : Uploads]
Acts      == {"publish", "store", "promote"}
RelIdle   == [at |-> "idle"]
RelStates ==
  {RelIdle} \cup [at : {"put"}, version : Versions]
    \cup [at : {"begin"}, act : {"publish", "store"}, target : Target]
    \cup [at : {"commit"}, act : Acts, target : Target, seen : SUBSET Uploads]
    \cup [at : {"prune"}]
    \cup [at : {"remove"}, prune : BOOLEAN, todo : SUBSET Target]
    \cup [at : {"delete"}, prune : BOOLEAN, todo : SUBSET Target, target : Target]

NoInstall == [at |-> "idle"]
Phones    == {NoInstall} \cup [at : {"told"}, named : Uploads]

RelSet(r, state) == relReq' = [relReq EXCEPT ![r] = state]

IsThere(t) == releases[t.version].id = t.id
TargetOf(v) == [version |-> v, id |-> releases[v].id]
InTable == {v \in Versions : releases[v] # NoRelease}
CurrentIds == {releases[v].id : v \in {w \in Versions : releases[w].current}}

\* currentRelease: of the current rows, the one of the highest version.
Offered(v) == releases[v].current /\ \A w \in Versions : releases[w].current => w <= v

\* An admin changes what is current: a phone that was told something knows as
\* little as one that was not.
Overtake == phone' = NoInstall

RelInit ==
  /\ releases = [v \in Versions |-> NoRelease]
  /\ bucket = {} /\ puts = 0
  /\ relReq = [r \in Requests |-> RelIdle]
  /\ phone = NoInstall
  /\ published = {} /\ promoted = {} /\ cut = {} /\ together = {}
  /\ missed = [r \in Requests |-> {}]

-----------------------------------------------------------------------------
(* An admin uploads a build, promotes one, withdraws one from being current. *)

\* POST /: a version that is there is refused.
FindVersion(r) ==
  /\ relReq[r] = RelIdle
  /\ \E v \in Versions \ InTable : RelSet(r, [at |-> "put", version |-> v])
  /\ UNCHANGED <<releases, bucket, puts, phone, relHistory>>

\* The build is put under a key of its own; setCurrent is "publish".
PutObject(r) ==
  /\ relReq[r].at = "put" /\ puts < MaxUploads
  /\ puts' = puts + 1
  /\ bucket' = bucket \cup {puts + 1}
  /\ \E act \in {"publish", "store"} :
       RelSet(r, [at |-> "begin", act |-> act,
                  target |-> [version |-> relReq[r].version, id |-> puts + 1]])
  /\ UNCHANGED <<releases, phone, relHistory>>

\* A transaction begins: its updateMany sees the rows that are current now.
BeginRelease(r, act, t) ==
  RelSet(r, [at |-> "commit", act |-> act, target |-> t,
             seen |-> IF act = "store" THEN {} ELSE CurrentIds])

DemoteCurrent(r) ==
  /\ relReq[r].at = "begin"
  /\ BeginRelease(r, relReq[r].act, relReq[r].target)
  /\ UNCHANGED <<releases, bucket, puts, phone, relHistory>>

\* PATCH /:id with isCurrent true, of a row the page shows.
PromoteRelease(r) ==
  /\ relReq[r] = RelIdle
  /\ \E v \in InTable : BeginRelease(r, "promote", TargetOf(v))
  /\ UNCHANGED <<releases, bucket, puts, phone, relHistory>>

\* What the commit leaves in the table.
Written(act, t, seen) ==
  [v \in Versions |->
     IF v = t.version THEN [id |-> t.id, current |-> act # "store"]
     ELSE IF releases[v].id \in seen THEN [releases[v] EXCEPT !.current = FALSE]
     ELSE releases[v]]

\* The row is created, if no other of its version was meanwhile, or updated, if it
\* is still there; else all is rolled back.  After an upload, old ones are pruned.
Commit(r) ==
  LET t == relReq[r].target
      act == relReq[r].act
  IN /\ relReq[r].at = "commit"
     /\ IF IF act = "promote" THEN IsThere(t) ELSE releases[t.version] = NoRelease
        THEN /\ releases' = Written(act, t, relReq[r].seen)
             /\ published' = published \cup {t.version}
             /\ promoted' = promoted \cup (IF act = "promote" THEN {t.id} ELSE {})
             /\ IF act = "store"
                THEN missed' = [missed EXCEPT ![r] = {}] /\ UNCHANGED <<together, phone>>
                ELSE /\ together' = together \cup {{t.id, i} : i \in missed[r]}
                     /\ missed' = [q \in Requests |->
                          IF q = r \/ relReq[q].at # "commit" THEN {} ELSE missed[q] \cup {t.id}]
                     /\ Overtake
             /\ RelSet(r, IF act = "promote" THEN RelIdle ELSE [at |-> "prune"])
        ELSE /\ RelSet(r, RelIdle)
             /\ missed' = [missed EXCEPT ![r] = {}]
             /\ UNCHANGED <<releases, phone, published, promoted, together>>
     /\ UNCHANGED <<bucket, puts, cut>>

\* PATCH /:id with isCurrent false, where it was true.
Withdraw ==
  /\ \E v \in Versions : releases[v].current /\ releases' = [releases EXCEPT ![v].current = FALSE]
  /\ Overtake
  /\ UNCHANGED <<bucket, puts, relReq, published, promoted, cut, missed, together>>

-----------------------------------------------------------------------------
(* Removal, by an admin or by the retention. *)

\* The removals that are left to do.
RemoveReleases(r, prune, todo) ==
  RelSet(r, IF todo = {} THEN RelIdle ELSE [at |-> "remove", prune |-> prune, todo |-> todo])

\* DELETE /:id
FindRelease(r) ==
  /\ relReq[r] = RelIdle
  /\ \E v \in InTable : RemoveReleases(r, FALSE, {TargetOf(v)})
  /\ UNCHANGED <<releases, bucket, puts, phone, relHistory>>

\* Mutant: the current release is one of many.
BeyondWithCurrent ==
  {v \in InTable : Cardinality({w \in InTable : w > v}) >= Retention}

\* The rows beyond the newest, but for the current ones.
Beyond ==
  {v \in InTable : Cardinality({w \in InTable : w > v}) >= Retention /\ ~releases[v].current}

\* pruneOldIosReleases reads the table ...
ReadOld(r) ==
  /\ relReq[r].at = "prune"
  /\ RemoveReleases(r, TRUE, {TargetOf(v) : v \in Beyond})
  /\ UNCHANGED <<releases, bucket, puts, phone, relHistory>>

\* ... and takes the highest first: its object, whatever the store answers ...
RemoveObject(r) ==
  /\ relReq[r].at = "remove"
  /\ \E t \in relReq[r].todo :
       /\ \A u \in relReq[r].todo : u.version <= t.version
       /\ bucket' \in {bucket, bucket \ {t.id}}
       /\ RelSet(r, [at |-> "delete", prune |-> relReq[r].prune, target |-> t,
                     todo |-> relReq[r].todo \ {t}])
  /\ UNCHANGED <<releases, puts, phone, relHistory>>

\* ... and its row, by id; one that is gone ends the request.
DeleteRow(r) ==
  LET t == relReq[r].target
  IN /\ relReq[r].at = "delete"
     /\ IF IsThere(t)
        THEN /\ releases' = [releases EXCEPT ![t.version] = NoRelease]
             /\ IF relReq[r].prune /\ t.id \notin promoted THEN UNCHANGED phone ELSE Overtake
             /\ promoted' = promoted \ {t.id} /\ cut' = cut \ {t.id}
             /\ RemoveReleases(r, relReq[r].prune, relReq[r].todo)
        ELSE /\ RelSet(r, RelIdle)
             /\ UNCHANGED <<releases, promoted, cut, phone>>
     /\ UNCHANGED <<bucket, puts, published, missed, together>>

\* A replica dies, or the database or the store fails; a transaction that was open
\* is rolled back.
FailRelease(r) ==
  /\ relReq[r] # RelIdle
  /\ cut' = cut \cup (IF relReq[r].at = "delete" THEN {relReq[r].target.id} ELSE {})
  /\ missed' = [missed EXCEPT ![r] = {}]
  /\ RelSet(r, RelIdle)
  /\ UNCHANGED <<releases, bucket, puts, phone, published, promoted, together>>

-----------------------------------------------------------------------------
(* A phone that installs over the air. *)

\* The phone is told of the current release ...
Tell ==
  /\ \E v \in Versions :
       Offered(v) /\ phone' = [at |-> "told", named |-> releases[v].id]
  /\ UNCHANGED <<releases, bucket, puts, relReq, relHistory>>

\* ... by GET /install (or /version, which the Android app asks) ...
OpenInstallPage == phone = NoInstall /\ Tell

\* ... and by GET /manifest.plist, which the page's button leads to.
ReadManifest == phone # NoInstall /\ Tell

\* GET /latest.ipa: not the release of the manifest but the current one, if its
\* object is there; or the user leaves the page.
GetIpa ==
  /\ phone # NoInstall
  /\ phone' = NoInstall
  /\ UNCHANGED <<releases, bucket, puts, relReq, relHistory>>

RelNext ==
  \/ \E r \in Requests :
       \/ FindVersion(r) \/ PutObject(r) \/ PromoteRelease(r) \/ DemoteCurrent(r) \/ Commit(r)
       \/ FindRelease(r) \/ ReadOld(r) \/ RemoveObject(r) \/ DeleteRow(r) \/ FailRelease(r)
  \/ Withdraw
  \/ OpenInstallPage \/ ReadManifest \/ GetIpa

-----------------------------------------------------------------------------
RelTypeOK ==
  /\ releases \in [Versions -> {NoRelease} \cup ReleaseRow]
  /\ puts \in 0..MaxUploads
  /\ bucket \subseteq 1..puts
  /\ relReq \in [Requests -> RelStates]
  /\ phone \in Phones
  /\ published \subseteq Versions
  /\ promoted \subseteq Uploads
  /\ cut \subseteq Uploads
  /\ missed \in [Requests -> SUBSET Uploads]
  /\ together \subseteq SUBSET Uploads

\* Whatever uploads, promotions, deletions and prunings do at once, and wherever
\* one of them ends: a release of the table has its object, but while it is being
\* removed or when that was cut short; no two are current but by transactions that
\* overlapped; the retention takes none but those that have newer ones enough,
\* and no current one but that an admin promoted it meanwhile; and a phone gets
\* the build it was told of, unless an admin changed what is current.
ReleasesAreSound ==
  /\ \A v \in InTable : releases[v].id \notin bucket =>
       \/ releases[v].id \in cut
       \/ \E r \in Requests : relReq[r].at = "delete" /\ relReq[r].target = TargetOf(v)
  /\ \A v, w \in InTable : v # w /\ releases[v].current /\ releases[w].current =>
       {releases[v].id, releases[w].id} \in together
  /\ \A r \in Requests : relReq[r].at = "delete" /\ relReq[r].prune =>
       LET t == relReq[r].target
       IN /\ Cardinality({v \in published : v > t.version}) >= Retention
          /\ IsThere(t) /\ releases[t.version].current => t.id \in promoted
  /\ phone.at = "told" =>
       \E v \in InTable : Offered(v) /\ releases[v].id = phone.named

-----------------------------------------------------------------------------
(***************************************************************************)
(* An iPhone enrols: it installs a profile, and posts its attributes,      *)
(* signed; the row of ios_devices is an admin's to register.               *)
(***************************************************************************)
VARIABLES
  iphone,      \* its row
  enforced,    \* IOS_UDID_CA_FILE is set: signatures are verified
  enrolReq,    \* per request: the payload, and the row it has found
  \* history
  crossed      \* requests under way when the row became one to trust

enrolVars == <<iphone, enforced, enrolReq, crossed>>

NoIPhone  == [state |-> "absent"]
IPhoneRow ==
  [state : {"stored"}, registered : BOOLEAN, verified : BOOLEAN, signed : BOOLEAN]
EnrolIdle   == [at |-> "idle"]
EnrolStates ==
  {EnrolIdle, [at |-> "profile"]}
    \cup [at : {"found"}, signed : BOOLEAN, verified : BOOLEAN,
          existing : {NoIPhone} \cup IPhoneRow]

\* Registered with Apple by an admin, or with verified attributes.
Trusted(row) == row # NoIPhone /\ (row.registered \/ row.verified)

EnrolInit ==
  /\ iphone = NoIPhone
  /\ enforced \in BOOLEAN
  /\ enrolReq = [r \in Requests |-> EnrolIdle]
  /\ crossed = {}

\* Who has found the row it will go by.
Finders == {r \in Requests : enrolReq[r].at = "found"}

\* The row changes; what is under way may have missed that it is trusted now.
WriteEnrolled(row) ==
  /\ iphone' = row
  /\ crossed' = IF Trusted(row) /\ ~Trusted(iphone) THEN crossed \cup Finders ELSE crossed

EnrolSet(r, state) == enrolReq' = [enrolReq EXCEPT ![r] = state]

\* GET /udid and /udid/profile
GetProfile(r) ==
  /\ enrolReq[r] = EnrolIdle
  /\ EnrolSet(r, [at |-> "profile"])
  /\ UNCHANGED <<iphone, enforced, crossed>>

\* verifyEnrolmentPayload: without the CA's file nothing is verified.
Verified(signed) == enforced /\ signed

\* POST /udid/callback: an unverified payload is refused where the file is set;
\* else the row of the UDID is looked up.
PostAttributes(r) ==
  /\ enrolReq[r].at = "profile"
  /\ \E signed \in BOOLEAN :
       IF enforced /\ ~signed THEN EnrolSet(r, EnrolIdle)
       ELSE EnrolSet(r, [at |-> "found", signed |-> signed, verified |-> Verified(signed),
                         existing |-> iphone])
  /\ crossed' = crossed \ {r}
  /\ UNCHANGED <<iphone, enforced>>

\* The write that follows what was found: an unverified payload changes no row
\* that is trusted.
MayStore(e) == e.existing = NoIPhone \/ e.verified \/ ~Trusted(e.existing)

\* Created, unless another request has; or updated, unless it was deleted.
StoreIPhone(r) ==
  LET e == enrolReq[r]
  IN /\ e.at = "found"
     /\ IF ~MayStore(e) \/ (e.existing = NoIPhone) # (iphone = NoIPhone)
        THEN UNCHANGED <<iphone, crossed>>
        ELSE IF iphone = NoIPhone
        THEN WriteEnrolled([state |-> "stored", registered |-> FALSE,
                            verified |-> e.verified, signed |-> e.signed])
        ELSE WriteEnrolled([state |-> "stored", registered |-> iphone.registered,
                            verified |-> e.verified \/ e.existing.verified,
                            signed |-> e.signed])
     /\ EnrolSet(r, EnrolIdle)
     /\ UNCHANGED enforced

\* PATCH and DELETE /devices/:id
RegisterIPhone ==
  /\ iphone # NoIPhone
  /\ \E b \in BOOLEAN : WriteEnrolled([iphone EXCEPT !.registered = b])
  /\ UNCHANGED <<enforced, enrolReq>>

DeleteIPhone ==
  /\ iphone # NoIPhone
  /\ WriteEnrolled(NoIPhone)
  /\ UNCHANGED <<enforced, enrolReq>>

\* The API is restarted with the file, or without it.
Reconfigure == enforced' = ~enforced /\ UNCHANGED <<iphone, enrolReq, crossed>>

EnrolNext ==
  \/ \E r \in Requests : GetProfile(r) \/ PostAttributes(r) \/ StoreIPhone(r)
  \/ RegisterIPhone \/ DeleteIPhone \/ Reconfigure

-----------------------------------------------------------------------------
EnrolTypeOK ==
  /\ iphone \in {NoIPhone} \cup IPhoneRow
  /\ enforced \in BOOLEAN
  /\ enrolReq \in [Requests -> EnrolStates]
  /\ crossed \subseteq Requests

\* A row that says it is verified has attributes that came signed, through
\* enrolments, registrations and deletions in any order and wherever the file is
\* set; and attributes that did not are about to replace those of a trusted row
\* only in a request that had looked before it was trusted.
EnrolmentIsSound ==
  /\ iphone # NoIPhone /\ iphone.verified => iphone.signed
  /\ \A r \in Finders \ crossed :
       enrolReq[r].existing # NoIPhone /\ MayStore(enrolReq[r]) /\ ~enrolReq[r].verified =>
         ~Trusted(iphone)
=============================================================================
