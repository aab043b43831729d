------------------------------- MODULE Files -------------------------------
(***************************************************************************)
(* What a tenant keeps in the object store: the documents and maintenance  *)
(* photos of its assets, each a row and the objects it names by a key of   *)
(* its own, and the logo of its company, whose key is the same for every   *)
(* image of one type.  No transaction spans a row and its objects.         *)
(***************************************************************************)
EXTENDS Handlers

CONSTANTS
  MaxFiles,      \* bound: keys drawn
  EventPhotos,   \* MAINTENANCE_PHOTO_LIMIT, 4
  Extensions     \* of a logo: png, webp, jpg

ASSUME FilesAssumption ==
  MaxFiles \in Nat /\ EventPhotos \in Nat /\ "none" \notin Extensions

VARIABLES
  owner,       \* the tenant: there, deleted with its rows, or purged of its objects
  attached,    \* per photo and document: the objects its row names, or {}
  logo,        \* the company's logoStorageKey; who wrote it had no other with it
  store,       \* the objects that are there
  drawn,       \* how many keys were drawn
  filReq,      \* per request: what it has read and will do
  \* history
  severed,     \* objects removed by a request that ended before it wrote the row
  met,         \* requests for the logo with another at the same time
  onWay,       \* objects that were on their way when the tenant was deleted
  refused      \* objects that the store failed to list or to remove

filVars == <<owner, attached, logo, store, drawn, filReq, severed, met, onWay, refused>>
filHistory == <<severed, onWay, refused>>

-----------------------------------------------------------------------------
Buckets  == {"photos", "documents"}
FileIds  == 1..MaxFiles
NoKey    == "none"
LogoKeys == Extensions \cup {NoKey}
NoLogo   == [key |-> NoKey, alone |-> FALSE]

FileObjects == [bucket : Buckets, of : FileIds, part : {"whole", "thumb"}]
LogoObject(ext) == [bucket |-> "photos", of |-> ext, part |-> "logo"]
LogoObjects == {LogoObject(ext) : ext \in Extensions}
Objects == FileObjects \cup LogoObjects

FilIdle   == [at |-> "idle"]
FilStates ==
  {FilIdle}
    \cup [at : {"put"}, file : FileIds, names : SUBSET FileObjects, todo : SUBSET FileObjects]
    \cup [at : {"remove"}, file : FileIds, names : SUBSET FileObjects, todo : SUBSET FileObjects]
    \cup [at : {"removeLogo", "putLogo", "setLogo"}, key : LogoKeys, seen : LogoKeys]
    \cup [at : {"list"}, bucket : Buckets]
    \cup [at : {"purge"}, bucket : Buckets, keys : SUBSET Objects]

FilSet(r, state) == filReq' = [filReq EXCEPT ![r] = state]

AtLogo == {r \in Requests : filReq[r].at \in {"removeLogo", "putLogo", "setLogo"}}
LogoOf(key) == IF key = NoKey THEN {} ELSE {LogoObject(key)}

\* What a request may have removed of what a row still names.
TakenAway(e) ==
  IF e.at = "remove" THEN e.names \ e.todo
  ELSE IF e.at \in {"putLogo", "setLogo"} THEN LogoOf(e.seen) ELSE {}

\* What a request is still to put.
Coming(e) ==
  IF e.at = "put" THEN e.todo
  ELSE IF e.at \in {"removeLogo", "putLogo"} THEN LogoOf(e.key) ELSE {}

FilInit ==
  /\ owner = "there"
  /\ attached = [f \in FileIds |-> {}]
  /\ logo = NoLogo
  /\ store = {} /\ drawn = 0
  /\ filReq = [r \in Requests |-> FilIdle]
  /\ severed = {} /\ met = {} /\ onWay = {} /\ refused = {}

-----------------------------------------------------------------------------
(* Documents and photos. *)

ObjectsOf(f, bucket, parts) == [bucket : {bucket}, of : {f}, part : parts]
Attached(bucket) == {f \in FileIds : \E o \in attached[f] : o.bucket = bucket}

\* uploadDocument and uploadMaintenancePhoto look up the asset or the event, count
\* the event's photos, and draw a key.
FindOwner(r) ==
  /\ filReq[r] = FilIdle /\ owner = "there" /\ drawn < MaxFiles
  /\ drawn' = drawn + 1
  /\ \E o \in {ObjectsOf(drawn', "documents", {"whole"}),
               ObjectsOf(drawn', "photos", {"whole"}),
               ObjectsOf(drawn', "photos", {"whole", "thumb"})} :
       /\ \A p \in o : p.bucket = "photos" => Cardinality(Attached("photos")) < EventPhotos
       /\ FilSet(r, [at |-> "put", file |-> drawn', names |-> o, todo |-> o])
  /\ UNCHANGED <<owner, attached, logo, store, met, filHistory>>

\* Mutant: the thumbnail is named and not put.
PutWhole(r) ==
  /\ filReq[r].at = "put"
  /\ \E o \in filReq[r].todo :
       /\ o.part = "whole"
       /\ store' = store \cup {o}
       /\ FilSet(r, [filReq[r] EXCEPT !.todo = {}])
  /\ UNCHANGED <<owner, attached, logo, drawn, met, filHistory>>

\* The object is put, and then its thumbnail ...
PutPart(r) ==
  /\ filReq[r].at = "put"
  /\ \E o \in filReq[r].todo :
       /\ o.part = "thumb" => filReq[r].todo = {o}
       /\ store' = store \cup {o}
       /\ FilSet(r, [filReq[r] EXCEPT !.todo = @ \ {o}])
  /\ UNCHANGED <<owner, attached, logo, drawn, met, filHistory>>

\* ... and the row is created, which refers to an asset that must still be there.
CreateRow(r) ==
  /\ filReq[r].at = "put" /\ filReq[r].todo = {}
  /\ attached' =
       IF owner = "there" THEN [attached EXCEPT ![filReq[r].file] = filReq[r].names] ELSE attached
  /\ FilSet(r, FilIdle)
  /\ UNCHANGED <<owner, logo, store, drawn, met, filHistory>>

\* deleteDocument and deletePhoto find the row ...
FindFile(r) ==
  /\ filReq[r] = FilIdle
  /\ \E f \in FileIds :
       /\ attached[f] # {}
       /\ FilSet(r, [at |-> "remove", file |-> f, names |-> attached[f], todo |-> attached[f]])
  /\ UNCHANGED <<owner, attached, logo, store, drawn, met, filHistory>>

\* ... remove what it names, whatever the store answers ...
RemovePart(r) ==
  /\ filReq[r].at = "remove"
  /\ \E o \in filReq[r].todo :
       /\ o.part = "thumb" => filReq[r].todo = {o}
       /\ store' \in {store, store \ {o}}
       /\ FilSet(r, [filReq[r] EXCEPT !.todo = @ \ {o}])
  /\ UNCHANGED <<owner, attached, logo, drawn, met, filHistory>>

\* ... and delete the row, if it is there.
DeleteFile(r) ==
  /\ filReq[r].at = "remove" /\ filReq[r].todo = {}
  /\ attached' = [attached EXCEPT ![filReq[r].file] = {}]
  /\ FilSet(r, FilIdle)
  /\ UNCHANGED <<owner, logo, store, drawn, met, filHistory>>

-----------------------------------------------------------------------------
(* The logo, as the onboarding, the parent tenant and the platform change it. *)

\* The company is read; a logo that is not there cannot be deleted.
ReadCompany(r) ==
  /\ filReq[r] = FilIdle /\ owner = "there"
  /\ \E key \in LogoKeys :
       /\ key = NoKey => logo.key # NoKey
       /\ FilSet(r, [at |-> IF logo.key = NoKey THEN "putLogo" ELSE "removeLogo",
                     key |-> key, seen |-> logo.key])
  /\ met' = IF AtLogo = {} THEN met \ {r} ELSE met \cup AtLogo \cup {r}
  /\ UNCHANGED <<owner, attached, logo, store, drawn, filHistory>>

\* The old one is removed, whatever the store answers ...
RemoveOldLogo(r) ==
  /\ filReq[r].at = "removeLogo"
  /\ store' \in {store, store \ LogoOf(filReq[r].seen)}
  /\ FilSet(r, [filReq[r] EXCEPT !.at = IF filReq[r].key = NoKey THEN "setLogo" ELSE "putLogo"])
  /\ UNCHANGED <<owner, attached, logo, drawn, met, filHistory>>

\* ... the new one is put ...
PutLogo(r) ==
  /\ filReq[r].at = "putLogo"
  /\ store' = store \cup LogoOf(filReq[r].key)
  /\ FilSet(r, [filReq[r] EXCEPT !.at = "setLogo"])
  /\ UNCHANGED <<owner, attached, logo, drawn, met, filHistory>>

\* ... and the company's row, if it is there, is updated.
SetLogo(r) ==
  /\ filReq[r].at = "setLogo"
  /\ logo' = IF owner = "there" THEN [key |-> filReq[r].key, alone |-> r \notin met] ELSE logo
  /\ FilSet(r, FilIdle)
  /\ UNCHANGED <<owner, attached, store, drawn, met, filHistory>>

-----------------------------------------------------------------------------
(* The end of the tenant. *)

\* deleteTenant: all its rows, in one transaction ...
DeleteRows(r) ==
  /\ filReq[r] = FilIdle /\ owner = "there"
  /\ owner' = "deleted"
  /\ attached' = [f \in FileIds |-> {}]
  /\ logo' = NoLogo
  /\ onWay' = UNION {Coming(filReq[q]) : q \in Requests}
  /\ FilSet(r, [at |-> "list", bucket |-> "photos"])
  /\ UNCHANGED <<store, drawn, met, severed, refused>>

InBucket(bucket) == {o \in store : o.bucket = bucket}

\* One bucket is done with: the next, or the end.
NextBucket(r) ==
  IF filReq[r].bucket = "photos"
  THEN FilSet(r, [at |-> "list", bucket |-> "documents"]) /\ UNCHANGED owner
  ELSE FilSet(r, FilIdle) /\ owner' = "purged"

\* ... and then, bucket by bucket, what purgeTenantStorage finds, and can, remove.
ListObjects(r) ==
  /\ filReq[r].at = "list"
  /\ FilSet(r, [at |-> "purge", bucket |-> filReq[r].bucket, keys |-> InBucket(filReq[r].bucket)])
  /\ UNCHANGED <<owner, attached, logo, store, drawn, met, filHistory>>

RemoveObjects(r) ==
  /\ filReq[r].at = "purge"
  /\ store' = store \ filReq[r].keys
  /\ NextBucket(r)
  /\ UNCHANGED <<attached, logo, drawn, met, filHistory>>

\* The store fails; that is logged.
PurgeFails(r) ==
  /\ filReq[r].at \in {"list", "purge"}
  /\ refused' = refused \cup InBucket(filReq[r].bucket)
  /\ NextBucket(r)
  /\ UNCHANGED <<attached, logo, store, drawn, met, severed, onWay>>

\* A replica dies, or the database or the store fails.
FailFile(r) ==
  /\ filReq[r] # FilIdle
  /\ severed' = severed \cup TakenAway(filReq[r])
  /\ FilSet(r, FilIdle)
  /\ UNCHANGED <<owner, attached, logo, store, drawn, met, onWay, refused>>

FilNext ==
  \E r \in Requests :
    \/ FindOwner(r) \/ PutPart(r) \/ CreateRow(r)
    \/ FindFile(r) \/ RemovePart(r) \/ DeleteFile(r)
    \/ ReadCompany(r) \/ RemoveOldLogo(r) \/ PutLogo(r) \/ SetLogo(r)
    \/ DeleteRows(r) \/ ListObjects(r) \/ RemoveObjects(r) \/ PurgeFails(r)
    \/ FailFile(r)

-----------------------------------------------------------------------------
FilTypeOK ==
  /\ owner \in {"there", "deleted", "purged"}
  /\ attached \in [FileIds -> SUBSET FileObjects]
  /\ logo \in [key : LogoKeys, alone : BOOLEAN]
  /\ store \subseteq Objects
  /\ drawn \in 0..MaxFiles
  /\ filReq \in [Requests -> FilStates]
  /\ met \subseteq Requests
  /\ severed \cup onWay \cup refused \subseteq Objects

\* What getDocumentStream, getPhotoStream and readCompanyLogo will find, or not
\* because it is being removed, or its removal was cut short.
Accounted(o) ==
  o \in store \cup severed \/ \E r \in Requests : o \in TakenAway(filReq[r])

\* Whatever uploads and deletions do at once and wherever one of them ends: the
\* objects that a document or a photo names are there, or are being removed with
\* it; so is the logo, but where two requests changed it at once; and when a tenant
\* is purged nothing of it stays but what was on its way or the store would not
\* remove.
FilesAreKept ==
  /\ \A f \in FileIds : \A o \in attached[f] : Accounted(o)
  /\ logo.key # NoKey /\ logo.alone => Accounted(LogoObject(logo.key))
  /\ owner = "purged" => store \subseteq onWay \cup refused
=============================================================================
