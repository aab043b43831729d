----------------------------- MODULE PageCache ------------------------------
(***************************************************************************)
(* The cache between the pages of the web apps and the API: one answer a   *)
(* page shows, and one change of the user's own that concerns it, made on  *)
(* the page itself or on one that leads to it.  The cache is TanStack      *)
(* Query's, with the options the apps give it; which change marks which    *)
(* answer as out of date is what the hooks say.                            *)
(***************************************************************************)
EXTENDS Integers, SequencesExt

CONSTANTS
  MaxWrites     \* how often the user makes the change

ASSUME PageCacheAssumption == MaxWrites \in Nat \ {0}

Web == INSTANCE WebPages
Admin == INSTANCE AdminPages
Api == INSTANCE Reads

VARIABLES
  watched,      \* the change and the answer this behaviour is about
  server,       \* the version of the rows in the database
  entry,        \* the cached answer, or NoEntry
  fetching,     \* the fetch under way: NoFetch, Asked, or the version the API has read
  mounted,      \* the page with the answer is in front of the user
  sending,      \* the change under way
  promised      \* the version the user's last answered change has made

pagVars == <<watched, server, entry, fetching, mounted, sending, promised>>

NoEntry == [version |-> -1]
NoFetch == -2
Asked == -1

-----------------------------------------------------------------------------
(* What the apps are made of *)

LOCAL TablesRead(h) == UNION {r.reads : r \in {x \in Api!AllReads : x.handler = h}}
LOCAL TablesChanged(h) ==
  UNION {r.changes : r \in {x \in Web!AllRoutes : x.handler = h}}

\* invalidateQueries: the keys that begin with one of the given ones.
Told(keys, key) == \E k \in keys : IsPrefix(k, key)

\* A change offered on one page and an answer shown on the same page, or on one
\* it leads to, that is made of the same rows.
LOCAL Concerning(screens, onward) ==
  LET Pairs(s, t) ==
        {[here |-> s = t, send |-> o.mutation.send, get |-> q.get,
          told |-> Told(o.mutation.invalidates, q.key)] : o \in s.offers, q \in t.shows}
      ways == {p \in screens \X screens : p[1] = p[2] \/ <<p[1].name, p[2].name>> \in onward}
  IN {w \in UNION {Pairs(p[1], p[2]) : p \in ways} :
        TablesRead(w.get) \cap TablesChanged(w.send) # {}}

Watchable ==
  Concerning(Web!AllPages, Web!Onward) \cup Concerning(Admin!AllPages, Admin!Onward)

PagInit ==
  /\ watched \in Watchable
  /\ server = 0
  /\ entry = NoEntry
  /\ fetching = NoFetch
  /\ mounted = FALSE
  /\ sending = "none"
  /\ promised = 0

-----------------------------------------------------------------------------
(* Reading *)

\* The page opens: an answer that is missing or marked is fetched, and one that
\* is old; a fetch that is under way is joined.
OpenPage ==
  /\ ~mounted
  /\ mounted' = TRUE
  /\ \/ fetching # NoFetch /\ UNCHANGED fetching
     \/ fetching = NoFetch /\ fetching' = Asked
     \/ fetching = NoFetch /\ entry # NoEntry /\ ~entry.invalid /\ UNCHANGED fetching
  /\ UNCHANGED <<watched, server, entry, sending, promised>>

\* A fetch that is under way goes on without the page.
ClosePage ==
  /\ mounted
  /\ mounted' = FALSE
  /\ UNCHANGED <<watched, server, entry, fetching, sending, promised>>

\* The window has the focus again, or a page polls.
Refetch ==
  /\ mounted
  /\ fetching = NoFetch
  /\ fetching' = Asked
  /\ UNCHANGED <<watched, server, entry, mounted, sending, promised>>

ServerReads ==
  /\ fetching = Asked
  /\ fetching' = server
  /\ UNCHANGED <<watched, server, entry, mounted, sending, promised>>

FetchArrives ==
  /\ fetching >= 0
  /\ entry' = [version |-> fetching, invalid |-> FALSE]
  /\ fetching' = NoFetch
  /\ UNCHANGED <<watched, server, mounted, sending, promised>>

\* The first try and its one retry have failed; what is cached stays as it is.
FetchFails ==
  /\ fetching # NoFetch
  /\ fetching' = NoFetch
  /\ UNCHANGED <<watched, server, entry, mounted, sending, promised>>

\* An answer that no page has shown for a while is dropped.
Collect ==
  /\ ~mounted
  /\ fetching = NoFetch
  /\ entry # NoEntry
  /\ entry' = NoEntry
  /\ UNCHANGED <<watched, server, fetching, mounted, sending, promised>>

-----------------------------------------------------------------------------
(* Changing *)

Send ==
  /\ sending = "none"
  /\ server < MaxWrites
  /\ mounted = watched.here
  /\ sending' = "asked"
  /\ UNCHANGED <<watched, server, entry, fetching, mounted, promised>>

ServerWrites ==
  /\ sending = "asked"
  /\ server' = server + 1
  /\ sending' = "applied"
  /\ UNCHANGED <<watched, entry, fetching, mounted, promised>>

\* What invalidateQueries does not replace: a fetch nobody is waiting for, and
\* the first load of a page, which is joined.
LeftRunning == fetching # NoFetch /\ (~mounted \/ entry = NoEntry)

\* invalidateQueries marks the answer; the page that shows it fetches it anew,
\* and a fetch under way is cancelled.
MarkAndRefetch ==
  /\ entry' = IF entry = NoEntry THEN entry ELSE [entry EXCEPT !.invalid = TRUE]
  /\ fetching' = IF mounted /\ ~LeftRunning THEN Asked ELSE fetching

\* onSuccess
AnswerArrives ==
  /\ sending = "applied"
  /\ sending' = "none"
  /\ \/ watched.told /\ MarkAndRefetch
     \/ ~watched.told /\ UNCHANGED <<entry, fetching>>
  /\ promised' = IF LeftRunning THEN promised ELSE server
  /\ UNCHANGED <<watched, server, mounted>>

\* The change fails, or its answer is lost: the page says so and marks nothing.
SendFails ==
  /\ sending # "none"
  /\ sending' = "none"
  /\ UNCHANGED <<watched, server, entry, fetching, mounted, promised>>

PagNext ==
  \/ OpenPage
  \/ ClosePage
  \/ Refetch
  \/ ServerReads
  \/ FetchArrives
  \/ FetchFails
  \/ Collect
  \/ Send
  \/ ServerWrites
  \/ AnswerArrives
  \/ SendFails

-----------------------------------------------------------------------------
(* Properties *)

PagTypeOK ==
  /\ watched \in Watchable
  /\ server \in 0..MaxWrites
  /\ entry = NoEntry \/ entry \in [version : 0..MaxWrites, invalid : BOOLEAN]
  /\ fetching \in NoFetch..MaxWrites
  /\ mounted \in BOOLEAN
  /\ sending \in {"none", "asked", "applied"}
  /\ promised \in 0..MaxWrites

\* The changes that do not mark what they change: their hooks leave the key out,
\* give another, or give a list of keys as one.  The page shows the old rows
\* until they are fetched for another reason, half a minute later at the latest
\* when the user comes back to it.
Unmarked ==
  {"disposeAsset", "deleteAsset", "updateAsset", "uploadPhoto", "deletePhoto",
   "uploadDocument", "deleteDocument"} \X {"getAssetTimeline"}
  \cup {<<"deleteAsset", "getAsset">>, <<"updateAsset", "listAssets">>,
        <<"heartbeatDevice", "listDevices">>,
        <<"updateIdentification", "previewPrefix">>, <<"recordScan", "listCampaigns">>,
        <<"completeCampaign", "getReconciliation">>}
  \cup {"createCampaign", "startCampaign", "recordScan", "completeCampaign"}
         \X {"getCampaignReport"}
  \cup {"registerCompany", "createSubTenant", "updateSubTenantCompany"}
         \X {"switchableTenants"}
  \cup {"confirmPaymentAndRenew", "suspendLicence", "revokeLicence", "reactivateLicence",
        "deleteTenant", "platformSubTenant"} \X {"getTenantDetail", "listTenants"}
  \cup {"updateTenantCompany", "putTenantLogo", "deleteTenantLogo", "onboardUser",
        "onboardCompany", "onboardClient", "onboardLicence", "onboardComplete"}
         \X {"getTenantDetail"}

\* A page that shows an unmarked answer, with no request under way, shows what
\* the user has changed himself and been answered, whatever fetches were under
\* way, failed, were cancelled or arrived late, and whether the change was made
\* on the page or before it opened.  The exceptions are the fetches that were
\* left running, and the changes of Unmarked.
OwnWritesShow ==
  /\ mounted
  /\ fetching = NoFetch
  /\ sending = "none"
  /\ entry # NoEntry
  /\ ~entry.invalid
  /\ <<watched.send, watched.get>> \notin Unmarked
  => entry.version >= promised
=============================================================================
