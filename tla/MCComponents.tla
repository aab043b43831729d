---------------------------- MODULE MCComponents ----------------------------
(***************************************************************************)
(* The components that share nothing but the pattern "read, decide, write  *)
(* later", checked in one run: the first state chooses the component that  *)
(* moves, and the others rest.  They share no variable, so what they would *)
(* do side by side says nothing more about any of them.                    *)
(***************************************************************************)
EXTENDS Licences, Devices, Tenancy, Accounts, SignIn, TwoFactor, Custody,
        Maintenance, PhotoOutbox, Sweep, Webhooks, Digests, Access,
        Prefixes, PageCache, Releases, Files, Reports, Mails, TagLife

VARIABLE focus

\* What the variables of a component hold while it rests.
Rests == "rests"

Init ==
  /\ focus \in {"Licences", "Devices", "Tenancy", "Accounts", "SignIn",
               "TwoFactor", "Custody", "Maintenance", "PhotoOutbox",
               "Sweep", "Webhooks", "Digests", "Access", "Prefixes",
               "PageCache", "Releases", "Enrolment", "Files", "Reports",
               "Mails", "TagLife"}
  /\ \/ focus = "Licences" /\ LicInit
     \/ focus # "Licences" /\ today = Rests /\ lic = Rests /\ licReq = Rests
        /\ overlap = Rests /\ owed = Rests
  /\ \/ focus = "Devices" /\ DevInit
     \/ focus # "Devices" /\ device = Rests /\ slots = Rests
        /\ devReq = Rests /\ undone = Rests
  /\ \/ focus = "Tenancy" /\ TenInit
     \/ focus # "Tenancy" /\ tenant = Rests /\ steps = Rests /\ grant = Rests
        /\ tenReq = Rests /\ former = Rests
  /\ \/ focus = "Accounts" /\ AccInit
     \/ focus # "Accounts" /\ userRow = Rests /\ roles = Rests
        /\ invites = Rests /\ accReq = Rests
  /\ \/ focus = "SignIn" /\ LoginInit
     \/ focus # "SignIn" /\ account = Rests /\ challenges = Rests
        /\ attempt = Rests
  /\ \/ focus = "TwoFactor" /\ TfInit
     \/ focus # "TwoFactor" /\ record = Rests /\ enabled = Rests
        /\ setups = Rests /\ tfReq = Rests /\ spent = Rests /\ torn = Rests
  /\ \/ focus = "Custody" /\ CusInit
     \/ focus # "Custody" /\ asset = Rests /\ disposal = Rests
        /\ loans = Rests /\ cusReq = Rests
  /\ \/ focus = "Maintenance" /\ MntInit
     \/ focus # "Maintenance" /\ orders = Rests /\ mntReq = Rests
        /\ odd = Rests
  /\ \/ focus = "PhotoOutbox" /\ PhoInit
     \/ focus # "PhotoOutbox" /\ queue = Rests /\ sender = Rests
        /\ drain = Rests /\ discarding = Rests /\ discarded = Rests
        /\ stored = Rests /\ reached = Rests /\ phoReq = Rests
  /\ \/ focus = "Sweep" /\ SwpInit
     \/ focus # "Sweep" /\ rows = Rests /\ expected = Rests /\ opened = Rests
        /\ reader = Rests /\ linking = Rests /\ completion = Rests
        /\ request = Rests /\ report = Rests /\ decided = Rests
  /\ \/ focus = "Webhooks" /\ WhkInit
     \/ focus # "Webhooks" /\ hook = Rests /\ call = Rests /\ row = Rests
        /\ job = Rests /\ handler = Rests /\ answered = Rests
        /\ excused = Rests
  /\ \/ focus = "Digests" /\ DigInit
     \/ focus # "Digests" /\ hour = Rests /\ sub = Rests /\ tick = Rests
        /\ served = Rests /\ unsaid = Rests
  /\ \/ focus = "Access" /\ GateInit
     \/ focus # "Access" /\ home = Rests /\ grants = Rests /\ changes = Rests
        /\ held = Rests /\ token = Rests /\ page = Rests
  /\ \/ focus = "Prefixes" /\ PreInit
     \/ focus # "Prefixes" /\ prefixes = Rests /\ marked = Rests
        /\ historic = Rests /\ preReq = Rests /\ shown = Rests
        /\ late = Rests
  /\ \/ focus = "PageCache" /\ PagInit
     \/ focus # "PageCache" /\ watched = Rests /\ server = Rests
        /\ entry = Rests /\ fetching = Rests /\ mounted = Rests
        /\ sending = Rests /\ promised = Rests
  /\ \/ focus = "Releases" /\ RelInit
     \/ focus # "Releases" /\ releases = Rests /\ bucket = Rests
        /\ puts = Rests /\ relReq = Rests /\ phone = Rests
        /\ published = Rests /\ promoted = Rests /\ cut = Rests
        /\ missed = Rests /\ together = Rests
  /\ \/ focus = "Enrolment" /\ EnrolInit
     \/ focus # "Enrolment" /\ iphone = Rests /\ enforced = Rests
        /\ enrolReq = Rests /\ crossed = Rests
  /\ \/ focus = "Files" /\ FilInit
     \/ focus # "Files" /\ owner = Rests /\ attached = Rests /\ logo = Rests
        /\ store = Rests /\ drawn = Rests /\ filReq = Rests
        /\ severed = Rests /\ met = Rests /\ onWay = Rests
        /\ refused = Rests
  /\ \/ focus = "Reports" /\ RepInit
     \/ focus # "Reports" /\ table = Rests /\ tab = Rests
  /\ \/ focus = "Mails" /\ MailInit
     \/ focus # "Mails" /\ moment = Rests /\ mailJob = Rests
        /\ transport = Rests /\ mailing = Rests /\ lastSent = Rests
        /\ suppressed = Rests /\ announced = Rests /\ untold = Rests
  /\ \/ focus = "TagLife" /\ TagInit
     \/ focus # "TagLife" /\ tagRow = Rests /\ binding = Rests
        /\ eventLog = Rests /\ tagReq = Rests /\ deeds = Rests
        /\ missing = Rests /\ raced = Rests /\ locks = Rests
        /\ remade = Rests

Next ==
  \/ focus = "Licences"
     /\ UNCHANGED <<focus, devVars, tenVars, accVars, loginVars, tfVars,
                    cusVars, mntVars, phoVars, swpVars, whkVars, digVars,
                    gateVars, preVars, pagVars, relVars, enrolVars, filVars,
                    repVars, mailVars, tagVars>>
     /\ LicNext
  \/ focus = "Devices"
     /\ UNCHANGED <<focus, licVars, tenVars, accVars, loginVars, tfVars,
                    cusVars, mntVars, phoVars, swpVars, whkVars, digVars,
                    gateVars, preVars, pagVars, relVars, enrolVars, filVars,
                    repVars, mailVars, tagVars>>
     /\ DevNext
  \/ focus = "Tenancy"
     /\ UNCHANGED <<focus, licVars, devVars, accVars, loginVars, tfVars,
                    cusVars, mntVars, phoVars, swpVars, whkVars, digVars,
                    gateVars, preVars, pagVars, relVars, enrolVars, filVars,
                    repVars, mailVars, tagVars>>
     /\ TenNext
  \/ focus = "Accounts"
     /\ UNCHANGED <<focus, licVars, devVars, tenVars, loginVars, tfVars,
                    cusVars, mntVars, phoVars, swpVars, whkVars, digVars,
                    gateVars, preVars, pagVars, relVars, enrolVars, filVars,
                    repVars, mailVars, tagVars>>
     /\ AccNext
  \/ focus = "SignIn"
     /\ UNCHANGED <<focus, licVars, devVars, tenVars, accVars, tfVars,
                    cusVars, mntVars, phoVars, swpVars, whkVars, digVars,
                    gateVars, preVars, pagVars, relVars, enrolVars, filVars,
                    repVars, mailVars, tagVars>>
     /\ LoginNext
  \/ focus = "TwoFactor"
     /\ UNCHANGED <<focus, licVars, devVars, tenVars, accVars, loginVars,
                    cusVars, mntVars, phoVars, swpVars, whkVars, digVars,
                    gateVars, preVars, pagVars, relVars, enrolVars, filVars,
                    repVars, mailVars, tagVars>>
     /\ TfNext
  \/ focus = "Custody"
     /\ UNCHANGED <<focus, licVars, devVars, tenVars, accVars, loginVars,
                    tfVars, mntVars, phoVars, swpVars, whkVars, digVars,
                    gateVars, preVars, pagVars, relVars, enrolVars, filVars,
                    repVars, mailVars, tagVars>>
     /\ CusNext
  \/ focus = "Maintenance"
     /\ UNCHANGED <<focus, licVars, devVars, tenVars, accVars, loginVars,
                    tfVars, cusVars, phoVars, swpVars, whkVars, digVars,
                    gateVars, preVars, pagVars, relVars, enrolVars, filVars,
                    repVars, mailVars, tagVars>>
     /\ MntNext
  \/ focus = "PhotoOutbox"
     /\ UNCHANGED <<focus, licVars, devVars, tenVars, accVars, loginVars,
                    tfVars, cusVars, mntVars, swpVars, whkVars, digVars,
                    gateVars, preVars, pagVars, relVars, enrolVars, filVars,
                    repVars, mailVars, tagVars>>
     /\ PhoNext
  \/ focus = "Sweep"
     /\ UNCHANGED <<focus, licVars, devVars, tenVars, accVars, loginVars,
                    tfVars, cusVars, mntVars, phoVars, whkVars, digVars,
                    gateVars, preVars, pagVars, relVars, enrolVars, filVars,
                    repVars, mailVars, tagVars>>
     /\ SwpNext
  \/ focus = "Webhooks"
     /\ UNCHANGED <<focus, licVars, devVars, tenVars, accVars, loginVars,
                    tfVars, cusVars, mntVars, phoVars, swpVars, digVars,
                    gateVars, preVars, pagVars, relVars, enrolVars, filVars,
                    repVars, mailVars, tagVars>>
     /\ WhkNext
  \/ focus = "Digests"
     /\ UNCHANGED <<focus, licVars, devVars, tenVars, accVars, loginVars,
                    tfVars, cusVars, mntVars, phoVars, swpVars, whkVars,
                    gateVars, preVars, pagVars, relVars, enrolVars, filVars,
                    repVars, mailVars, tagVars>>
     /\ DigNext
  \/ focus = "Access"
     /\ UNCHANGED <<focus, licVars, devVars, tenVars, accVars, loginVars,
                    tfVars, cusVars, mntVars, phoVars, swpVars, whkVars,
                    digVars, preVars, pagVars, relVars, enrolVars, filVars,
                    repVars, mailVars, tagVars>>
     /\ GateNext
  \/ focus = "Prefixes"
     /\ UNCHANGED <<focus, licVars, devVars, tenVars, accVars, loginVars,
                    tfVars, cusVars, mntVars, phoVars, swpVars, whkVars,
                    digVars, gateVars, pagVars, relVars, enrolVars, filVars,
                    repVars, mailVars, tagVars>>
     /\ PreNext
  \/ focus = "PageCache"
     /\ UNCHANGED <<focus, licVars, devVars, tenVars, accVars, loginVars,
                    tfVars, cusVars, mntVars, phoVars, swpVars, whkVars,
                    digVars, gateVars, preVars, relVars, enrolVars, filVars,
                    repVars, mailVars, tagVars>>
     /\ PagNext
  \/ focus = "Releases"
     /\ UNCHANGED <<focus, licVars, devVars, tenVars, accVars, loginVars,
                    tfVars, cusVars, mntVars, phoVars, swpVars, whkVars,
                    digVars, gateVars, preVars, pagVars, enrolVars, filVars,
                    repVars, mailVars, tagVars>>
     /\ RelNext
  \/ focus = "Enrolment"
     /\ UNCHANGED <<focus, licVars, devVars, tenVars, accVars, loginVars,
                    tfVars, cusVars, mntVars, phoVars, swpVars, whkVars,
                    digVars, gateVars, preVars, pagVars, relVars, filVars,
                    repVars, mailVars, tagVars>>
     /\ EnrolNext
  \/ focus = "Files"
     /\ UNCHANGED <<focus, licVars, devVars, tenVars, accVars, loginVars,
                    tfVars, cusVars, mntVars, phoVars, swpVars, whkVars,
                    digVars, gateVars, preVars, pagVars, relVars, enrolVars,
                    repVars, mailVars, tagVars>>
     /\ FilNext
  \/ focus = "Reports"
     /\ UNCHANGED <<focus, licVars, devVars, tenVars, accVars, loginVars,
                    tfVars, cusVars, mntVars, phoVars, swpVars, whkVars,
                    digVars, gateVars, preVars, pagVars, relVars, enrolVars,
                    filVars, mailVars, tagVars>>
     /\ RepNext
  \/ focus = "Mails"
     /\ UNCHANGED <<focus, licVars, devVars, tenVars, accVars, loginVars,
                    tfVars, cusVars, mntVars, phoVars, swpVars, whkVars,
                    digVars, gateVars, preVars, pagVars, relVars, enrolVars,
                    filVars, repVars, tagVars>>
     /\ MailNext
  \/ focus = "TagLife"
     /\ UNCHANGED <<focus, licVars, devVars, tenVars, accVars, loginVars,
                    tfVars, cusVars, mntVars, phoVars, swpVars, whkVars,
                    digVars, gateVars, preVars, pagVars, relVars, enrolVars,
                    filVars, repVars, mailVars>>
     /\ TagNext

vars == <<focus, licVars, devVars, tenVars, accVars, loginVars, tfVars,
          cusVars, mntVars, phoVars, swpVars, whkVars, digVars, gateVars,
          preVars, pagVars, relVars, enrolVars, filVars, repVars, mailVars,
          tagVars>>
Spec == Init /\ [][Next]_vars

Symmetry == Permutations(Requests) \cup Permutations(Handhelds)

-----------------------------------------------------------------------------
\* The variables of the component that moves have their types.
TypeOK ==
  /\ focus = "Licences" => LicTypeOK
  /\ focus = "Devices" => DevTypeOK
  /\ focus = "Tenancy" => TenTypeOK
  /\ focus = "Accounts" => AccTypeOK
  /\ focus = "SignIn" => LoginTypeOK
  /\ focus = "TwoFactor" => TfTypeOK
  /\ focus = "Custody" => CusTypeOK
  /\ focus = "Maintenance" => MntTypeOK
  /\ focus = "PhotoOutbox" => PhoTypeOK
  /\ focus = "Sweep" => SwpTypeOK
  /\ focus = "Webhooks" => WhkTypeOK
  /\ focus = "Digests" => DigTypeOK
  /\ focus = "Access" => GateTypeOK
  /\ focus = "Prefixes" => PreTypeOK
  /\ focus = "PageCache" => PagTypeOK
  /\ focus = "Releases" => RelTypeOK
  /\ focus = "Enrolment" => EnrolTypeOK
  /\ focus = "Files" => FilTypeOK
  /\ focus = "Reports" => RepTypeOK
  /\ focus = "Mails" => MailTypeOK
  /\ focus = "TagLife" => TagTypeOK

-----------------------------------------------------------------------------
(* The properties, of the component that moves.  What each says, and what it *)
(* excepts, is at its definition in the component's module.                  *)

\* Two custodians have an asset at once only through requests that overlapped
\* (checkout.service.ts), and a loan that was returned stays returned; and the
\* numbers that maintenance.service.ts generates are distinct but for requests
\* that overlapped.
RegisterHolds ==
  /\ focus = "Custody" => LoansOverlap
  /\ focus = "Maintenance" => WorkOrdersDistinct

\* A photo is on the device until the server has it or the user threw it away
\* (SyncQueues.kt), and the server keeps its limit (photo.service.ts) but for
\* requests that overlapped.
PhotosHold == focus = "PhotoOutbox" => PhotosAreKept

\* An account has no more roles and open invitations than user.service.ts could
\* have given it in requests at once.
AccountsHold == focus = "Accounts" => AccessIsBounded

\* No route (app.ts, its routers) is open to who never had a permission for it,
\* and a token (tenant-context.router.ts) acts where it may and knows the way home.
ReachHolds == focus = "Access" => ReachIsGranted /\ ContextIsKnown

\* A GIAI that gs1-identification.service.ts or its trigger gave an asset stays
\* recognisable; a tag carries the number of the asset it is bound to, is verified
\* before it may be locked for good (gs1-tag.service.ts), and what was done to it is
\* told once to the log of its asset (asset-event.service.ts) or is missing from it.
GiaisHold ==
  /\ focus = "Prefixes" => GiaisAreKept
  /\ focus = "TagLife" => TagsAreSound

\* What a page of the web apps lets a user do, the API accepts from him.
OffersHold == focus = "Access" => OffersAreHonoured

\* A page of the web apps shows what its user has changed himself.
PagesHold == focus = "PageCache" => OwnWritesShow

\* A build of an app has its object, one is current, and the retention leaves what
\* it should (ios-releases.router.ts, iosReleaseRetention.ts); an enrolled phone's
\* attributes are what they are said to be (ios-enrolment.ts).
ReleasesHold ==
  /\ focus = "Releases" => ReleasesAreSound
  /\ focus = "Enrolment" => EnrolmentIsSound

\* What a document, a photo or a logo names is in the object store, and nothing of
\* a tenant that was purged (document.service.ts, platform-admin.service.ts).
FilesHold == focus = "Files" => FilesAreKept

\* Reports that give a figure one name count the same rows for it, the classes of
\* a breakdown add up to its total, and a share is part of what it is a share of
\* (report-export.service.ts), but for the rows that the module names.
ReportsHold == focus = "Reports" => FiguresHold

\* A licence that was barred stays barred but for requests that overlapped
\* (licence-lifecycle.service.ts), and who has paid may write
\* (require-active-licence.ts).
LicencesHold ==
  /\ [](focus = "Licences" => PaidTenantMayWrite)
  /\ [][focus = "Licences" => BarHolds]_licVars

\* No more devices are active than slots but for requests that overlapped, and
\* one that was deactivated comes back by a free slot (licence-device.service.ts).
AllowanceHolds ==
  [][focus = "Devices" => OverrunIsBounded' /\ InactiveHolds]_devVars

\* A tenant comes to the end of its onboarding with all its steps
\* (onboarding.service.ts), and to its own end with its licence revoked
\* (platform-admin.service.ts); only a request that read before may differ.
TenantsEndWhole ==
  [][focus = "Tenancy" => CompletesWhole /\ PurgesRevoked]_tenVars

\* A sweep's report is one upload's (scan-session.service.ts), and the operator's
\* decisions stay (ScanSessionRepository.kt).
SweepHolds ==
  /\ [](focus = "Sweep" => ReportIsWhole)
  /\ [][focus = "Sweep" => \A e \in Tags : DecisionHolds(e)]_swpVars

\* The second factor holds: its two rows agree (two-factor.service.ts), and it is
\* asked for (auth.service.ts).
SecondFactorHolds ==
  /\ [](focus = "TwoFactor" => SecondFactorIsWhole)
  /\ [][focus = "SignIn" => FactorAsked]_loginVars

\* A row of webhook_deliveries tells the truth about its event
\* (webhook.processor.ts), e-mails go by settings that were just those of the
\* database (mailer.ts), the numbers that the alerts about jobs tell add up
\* (job-alerts.ts), and digests of a subscription keep their distance
\* (notification-scheduler.ts).
MessagesHold ==
  /\ [](focus = "Webhooks" => RowsTellTheTruth)
  /\ [](focus = "Mails" => MailsAreSound)
  /\ [][focus = "Digests" => ServesSpaced]_digVars
=============================================================================
