-------------------------- MODULE ComponentsProofs --------------------------
(***************************************************************************)
(* The properties of the run Components, for every value of the constants. *)
(* Each component has an inductive invariant of its own (RegisterProofs,   *)
(* TenantProofs); one component moves, and the others rest, so the         *)
(* specification that checks them all keeps the invariant of that one.     *)
(***************************************************************************)
EXTENDS MCComponents, RegisterProofs, TenantProofs

\* The inductive invariant: that of the component that moves.
ComponentsInv ==
  /\ focus = "Licences" => LicInv
  /\ focus = "Devices" => DevInv
  /\ focus = "Tenancy" => TenInv
  /\ focus = "Accounts" => AccountInv
  /\ focus = "SignIn" => LoginInv
  /\ focus = "TwoFactor" => FactorInv
  /\ focus = "Custody" => LoansInv
  /\ focus = "Maintenance" => OrdersInv
  /\ focus = "PhotoOutbox" => PhotoInv
  /\ focus = "Sweep" => SweepInv
  /\ focus = "Webhooks" => HookInv
  /\ focus = "Digests" => DigestInv
  /\ focus = "Access" => GateInv /\ Explained(held)
  /\ focus = "Prefixes" => GiaiInv
  /\ focus = "PageCache" => CacheInv
  /\ focus = "Releases" => ReleaseInv
  /\ focus = "Enrolment" => EnrolInv
  /\ focus = "Files" => FilInv
  /\ focus = "Reports" => RepTypeOK
  /\ focus = "Mails" => MailInv
  /\ focus = "TagLife" => TagInv

\* The component that moves is the same all along.
LEMMA FocusStays == [Next]_vars => focus' = focus
BY SMTT(30) DEF Next, vars

\* What moves is the component that the first state has chosen.
LEMMA ComponentMoves ==
  ASSUME [Next]_vars
  PROVE  /\ focus = "Licences" => [LicNext]_licVars
         /\ focus = "Devices" => [DevNext]_devVars
         /\ focus = "Tenancy" => [TenNext]_tenVars
         /\ focus = "Accounts" => [AccNext]_accVars
         /\ focus = "SignIn" => [LoginNext]_loginVars
         /\ focus = "TwoFactor" => [TfNext]_tfVars
         /\ focus = "Custody" => [CusNext]_cusVars
         /\ focus = "Maintenance" => [MntNext]_mntVars
         /\ focus = "PhotoOutbox" => [PhoNext]_phoVars
         /\ focus = "Sweep" => [SwpNext]_swpVars
         /\ focus = "Webhooks" => [WhkNext]_whkVars
         /\ focus = "Digests" => [DigNext]_digVars
         /\ focus = "Access" => [GateNext]_gateVars
         /\ focus = "Prefixes" => [PreNext]_preVars
         /\ focus = "PageCache" => [PagNext]_pagVars
         /\ focus = "Releases" => [RelNext]_relVars
         /\ focus = "Enrolment" => [EnrolNext]_enrolVars
         /\ focus = "Files" => [FilNext]_filVars
         /\ focus = "Reports" => [RepNext]_repVars
         /\ focus = "Mails" => [MailNext]_mailVars
         /\ focus = "TagLife" => [TagNext]_tagVars
BY DEF Next, vars

LEMMA ComponentsStart == Init => ComponentsInv
<1> SUFFICES ASSUME Init PROVE ComponentsInv
  OBVIOUS
<1>1. focus = "Licences" => LicInv
  BY LicenceStart DEF Init
<1>2. focus = "Devices" => DevInv
  BY DeviceStart DEF Init
<1>3. focus = "Tenancy" => TenInv
  BY TenantStart DEF Init
<1>4. focus = "Accounts" => AccountInv
  BY AccountStart DEF Init
<1>5. focus = "SignIn" => LoginInv
  BY LoginStart DEF Init
<1>6. focus = "TwoFactor" => FactorInv
  BY FactorStart DEF Init
<1>7. focus = "Custody" => LoansInv
  BY LoansInit DEF Init
<1>8. focus = "Maintenance" => OrdersInv
  BY OrdersInit DEF Init
<1>9. focus = "PhotoOutbox" => PhotoInv
  BY PhotoStart DEF Init
<1>10. focus = "Sweep" => SweepInv
  BY SweepStart DEF Init
<1>11. focus = "Webhooks" => HookInv
  BY HookInit DEF Init
<1>12. focus = "Digests" => DigestInv
  BY DigestStart DEF Init
<1>13. focus = "Access" => GateInv /\ Explained(held)
  BY GateStart, ExplainedStart DEF Init
<1>14. focus = "Prefixes" => GiaiInv
  BY GiaiInit DEF Init
<1>15. focus = "PageCache" => CacheInv
  BY CacheStart DEF Init
<1>16. focus = "Releases" => ReleaseInv
  BY ReleaseStart DEF Init
<1>17. focus = "Enrolment" => EnrolInv
  BY EnrolStart DEF Init
<1>18. focus = "Files" => FilInv
  BY FilStart DEF Init
<1>19. focus = "Reports" => RepTypeOK
  BY RepStart DEF Init
<1>20. focus = "Mails" => MailInv
  BY MailStart DEF Init
<1>21. focus = "TagLife" => TagInv
  BY TagStart DEF Init
<1> QED BY <1>1, <1>2, <1>3, <1>4, <1>5, <1>6, <1>7, <1>8, <1>9, <1>10, <1>11, <1>12, <1>13, <1>14, <1>15, <1>16, <1>17, <1>18, <1>19, <1>20, <1>21 DEF ComponentsInv

LEMMA ComponentsStep == ComponentsInv /\ [Next]_vars => ComponentsInv'
<1> SUFFICES ASSUME ComponentsInv, [Next]_vars PROVE ComponentsInv'
  OBVIOUS
<1>0. focus' = focus
  BY FocusStays
<1>1. focus = "Licences" => LicInv'
  BY ComponentMoves, LicenceStep DEF ComponentsInv
<1>2. focus = "Devices" => DevInv'
  BY ComponentMoves, DeviceStep DEF ComponentsInv
<1>3. focus = "Tenancy" => TenInv'
  BY ComponentMoves, TenantStep DEF ComponentsInv
<1>4. focus = "Accounts" => AccountInv'
  BY ComponentMoves, AccountStep DEF ComponentsInv
<1>5. focus = "SignIn" => LoginInv'
  BY ComponentMoves, LoginStep DEF ComponentsInv
<1>6. focus = "TwoFactor" => FactorInv'
  BY ComponentMoves, FactorStep DEF ComponentsInv
<1>7. focus = "Custody" => LoansInv'
  BY ComponentMoves, LoansStep DEF ComponentsInv
<1>8. focus = "Maintenance" => OrdersInv'
  BY ComponentMoves, OrdersStep DEF ComponentsInv
<1>9. focus = "PhotoOutbox" => PhotoInv'
  BY ComponentMoves, PhotoStep DEF ComponentsInv
<1>10. focus = "Sweep" => SweepInv'
  BY ComponentMoves, SweepStep DEF ComponentsInv
<1>11. focus = "Webhooks" => HookInv'
  BY ComponentMoves, HookStep DEF ComponentsInv
<1>12. focus = "Digests" => DigestInv'
  BY ComponentMoves, DigestStep DEF ComponentsInv
<1>13. focus = "Access" => GateInv' /\ Explained(held')
  BY ComponentMoves, GateStep, ExplainedStep DEF ComponentsInv
<1>14. focus = "Prefixes" => GiaiInv'
  BY ComponentMoves, GiaiStep DEF ComponentsInv
<1>15. focus = "PageCache" => CacheInv'
  BY ComponentMoves, CacheStep DEF ComponentsInv
<1>16. focus = "Releases" => ReleaseInv'
  BY ComponentMoves, ReleaseStep DEF ComponentsInv
<1>17. focus = "Enrolment" => EnrolInv'
  BY ComponentMoves, EnrolStep DEF ComponentsInv
<1>18. focus = "Files" => FilInv'
  BY ComponentMoves, FilStep DEF ComponentsInv
<1>19. focus = "Reports" => RepTypeOK'
  BY ComponentMoves, RepStep DEF ComponentsInv
<1>20. focus = "Mails" => MailInv'
  BY ComponentMoves, MailStep DEF ComponentsInv
<1>21. focus = "TagLife" => TagInv'
  BY ComponentMoves, TagStep DEF ComponentsInv
<1> QED BY <1>0, <1>1, <1>2, <1>3, <1>4, <1>5, <1>6, <1>7, <1>8, <1>9, <1>10, <1>11, <1>12, <1>13, <1>14, <1>15, <1>16, <1>17, <1>18, <1>19, <1>20, <1>21 DEF ComponentsInv

LEMMA ComponentsHold == Spec => []ComponentsInv
BY ComponentsStart, ComponentsStep, PTL DEF Spec

-----------------------------------------------------------------------------
(* The theorems. *)

\* The variables of every component keep their types: of the requests, rows and
\* queues of the API, the worker, the web app and the Android app.
THEOREM TypesHold == Spec => []TypeOK
<1> SUFFICES ComponentsInv => TypeOK
  BY ComponentsHold, PTL
<1> SUFFICES ASSUME ComponentsInv PROVE TypeOK
  OBVIOUS
<1>1. focus = "Licences" => LicTypeOK
  BY DEF ComponentsInv, LicInv
<1>2. focus = "Devices" => DevTypeOK
  BY DEF ComponentsInv, DevInv
<1>3. focus = "Tenancy" => TenTypeOK
  BY DEF ComponentsInv, TenInv
<1>4. focus = "Accounts" => AccTypeOK
  BY DEF ComponentsInv, AccountInv
<1>5. focus = "SignIn" => LoginTypeOK
  BY DEF ComponentsInv, LoginInv
<1>6. focus = "TwoFactor" => TfTypeOK
  BY DEF ComponentsInv, FactorInv
<1>7. focus = "Custody" => CusTypeOK
  BY DEF ComponentsInv, LoansInv
<1>8. focus = "Maintenance" => MntTypeOK
  BY DEF ComponentsInv, OrdersInv
<1>9. focus = "PhotoOutbox" => PhoTypeOK
  BY DEF ComponentsInv, PhotoInv
<1>10. focus = "Sweep" => SwpTypeOK
  BY DEF ComponentsInv, SweepInv
<1>11. focus = "Webhooks" => WhkTypeOK
  BY DEF ComponentsInv, HookInv
<1>12. focus = "Digests" => DigTypeOK
  BY DEF ComponentsInv, DigestInv
<1>13. focus = "Access" => GateTypeOK
  BY DEF ComponentsInv, GateInv
<1>14. focus = "Prefixes" => PreTypeOK
  BY DEF ComponentsInv, GiaiInv
<1>15. focus = "PageCache" => PagTypeOK
  BY DEF ComponentsInv, CacheInv
<1>16. focus = "Releases" => RelTypeOK
  BY DEF ComponentsInv, ReleaseInv
<1>17. focus = "Enrolment" => EnrolTypeOK
  BY DEF ComponentsInv, EnrolInv
<1>18. focus = "Files" => FilTypeOK
  BY DEF ComponentsInv, FilInv
<1>19. focus = "Reports" => RepTypeOK
  BY DEF ComponentsInv, RepTypeOK
<1>20. focus = "Mails" => MailTypeOK
  BY DEF ComponentsInv, MailInv
<1>21. focus = "TagLife" => TagTypeOK
  BY DEF ComponentsInv, TagInv
<1> QED BY <1>1, <1>2, <1>3, <1>4, <1>5, <1>6, <1>7, <1>8, <1>9, <1>10, <1>11, <1>12, <1>13, <1>14, <1>15, <1>16, <1>17, <1>18, <1>19, <1>20, <1>21 DEF TypeOK

\* However many requests check an asset out, in, transfer or dispose of it at once
\* (checkout.service.ts), two open loans of it come from requests that overlapped;
\* and the numbers that nextWorkOrderNumber (maintenance.service.ts) generates are
\* distinct, but for creations that overlapped.
THEOREM RegisterSound == Spec => []RegisterHolds
<1>1. ComponentsInv => RegisterHolds
  BY LoansOverlapOnly, OrdersDistinctOnly DEF ComponentsInv, RegisterHolds
<1> QED BY <1>1, ComponentsHold, PTL

\* A photo (SyncQueues.kt) is on the device until the server has it or its user
\* threw it away, and the limit of photo.service.ts is exceeded by no more than
\* the other uploads in flight.
THEOREM PhotosSound == Spec => []PhotosHold
<1>1. ComponentsInv => PhotosHold
  BY PhotosKeptOnly DEF ComponentsInv, PhotosHold
<1> QED BY <1>1, ComponentsHold, PTL

\* An account gets no more open invitations, roles and uses of an invitation than
\* the requests at once could give it (user.service.ts).
THEOREM AccountsSound == Spec => []AccountsHold
<1>1. ComponentsInv => AccountsHold
  BY AccessBoundedOnly DEF ComponentsInv, AccountsHold
<1> QED BY <1>1, ComponentsHold, PTL

\* A route that changes something is open to nobody who has not held a permission
\* for it since he signed in, by a role described as having it or by hand, however
\* roles, overrides, refreshes and switches of the tenant follow each other.  That
\* the guards fit the roles is the assumption GuardsAssumption, a fact about two
\* finite tables that every run of Components evaluates.  And a token of
\* tenant-context.router.ts acts where its user may, and knows the way home.
THEOREM ReachSound == Spec => []ReachHolds
<1>1. ComponentsInv => ReachHolds
  BY ReachGrantedOnly, ContextKnownOnly DEF ComponentsInv, ReachHolds
<1> QED BY <1>1, ComponentsHold, PTL

\* What a gate of a page shows a user, the API accepts from him, for every role,
\* every override and every tenant he may act in.  That the gates of the pages fit
\* the guards of the routes is the assumption OffersAssumption, a fact about finite
\* tables that every run of Components evaluates.
THEOREM OffersSound == Spec => []OffersHold
<1>1. ComponentsInv => OffersHold
  BY OffersHonouredOnly DEF ComponentsInv, OffersHold
<1> QED BY <1>1, ComponentsHold, PTL

\* A GIAI that gs1-identification.service.ts gave an asset stays recognisable.  And
\* however many requests commission, verify, permalock and retire tags at once
\* (gs1-tag.service.ts): a bound tag carries the number of its asset, and one that
\* may be locked was verified, but for tags that a request wrote after another had
\* since it looked; the log of an asset (asset-event.service.ts) has no gap, and
\* tells of a change once, unless it is missing.
THEOREM GiaisSound == Spec => []GiaisHold
<1>1. ComponentsInv => GiaisHold
  BY GiaiKeptOnly DEF ComponentsInv, GiaisHold, TagInv
<1> QED BY <1>1, ComponentsHold, PTL

\* A page whose hooks mark what their changes change shows what its user has
\* changed himself (the query cache of the web apps).  That they do mark it is a
\* fact about finite tables, which the run checks.
THEOREM PagesSound ==
  ASSUME ChangesAreMarked
  PROVE  Spec => []PagesHold
<1>1. ComponentsInv => PagesHold
  BY OwnWritesOnly DEF ComponentsInv, PagesHold
<1> QED BY <1>1, ComponentsHold, PTL

\* However many uploads, promotions, deletions and prunings of builds run at once,
\* and wherever one ends: builds have their objects, no two are current but by
\* transactions that overlapped, the retention takes none it should leave, and a
\* phone gets what it was told of (ios-releases.router.ts, iosReleaseRetention.ts,
\* ios.router.ts); a phone's row that is verified came signed (ios-enrolment.ts).
THEOREM ReleasesSound == Spec => []ReleasesHold
<1>1. ComponentsInv => ReleasesHold
  BY ReleasesOnly DEF ComponentsInv, ReleasesHold, EnrolInv
<1> QED BY <1>1, ComponentsHold, PTL

\* What a row names is in the object store, or its removal is under way or was cut
\* short; and what a purge leaves of a tenant was on its way when the rows went, or
\* the store would not remove it (document.service.ts, photo.service.ts,
\* company-logo.ts, platform-admin.service.ts).
THEOREM FilesSound == Spec => []FilesHold
<1>1. ComponentsInv => FilesHold
  BY FilesOnly DEF ComponentsInv, FilesHold
<1> QED BY <1>1, ComponentsHold, PTL

\* Reports, lists of exceptions and digests (report-export.service.ts and others)
\* that give a figure one name count the same rows for it, the classes of a
\* breakdown add up to its total and its shares are parts of it, for every table
\* that the writers can leave, but for the rows that the module names.
THEOREM ReportsSound == Spec => []ReportsHold
<1>1. ReportsHold
  BY FiguresAlwaysHold DEF ReportsHold
<1> QED BY <1>1, PTL

\* A tenant that has paid may write (require-active-licence.ts), and a licence
\* that was barred stays barred but for requests that overlapped.
THEOREM LicencesSound == Spec => LicencesHold
<1>1. ComponentsInv => (focus = "Licences" => PaidTenantMayWrite)
  BY PaidMayWriteOnly DEF ComponentsInv
<1>2. ComponentsInv /\ [Next]_vars => [focus = "Licences" => BarHolds]_licVars
  BY ComponentMoves, BarHoldsOnly DEF ComponentsInv
<1> QED BY <1>1, <1>2, ComponentsHold, PTL DEF Spec, LicencesHold

\* No more devices are active than slots, but for requests that overlapped, and
\* one that was deactivated comes back by a free slot (licence-device.service.ts).
THEOREM AllowanceSound == Spec => AllowanceHolds
<1>1. ComponentsInv /\ ComponentsInv' /\ [Next]_vars =>
        [focus = "Devices" => OverrunIsBounded' /\ InactiveHolds]_devVars
  <2> SUFFICES ASSUME ComponentsInv, ComponentsInv', [Next]_vars, focus = "Devices"
               PROVE  OverrunIsBounded' /\ InactiveHolds
    OBVIOUS
  <2>1. DevInv' => OverrunIsBounded'
    BY OverrunBoundedOnly, PTL
  <2>2. DevInv /\ DevInv' /\ [DevNext]_devVars
    BY FocusStays, ComponentMoves DEF ComponentsInv
  <2> QED BY <2>1, <2>2, InactiveOnly
<1> QED BY <1>1, ComponentsHold, PTL DEF Spec, AllowanceHolds

\* A tenant comes to the end of its onboarding with all its steps, and to its own
\* end with its licences revoked, but for requests that read before another wrote
\* (onboarding.service.ts, platform-admin.service.ts).
THEOREM TenantsSound == Spec => TenantsEndWhole
<1>1. ComponentsInv /\ [Next]_vars => [focus = "Tenancy" => CompletesWhole /\ PurgesRevoked]_tenVars
  BY ComponentMoves, CompletesWholeOnly, PurgesRevokedOnly DEF ComponentsInv
<1> QED BY <1>1, ComponentsHold, PTL DEF Spec, TenantsEndWhole

\* The report of a sweep is one upload's, and what its operator decided of a tag
\* stays (scan-session.service.ts, ScanSessionRepository.kt).
THEOREM SweepSound == Spec => SweepHolds
<1>1. ComponentsInv => (focus = "Sweep" => ReportIsWhole)
  BY ReportWholeOnly DEF ComponentsInv
<1>2. ComponentsInv /\ [Next]_vars => [focus = "Sweep" => \A e \in Tags : DecisionHolds(e)]_swpVars
  BY ComponentMoves, DecisionsOnly DEF ComponentsInv
<1> QED BY <1>1, <1>2, ComponentsHold, PTL DEF Spec, SweepHolds

\* The two rows of a second factor agree (two-factor.service.ts), and a login
\* gets its tokens only after it was asked for one that was due (auth.service.ts).
THEOREM SecondFactorSound == Spec => SecondFactorHolds
<1>1. ComponentsInv => (focus = "TwoFactor" => SecondFactorIsWhole)
  BY FactorWholeOnly DEF ComponentsInv
<1>2. ComponentsInv => [focus = "SignIn" => FactorAsked]_loginVars
  BY FactorAskedOnly DEF ComponentsInv
<1> QED BY <1>1, <1>2, ComponentsHold, PTL DEF Spec, SecondFactorHolds

\* A row of webhook_deliveries tells the truth about its event
\* (webhook.processor.ts), whatever attempts fail, stall or run twice; e-mails go by
\* settings that were those of the database within the age of the cache (mailer.ts),
\* however slow the look-ups are; a job that failed for good is told of once
\* (job-alerts.ts), unless it went with an alert that failed or a restart; and digests
\* of a subscription keep their distance, whatever is slow, fails or is edited
\* meanwhile (notification-scheduler.ts).
THEOREM MessagesSound == Spec => MessagesHold
<1>1. ComponentsInv => (focus = "Webhooks" => RowsTellTheTruth)
  BY RowsTellOnly DEF ComponentsInv
<1>2. ComponentsInv => [focus = "Digests" => ServesSpaced]_digVars
  BY DigestsSpacedOnly DEF ComponentsInv
<1>3. ComponentsInv => (focus = "Mails" => MailsAreSound)
  BY MailsSoundOnly DEF ComponentsInv
<1> QED BY <1>1, <1>2, <1>3, ComponentsHold, PTL DEF Spec, MessagesHold

\* A token never acts with a role or a permission that its user has not held since
\* he signed in or refreshed it: entering a sub-tenant and coming home add none
\* (tenant-context.router.ts).
THEOREM TokensWithinHeld ==
  Spec => [](focus = "Access" /\ token # NoToken => TokenWithinHeld)
<1>1. ComponentsInv => (focus = "Access" /\ token # NoToken => TokenWithinHeld)
  BY DEF ComponentsInv, GateInv
<1> QED BY <1>1, ComponentsHold, PTL
=============================================================================
