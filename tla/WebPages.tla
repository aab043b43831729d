------------------------------ MODULE WebPages ------------------------------
(***************************************************************************)
(* The pages of the web app as its router lists them, in the form of       *)
(* Routes: what each shows from the cache, what it lets the user do, to    *)
(* whom.  Layout, forms and filters are left out.                          *)
(***************************************************************************)
EXTENDS WebQueries

LOCAL Writers == hasAnyPermission({"asset:write"})
LOCAL Deleters == hasAnyPermission({"asset:delete"})

\* A route that is only there for the holders of one of some permissions.
RequirePermission(permissions) == requireAnyPermission(permissions)

-----------------------------------------------------------------------------
(* The frame around every page *)
TenantSwitcher ==
  Part({Query(<<"switchable-tenants">>, "switchableTenants")},
       Asking(hasAnyPermission({"company:manage"}), {Mutation("switchContext", {})}))

AppShell ==
  Joined({TenantSwitcher,
          Part({}, Asking(SignedIn, {useDeviceHeartbeat, Mutation("setCurrency", {})}))})

Page(name, guard, part) == Screen(name, guard, Joined({part, AppShell}))

-----------------------------------------------------------------------------
(* Assets *)
AssetPhotos ==
  LET photos == Query(<<"photos", "asset">>, "listPhotos")
  IN Part({photos}, Asking(SignedIn, {Mutation("uploadPhoto", {photos.key}),
                                     Mutation("deletePhoto", {photos.key})}))

\* Mutant of AssetDocuments: who may edit sees the button that deletes.
DocumentsForWriters ==
  Part({useDocuments},
       Asking(Writers, {useUploadDocument, useDeleteDocument})
       \cup Asking(SignedIn, {Mutation("getDocumentStream", {})}))

AssetDocuments ==
  Part({useDocuments},
       Asking(Writers, {useUploadDocument})
       \cup Asking(Deleters, {useDeleteDocument})
       \cup Asking(SignedIn, {Mutation("getDocumentStream", {})}))

AssetTimeline == Part({useTimeline}, {})
AssetGs1Identity == Part({useAssetGs1}, {})
DisposalDialog == Part({}, Asking(Writers, {useDisposeAsset}))

AssetDetailPage ==
  Page("AssetDetailPage", SignedIn,
       Joined({Part({useAsset}, Asking(Deleters, {useDeleteAsset})), DisposalDialog,
               AssetPhotos, AssetDocuments, AssetTimeline, AssetGs1Identity}))

AssetForm ==
  Part({useCategories, useSites, useLocations},
       Asking(SignedIn, {useCreateCategory, useCreateSite, useCreateLocation}))

NewAssetPage ==
  Page("NewAssetPage", SignedIn,
       Joined({AssetForm, Part({}, Asking(SignedIn, {useCreateAsset}))}))

EditAssetPage ==
  Page("EditAssetPage", SignedIn,
       Joined({AssetForm, Part({useAsset}, Asking(SignedIn, {useUpdateAsset}))}))

AssetsPage ==
  Page("AssetsPage", SignedIn,
       Part({useAssets, useCategories, useSites},
            Asking(SignedIn, {Mutation("listAssetsForExport", {})})))

AssetMapPage ==
  Page("AssetMapPage", SignedIn, Part({useAssetPositions, useCategories, useSites},
    {}))

CategoriesPage ==
  Page("CategoriesPage", SignedIn,
       Part({useCategories}, Asking(hasAnyPermission({"category:write"}),
                                    {useCreateCategory, useDeleteCategory})))

SitesPage ==
  Page("SitesPage", SignedIn,
       Part({useSites}, Asking(hasAnyPermission({"site:write"}), {useCreateSite, useDeleteSite})))

ImportPage ==
  Page("ImportPage", SignedIn, Part({}, Asking(SignedIn, {useImportAssets})))

ExceptionsPage == Page("ExceptionsPage", SignedIn, Part({useExceptions}, {}))

-----------------------------------------------------------------------------
(* Work on the assets *)
\* Only the page that asks for asset:write opens the form.
CheckoutForm ==
  Part({Query(<<"assets", "available">>, "listAssets")},
       Asking(SignedIn, {Mutation("checkoutAsset", {<<"checkouts">>})}))

CheckoutsPage ==
  Page("CheckoutsPage", SignedIn,
       Joined({Part({Query(<<"checkouts", "active">>, "listActiveCheckouts"),
                     Query(<<"checkouts", "overdue">>, "getOverdueCheckouts")},
                    Asking(Writers, {Mutation("checkinAsset", {<<"checkouts">>})})),
               Behind(Writers, CheckoutForm)}))

MaintenancePhotosCard ==
  LET photos == Query(<<"maintenance-photos", "event">>, "listMaintenancePhotos")
  IN Part({photos}, Asking(Writers, {Mutation("uploadMaintenancePhoto", {photos.key}),
                                Mutation("deletePhoto", {photos.key})}))

MaintenanceDetailPage ==
  Page("MaintenanceDetailPage", SignedIn,
       Joined({Part({useMaintenanceEvent}, Asking(Writers, {useUpdateMaintenanceEvent})
                                           \cup Asking(Deleters, {useDeleteMaintenanceEvent})),
               MaintenancePhotosCard}))

MaintenancePhotoStrip ==
  Part({Query(<<"maintenance-photos", "event">>, "listMaintenancePhotos")}, {})

MaintenancePage ==
  Page("MaintenancePage", SignedIn,
       Joined({Part({useMaintenanceEvents, useAssets},
                    Asking(Writers, {useCreateMaintenanceEvent})), MaintenancePhotoStrip}))

-----------------------------------------------------------------------------
(* Counting *)
AuditNewCampaign ==
  Part({useSites, useCategories, useAssets, Query(<<"site-locations", "site">>, "listLocations")},
       Asking(hasAnyPermission({"audit:write"}), {Mutation("createCampaign", {<<"audits">>})}))

AuditCampaignList ==
  Part({Query(<<"audits">>, "listCampaigns")},
       Asking(hasAnyPermission({"audit:write"}), {Mutation("startCampaign", {<<"audits">>})}))

AuditsPage ==
  Page("AuditsPage", SignedIn, Joined({AuditNewCampaign, AuditCampaignList}))

ReportView == Part({}, Asking(SignedIn, {Mutation("getCampaignReportRows", {})}))

AuditRunPage ==
  Page("AuditRunPage", SignedIn,
       LET zones == Query(<<"audit-zones", "id">>, "listZoneSubmissions")
       IN Joined({ReportView,
                  Part({Query(<<"audit-campaign", "id">>, "getCampaignReport"), zones,
                        Query(<<"site-locations", "site">>, "listLocations")},
                       Asking(SignedIn, {Mutation("recordScan", {}),
                                         Mutation("submitZone", {zones.key}),
                                         Mutation("completeCampaign", {<<"audits">>})}))}))

ReconciliationRow ==
  Part({}, Asking(hasAnyPermission({"audit:approve"}),
           {Mutation("postAdjustment", {<<"audit-adjustments", "id">>,
                                        <<"audit-reconciliation", "id">>})}))

AuditReconciliationPage ==
  Page("AuditReconciliationPage", SignedIn,
       Joined({Part({Query(<<"audit-reconciliation", "id">>, "getReconciliation"),
                     Query(<<"audit-adjustments", "id">>, "listAdjustments")}, {}),
               ReconciliationRow}))

AuditComparisonPage ==
  Page("AuditComparisonPage", SignedIn,
       Part({Query(<<"audit-comparison", "id">>, "getComparison")}, {}))

-----------------------------------------------------------------------------
(* Figures *)
DashboardPage ==
  Page("DashboardPage", SignedIn,
       Part({Query(<<"assets", "summary">>, "listAssets"), Query(<<"assets", "stats">>, "getAssetStats"),
             Query(<<"checkouts", "overdue">>, "getOverdueCheckouts"),
             Query(<<"checkouts", "active">>, "listActiveCheckouts"),
             Query(<<"audit-events", "dashboard">>, "listAuditEvents")}, {}))

ReportExportButton == Part({}, Asking(SignedIn, {Mutation("exporter", {})}))

DepreciationPage ==
  Page("DepreciationPage", SignedIn,
       Joined({Part({useDepreciationRegister, useCategories, useSites}, {}), ReportExportButton}))

FixedAssetsPage ==
  Page("FixedAssetsPage", SignedIn,
       Joined({Part({useFixedAssetRegister, useCategories, useSites}, {}), ReportExportButton}))

DisposalsPage ==
  Page("DisposalsPage", SignedIn,
       Joined({Part({useDisposalReport}, {}), ReportExportButton}))

AgingPage ==
  Page("AgingPage", SignedIn,
       Joined({Part({useAgingReport, useCategories, useSites}, {}), ReportExportButton}))

MaintenanceCostsPage ==
  Page("MaintenanceCostsPage", SignedIn,
       Joined({Part({useMaintenanceCostReport}, {}), ReportExportButton}))

GenericReportPage == Page("GenericReportPage", SignedIn, ReportExportButton)

-----------------------------------------------------------------------------
(* Labels *)
LabelAssets ==
  Part({useAssets}, Asking(SignedIn, {Mutation("backfillMissingIars",
    {<<"assets">>})}))

\* Printing stores the picture of every label with its asset.
LabelPrint ==
  Part({useCompany, useIdentification}, Asking(SignedIn, {Mutation("updateAsset",
    {})}))

LabelDesign ==
  Part({useLabelTemplates}, Asking(SignedIn, {useSaveLabelTemplate,
    useDeleteLabelTemplate}))

LabelLogo ==
  Part({useCompanyLogo}, Asking(SignedIn, {useUploadCompanyLogo,
    useDeleteCompanyLogo}))

LabelsPage ==
  Page("LabelsPage", SignedIn, Joined({LabelAssets, LabelPrint, LabelDesign,
    LabelLogo}))

-----------------------------------------------------------------------------
(* Licence, onboarding and the own account *)
CurrentLicence == Part({useLicenceStatus}, {})

DevicesList ==
  Part({useDevices, useLicenceStatus},
       Asking(hasAnyPermission({"company:manage"}),
              {useActivateDevice, useDeactivateDevice, useDeleteDevice}))

AuthorityConsole ==
  Part({useAllLicences},
       Asking(SignedIn, {useRenewLicence, useSuspendLicence, useRevokeLicence,
                         useReactivateLicence, useAddDeviceSlot}))

LicensingPage ==
  Page("LicensingPage", SignedIn,
       Joined({CurrentLicence, DevicesList,
               Behind(hasAnyPermission({"licence:manage"}), AuthorityConsole)}))

OnboardingUserStep == Part({}, Asking(SignedIn, {useCompleteUserStep}))
OnboardingCompanyStep == Part({}, Asking(SignedIn, {useCompleteCompanyStep}))
OnboardingClientStep == Part({}, Asking(SignedIn, {useCompleteClientStep}))
OnboardingLicenceStep == Part({}, Asking(SignedIn, {useFinaliseOnboarding}))

OnboardingPage ==
  Screen("OnboardingPage", SignedIn,
         Joined({Part({useOnboardingProgress}, {}), OnboardingUserStep, OnboardingCompanyStep,
                 OnboardingClientStep, OnboardingLicenceStep}))

TwoFactorPage ==
  Page("TwoFactorPage", SignedIn,
       Part({useTwoFactorStatus},
            Asking(SignedIn, {useSetupTwoFactor, useVerifyTwoFactor, useDisableTwoFactor})))

ChangePasswordPage ==
  Page("ChangePasswordPage", SignedIn,
       Part({}, Asking(SignedIn, {Mutation("changeOwnPassword", {})})))

AlertsPage ==
  Page("AlertsPage", SignedIn,
       Part({useAlertSubscriptions},
            Asking(SignedIn, {useSubscribeAlert, useToggleAlert, useUnsubscribeAlert})))

-----------------------------------------------------------------------------
(* Running the organisation *)
UsersPage ==
  Page("UsersPage", RequirePermission({"user:read", "user:write"}),
       Part({useUsers, useRoles},
            Asking(SignedIn, {useInviteUser, useSetUserActive, useSetUserRole, useResendInvite})))

UserDetailPage ==
  Page("UserDetailPage", RequirePermission({"user:read", "user:write"}),
       Part({useUsers, useUserPermissions},
            Asking(hasAnyPermission({"user:write"}), {useSetUserPermissions})))

ApiKeysPage ==
  Page("ApiKeysPage", RequirePermission({"apikey:read", "apikey:write"}),
       Part({useApiKeys}, Asking(SignedIn, {useCreateApiKey, useRevokeApiKey})))

WebhooksPage ==
  Page("WebhooksPage", RequirePermission({"apikey:write"}),
       Part({useWebhooks, useWebhookEvents},
            Asking(SignedIn, {useCreateWebhook, useToggleWebhook, useDeleteWebhook})))

CustomFieldsPage ==
  Page("CustomFieldsPage", RequirePermission({"asset:write"}),
       Part({useCustomFields}, Asking(SignedIn, {useCreateCustomField, useDeleteCustomField})))

IdentificationSettings ==
  Part({useIdentification}, Asking(SignedIn, {useUpdateIdentification}))

PrefixList ==
  Part({useGs1Prefixes, usePrefixPreview},
       Asking(SignedIn, {useCreateGs1Prefix, useWithdrawGs1Prefix}))

PrefixDialogs ==
  Part({}, Asking(SignedIn, {useActivateGs1Prefix, useSupersedeGs1Prefix}))

IdentificationPage ==
  Page("IdentificationPage", RequirePermission({"gs1:admin"}),
       Joined({IdentificationSettings, PrefixList, PrefixDialogs}))

SubTenantsPage ==
  Page("SubTenantsPage", RequirePermission({"company:manage"}), Part({useSubTenants},
    {}))

NewSubTenantPage ==
  Page("NewSubTenantPage", RequirePermission({"company:manage"}),
       Part({}, Asking(SignedIn, {useCreateSubTenant, Mutation("uploadSubTenantLogo", {})})))

SubTenantDetailPage ==
  Page("SubTenantDetailPage", RequirePermission({"company:manage"}),
       Part({useSubTenant},
            Asking(SignedIn, {useUpdateSubTenantCompany, useUploadSubTenantLogo,
                              useDeleteSubTenantLogo})))

AuditLogPage ==
  Page("AuditLogPage", RequirePermission({"user:read", "user:write", "apikey:read", "apikey:write"}),
       Part({useAuditEvents}, Asking(SignedIn, {Mutation("listAuditEventsForExport", {})})))

-----------------------------------------------------------------------------
AllPages ==
  {AssetDetailPage, NewAssetPage, EditAssetPage, AssetsPage, AssetMapPage,
   CategoriesPage, SitesPage, ImportPage, ExceptionsPage, CheckoutsPage,
   MaintenanceDetailPage, MaintenancePage, AuditsPage, AuditRunPage,
   AuditReconciliationPage, AuditComparisonPage, DashboardPage, DepreciationPage,
   FixedAssetsPage, DisposalsPage, AgingPage, MaintenanceCostsPage, GenericReportPage,
   LabelsPage, LicensingPage, OnboardingPage, TwoFactorPage, ChangePasswordPage,
   AlertsPage, UsersPage, UserDetailPage, ApiKeysPage, WebhooksPage, CustomFieldsPage,
   IdentificationPage, SubTenantsPage, NewSubTenantPage, SubTenantDetailPage,
   AuditLogPage}

\* Where a page leads when what it offers has been done.
Onward ==
  {<<"NewAssetPage", "AssetsPage">>, <<"EditAssetPage", "AssetDetailPage">>,
   <<"AssetDetailPage", "AssetsPage">>, <<"AuditsPage", "AuditRunPage">>,
   <<"AuditRunPage", "AuditReconciliationPage">>, <<"AuditRunPage", "AuditsPage">>,
   <<"MaintenanceDetailPage", "MaintenancePage">>, <<"OnboardingPage", "DashboardPage">>}
=============================================================================
