------------------------------- MODULE Routes -------------------------------
(***************************************************************************)
(* The routes of the API as its routers declare them: for every handler,   *)
(* named after what it calls, who may call it, whether it is a read (GET)  *)
(* and which tables it changes.  What a handler checks in the body of a    *)
(* request, and what it answers, is left out; the components whose steps   *)
(* the handlers take have modules of their own.                            *)
(***************************************************************************)
EXTENDS RoleMatrix

\* Who may call: nobody in particular, the holders of one of some permissions,
\* or the holders of one of some roles.
SignedIn == [anyOf |-> {}, roles |-> {}]
requireAnyPermission(permissions) == [anyOf |-> permissions, roles |-> {}]
requireRole(names) == [anyOf |-> {}, roles |-> names]

LOCAL Gets(guard, handlers) ==
  {[handler |-> h, read |-> TRUE, guard |-> guard, changes |-> {}] : h \in handlers}

LOCAL Sends(guard, tables, handlers) ==
  {[handler |-> h, read |-> FALSE, guard |-> guard, changes |-> tables] : h \in handlers}

\* A GET that writes what it finds out of date.
LOCAL GetsAndSaves(guard, tables, handlers) ==
  {[handler |-> h, read |-> TRUE, guard |-> guard, changes |-> tables] : h \in handlers}

AssetRead == requireAnyPermission({"asset:read"})
AssetWrite == requireAnyPermission({"asset:write"})
AssetDelete == requireAnyPermission({"asset:delete"})

-----------------------------------------------------------------------------
(* The register *)

AssetReads ==
  Gets(SignedIn, {"listAssets", "getAssetByTag", "getAsset"})
  \cup Gets(AssetRead, {"listAssetsForExport", "getAssetStats", "listAssetPositions", "assetGs1"})
  \cup Gets(requireAnyPermission({"asset:read", "scan:execute"}), {"getAssetByEpc"})

AssetWrites ==
  Sends(AssetWrite, {"assets", "identifiers"}, {"createAsset", "bulkImportAssets"})
  \cup Sends(AssetWrite, {"assets"}, {"updateAsset", "disposeAsset"})
  \cup Sends(AssetDelete, {"assets"}, {"deleteAsset"})

CategoryRoutes ==
  Gets(SignedIn, {"listCategories"})
  \cup Sends(requireAnyPermission({"category:write"}), {"categories"},
             {"createCategory", "updateCategory", "deleteCategory"})

SiteRoutes ==
  Gets(SignedIn, {"listSites", "listLocations"})
  \cup Sends(requireAnyPermission({"site:write"}), {"sites"}, {"createSite", "deleteSite"})
  \cup Sends(requireAnyPermission({"site:write"}), {"locations"}, {"createLocation"})

CheckoutRoutes ==
  Gets(SignedIn, {"listActiveCheckouts", "getOverdueCheckouts", "getCheckoutHistory"})
  \cup Sends(AssetWrite, {"checkouts"}, {"checkoutAsset", "checkinAsset"})

TransferRoutes ==
  Gets(SignedIn, {"listTransfers"})
  \cup Sends(AssetWrite, {"transfers", "assets"}, {"createTransfer"})

MaintenanceRoutes ==
  Gets(SignedIn, {"listMaintenanceEvents", "getMaintenanceEvent"})
  \cup Sends(AssetWrite, {"maintenance"}, {"createMaintenanceEvent", "updateMaintenanceEvent"})
  \cup Sends(AssetDelete, {"maintenance"}, {"deleteMaintenanceEvent"})

PhotoRoutes ==
  Gets(SignedIn, {"listPhotos", "listMaintenancePhotos", "getPhotoStream"})
  \cup Sends(AssetWrite, {"photos"}, {"uploadPhoto", "uploadMaintenancePhoto", "updatePhoto"})
  \cup Sends(AssetDelete, {"photos"}, {"deletePhoto"})

DocumentRoutes ==
  Gets(SignedIn, {"listDocuments", "getDocumentStream"})
  \cup Sends(AssetWrite, {"documents"}, {"uploadDocument"})
  \cup Sends(AssetDelete, {"documents"}, {"deleteDocument"})

CustomFieldRoutes ==
  Gets(SignedIn, {"listCustomFields"})
  \cup Sends(AssetWrite, {"customFields"},
             {"createCustomField", "updateCustomField", "deleteCustomField"})

TimelineRoutes == Gets(AssetRead, {"getAssetTimeline"})

ExceptionRoutes == Gets(AssetRead, {"listExceptions"})

ReportRoutes ==
  Gets(AssetRead, {"getAvailableReportTypes", "exporter", "depreciationRegister",
                   "fixedAssetRegister", "disposalReport", "assetAgingReport",
                   "maintenanceCostReport"})

-----------------------------------------------------------------------------
(* Counting and tagging *)

CampaignReads ==
  Gets(SignedIn, {"listCampaigns", "listZoneSubmissions", "getReconciliation",
                  "listAdjustments", "getComparison", "getCampaignReportRows",
                  "getCampaignReport"})

CampaignWrites ==
  LET counters == requireAnyPermission({"audit:write"})
  IN Sends(counters, {"campaigns"}, {"createCampaign", "startCampaign", "completeCampaign"})
     \cup Sends(counters, {"scans"}, {"recordScan"})
     \cup Sends(counters, {"zones"}, {"submitZone"})
     \cup Sends(requireAnyPermission({"audit:approve"}), {"adjustments", "assets"},
                {"postAdjustment"})

SweepRoutes == Sends(requireAnyPermission({"scan:execute"}), {"sweeps"}, {"uploadScanSession"})

IdentificationRoutes ==
  LET gs1Admin == requireAnyPermission({"gs1:admin"})
  IN GetsAndSaves(requireAnyPermission({"gs1:admin", "asset:read"}),
                  {"identification"}, {"getIdentification"})
     \cup Gets(gs1Admin, {"listPrefixes"})
     \cup GetsAndSaves(gs1Admin, {"identification"}, {"previewPrefix"})
     \cup Sends(gs1Admin, {"identification", "slug"}, {"updateIdentification"})
     \cup Sends(gs1Admin, {"prefixes"}, {"createPrefix", "withdrawPrefix"})
     \cup Sends(gs1Admin, {"prefixes", "activePrefix", "identification", "assets"},
                {"activatePrefix", "supersedePrefix"})

IdentifierRoutes ==
  LET devices == requireAnyPermission({"device:manage"})
  IN Sends(AssetWrite, {"assets", "identifiers"}, {"backfillMissingIars"})
     \cup Sends(AssetWrite, {"identifiers"}, {"allocateIdentifiers"})
     \cup Sends(devices, {"identifiers"}, {"leaseBlock"})
     \cup Gets(devices, {"listBlocks"})
     \cup Sends(requireAnyPermission({"device:manage", "scan:execute"}),
                {"identifiers"}, {"settleBlock"})
     \cup Gets(AssetRead, {"validateIar"})
     \cup Sends(requireAnyPermission({"asset:read", "tag:commission"}), {}, {"encodeIdentifier"})

\* Commissioning numbers an asset that has none, and verifying writes its tag
\* on the asset: the identity of the asset, not its record.
TagRoutes ==
  Sends(requireAnyPermission({"tag:commission"}), {"tags", "identifiers"},
        {"commissionTag", "verifyTag", "permalockTag", "retireTag"})

LabelRoutes ==
  LET printing == requireAnyPermission({"asset:write", "tag:commission"})
  IN Gets(AssetRead, {"listLabelTemplates"})
     \cup Sends(AssetWrite, {"labelTemplates"},
                {"saveLabelTemplate", "updateLabelTemplate", "deleteLabelTemplate"})
     \cup Sends(printing, {"labelPrints"}, {"recordLabelPrints", "markScanVerified"})

-----------------------------------------------------------------------------
(* Running an organisation *)

UserRoutes ==
  LET writers == requireAnyPermission({"user:write"})
  IN Gets(requireAnyPermission({"user:read", "user:write"}),
          {"listUsers", "listRoles", "getUserPermissionsView"})
     \cup Sends(writers, {"users", "grants", "invitations"}, {"inviteUser"})
     \cup Sends(writers, {"invitations"}, {"resendInvite"})
     \cup Sends(writers, {"users"}, {"setUserActive"})
     \cup Sends(writers, {"grants"}, {"setUserRole"})
     \cup Sends(writers, {"overrides"}, {"setUserPermissionOverrides"})

ApiKeyRoutes ==
  Gets(requireAnyPermission({"apikey:read", "apikey:write"}), {"listApiKeys"})
  \cup Sends(requireAnyPermission({"apikey:write"}), {"apiKeys"}, {"createApiKey", "revokeApiKey"})

AuditEventRoutes ==
  Gets(requireAnyPermission({"user:read", "user:write", "apikey:read", "apikey:write"}),
       {"listAuditEvents", "listAuditEventsForExport"})

AlertRoutes ==
  Gets(AssetRead, {"listSubscriptions"})
  \cup Sends(AssetRead, {"ownSubscriptions"},
             {"upsertSubscription", "toggleSubscription", "deleteSubscription"})

WebhookRoutes ==
  LET keepers == requireAnyPermission({"apikey:write"})
  IN Gets(keepers, {"listWebhooks", "webhookEvents", "listDeliveries"})
     \cup Sends(keepers, {"webhooks"}, {"createWebhook", "toggleWebhook", "deleteWebhook"})

SubTenantRoutes ==
  LET managers == requireAnyPermission({"company:manage"})
  IN Gets(managers, {"listSubTenants", "getSubTenant"})
     \cup Sends(managers, {"subTenants"}, {"createSubTenant", "updateSubTenantCompany"})
     \cup Sends(managers, {"subTenantLogos"}, {"uploadSubTenantLogo", "deleteSubTenantLogo"})

ContextRoutes ==
  LET managers == requireAnyPermission({"company:manage"})
  IN Gets(managers, {"switchableTenants"})
     \cup Sends(managers, {}, {"switchContext"})

\* A heartbeat and a registration are about the caller's own device.
DeviceRoutes ==
  GetsAndSaves(SignedIn, {"licenceStatus"}, {"getLicenceStatus"})
  \cup Gets(SignedIn, {"listDevices"})
  \cup Sends(SignedIn, {"ownDevice"}, {"registerDevice", "heartbeatDevice"})
  \cup Sends(requireAnyPermission({"company:manage"}), {"devices"},
             {"activateDevice", "deactivateDevice", "deleteDevice"})

LicenceRoutes ==
  LET authorityOnly == requireRole(PLATFORM_ROLES)
  IN Gets(authorityOnly, {"listLicences", "licenceDevices"})
     \cup Sends(authorityOnly, {"licences"},
                {"confirmPaymentAndRenew", "changeDuration", "suspendLicence", "revokeLicence",
                 "reactivateLicence", "addDeviceSlot"})
     \cup Sends(authorityOnly, {"devices"},
                {"activateLicenceDevice", "deactivateLicenceDevice", "deleteLicenceDevice"})

\* Reads stay open to any user; every write needs company:manage.
OnboardingRoutes ==
  LET managers == requireAnyPermission({"company:manage"})
  IN GetsAndSaves(SignedIn, {"onboardingComplete"}, {"getOnboardingProgress"})
     \cup Gets(SignedIn, {"getCompany", "getCompanyLogo"})
     \cup Sends(managers, {"users", "onboarding"}, {"completeUserRegistration"})
     \cup Sends(managers, {"company", "onboarding"}, {"registerCompany"})
     \cup Sends(managers, {"clients", "onboarding"}, {"registerClient"})
     \cup Sends(managers, {"companyLogo"}, {"uploadCompanyLogo", "deleteCompanyLogo"})
     \cup Sends(managers, {"licences", "onboarding"}, {"activateOnboardingLicence"})
     \cup Sends(managers, {"onboardingComplete"}, {"completeOnboarding"})

TwoFactorRoutes ==
  Gets(SignedIn, {"checkTwoFactorRequirement"})
  \cup Sends(SignedIn, {"ownSetup"}, {"generateTwoFactorSetup"})
  \cup Sends(SignedIn, {"ownLogin"}, {"verifyAndEnableTwoFactor", "disableTwoFactor"})

\* What a signed-in user does about his own account, and the one setting of the
\* company that any user may change.
AccountRoutes ==
  Gets(SignedIn, {"me"})
  \cup Sends(SignedIn, {"ownLogin"}, {"changeOwnPassword", "logout"})
  \cup Sends(SignedIn, {"currency"}, {"setCurrency"})

-----------------------------------------------------------------------------
(* Running the platform *)

LOCAL platformOnly == requireRole(PLATFORM_ROLES)

\* Deleting a tenant takes everything it has with it.
PlatformTenants ==
  Gets(platformOnly, {"getDashboardStats", "listTenants", "getTenantDetail", "listAllUsers"})
  \cup Sends(platformOnly, {"tenants", "users"}, {"adminCreateTenant", "deleteTenant"})

PlatformUsers ==
  Gets(platformOnly, {"platformPermissionsView"})
  \cup Sends(platformOnly, {"users"},
             {"adminResetPassword", "unlockUser", "disableUserTwoFactor",
              "forcePasswordChange", "setUserActiveStatus"})
  \cup Sends(platformOnly, {"users", "grants"}, {"softDeleteUser"})
  \cup Sends(platformOnly, {"overrides"}, {"platformPermissionOverrides"})

PlatformCompany ==
  Gets(platformOnly, {"getTenantLogo"})
  \cup Sends(platformOnly, {"company"}, {"updateTenantCompany"})
  \cup Sends(platformOnly, {"companyLogo"}, {"putTenantLogo", "deleteTenantLogo"})

PlatformOnboarding ==
  Gets(platformOnly, {"getTenantOnboarding"})
  \cup Sends(platformOnly, {"users", "onboarding"}, {"onboardUser"})
  \cup Sends(platformOnly, {"company", "onboarding"}, {"onboardCompany"})
  \cup Sends(platformOnly, {"clients", "onboarding"}, {"onboardClient"})
  \cup Sends(platformOnly, {"tenants", "clients", "company", "onboarding"},
             {"platformSubTenant"})
  \cup Sends(platformOnly, {"licences", "onboarding"}, {"onboardLicence"})
  \cup Sends(platformOnly, {"tenants"}, {"onboardComplete"})

PlatformSmtp ==
  Gets(platformOnly, {"getSmtpConfig"})
  \cup Sends(platformOnly, {"smtp"}, {"upsertSmtpConfig", "verifySmtp", "sendTestEmail"})

AndroidReleaseRoutes ==
  LET superAdmin == requireRole({"Platform Super Admin"})
  IN Gets(superAdmin, {"listAndroidReleases", "downloadAndroidRelease"})
     \cup Sends(superAdmin, {"releases"},
                {"publishAndroidRelease", "patchAndroidRelease", "deleteAndroidRelease"})

IosReleaseRoutes ==
  LET superAdmin == requireRole({"Platform Super Admin"})
  IN Gets(superAdmin, {"listIosDevices", "listIosReleases", "downloadIosRelease"})
     \cup Sends(superAdmin, {"iosDevices"}, {"patchIosDevice", "deleteIosDevice"})
     \cup Sends(superAdmin, {"releases"}, {"publishIosRelease", "patchIosRelease", "deleteIosRelease"})

-----------------------------------------------------------------------------
(* How app.ts mounts them *)

\* Behind authentication alone.
UngatedRoutes == OnboardingRoutes \cup TwoFactorRoutes \cup AccountRoutes

\* Behind the whole chain, but open to a tenant whose licence has run out.
ExemptRoutes == DeviceRoutes \cup LicenceRoutes \cup ContextRoutes

\* Behind the whole chain.
GatedRoutes ==
  UNION {AssetReads, AssetWrites, CategoryRoutes, SiteRoutes, CheckoutRoutes, TransferRoutes,
         MaintenanceRoutes, PhotoRoutes, DocumentRoutes, CustomFieldRoutes, TimelineRoutes,
         ExceptionRoutes, ReportRoutes, CampaignReads, CampaignWrites, SweepRoutes,
         IdentificationRoutes, IdentifierRoutes, TagRoutes, LabelRoutes, UserRoutes,
         ApiKeyRoutes, AuditEventRoutes, AlertRoutes, WebhookRoutes, SubTenantRoutes,
         PlatformTenants, PlatformUsers, PlatformCompany, PlatformOnboarding, PlatformSmtp,
         AndroidReleaseRoutes, IosReleaseRoutes, ExemptRoutes}

AllRoutes == UngatedRoutes \cup GatedRoutes

-----------------------------------------------------------------------------
(* What calls them: the pages of the two web apps.  A page is made of the    *)
(* answers it shows, each kept in a cache under a key, and the changes it    *)
(* offers, each behind a gate and with the keys it marks as out of date when *)
(* it has been answered.                                                     *)

\* useQuery: the key, and the handler of the GET.
Query(key, get) == [key |-> key, get |-> get]

\* useMutation: the handler, and the keys onSuccess invalidates.
Mutation(send, invalidates) == [send |-> send, invalidates |-> invalidates]

\* A button is shown to the holders of one of some permissions.
hasAnyPermission(permissions) == requireAnyPermission(permissions)

Asking(gate, mutations) == {[gates |-> {gate}, mutation |-> m] : m \in mutations}

Part(shows, offers) == [shows |-> shows, offers |-> offers]

Joined(parts) ==
  Part(UNION {p.shows : p \in parts}, UNION {p.offers : p \in parts})

\* A part that is there only for those who pass another gate too.
Behind(gate, part) ==
  Part(part.shows, {[o EXCEPT !.gates = @ \cup {gate}] : o \in part.offers})

\* A page: its name, whom its route lets in, and its part.
Screen(name, guard, part) ==
  [name |-> name, guard |-> guard, shows |-> part.shows, offers |-> part.offers]
=============================================================================
