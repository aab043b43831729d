------------------------------- MODULE Reads --------------------------------
(***************************************************************************)
(* The tables that the answers of the API's read requests come from, for   *)
(* the requests whose answers the two web apps keep in a cache: those of   *)
(* the rows an answer lists.  The rows they name or count besides, which   *)
(* rows they are, and their form, are left out.                            *)
(***************************************************************************)

\* The handler of a GET, and the tables its answer is made of.
LOCAL Reading(h, tables) == [handler |-> h, reads |-> tables]

-----------------------------------------------------------------------------
(* The register *)
listAssets == Reading("listAssets", {"assets"})
getAsset == Reading("getAsset", {"assets"})
getAssetStats == Reading("getAssetStats", {"assets"})
listAssetPositions == Reading("listAssetPositions", {"assets"})
assetGs1 == Reading("assetGs1", {"identifiers", "tags", "labelPrints"})
listCategories == Reading("listCategories", {"categories"})
listSites == Reading("listSites", {"sites"})
listLocations == Reading("listLocations", {"locations"})
listActiveCheckouts == Reading("listActiveCheckouts", {"checkouts"})
getOverdueCheckouts == Reading("getOverdueCheckouts", {"checkouts"})
listMaintenanceEvents == Reading("listMaintenanceEvents", {"maintenance"})
getMaintenanceEvent == Reading("getMaintenanceEvent", {"maintenance"})
listPhotos == Reading("listPhotos", {"photos"})
listMaintenancePhotos == Reading("listMaintenancePhotos", {"photos"})
listDocuments == Reading("listDocuments", {"documents"})
listCustomFields == Reading("listCustomFields", {"customFields"})
listExceptions == Reading("listExceptions", {"assets", "maintenance", "documents"})
listLabelTemplates == Reading("listLabelTemplates", {"labelTemplates"})

\* Every write of an asset leaves an event in its timeline.
getAssetTimeline ==
  Reading("getAssetTimeline",
          {"assets", "transfers", "maintenance", "checkouts", "documents", "photos"})

-----------------------------------------------------------------------------
(* Counting *)
listCampaigns == Reading("listCampaigns", {"campaigns", "scans"})
getCampaignReport == Reading("getCampaignReport", {"campaigns", "scans"})
listZoneSubmissions == Reading("listZoneSubmissions", {"zones"})

getReconciliation ==
  Reading("getReconciliation", {"campaigns", "adjustments", "assets"})

listAdjustments == Reading("listAdjustments", {"adjustments"})
getComparison == Reading("getComparison", {"campaigns", "scans"})

-----------------------------------------------------------------------------
(* Reports *)
depreciationRegister == Reading("depreciationRegister", {"assets"})

fixedAssetRegister == Reading("fixedAssetRegister", {"assets"})
disposalReport == Reading("disposalReport", {"assets"})
assetAgingReport == Reading("assetAgingReport", {"assets"})
maintenanceCostReport == Reading("maintenanceCostReport", {"maintenance"})

-----------------------------------------------------------------------------
(* The organisation *)
listUsers == Reading("listUsers", {"users", "grants"})
listRoles == Reading("listRoles", {"roles"})
getUserPermissionsView == Reading("getUserPermissionsView", {"grants", "overrides"})
listApiKeys == Reading("listApiKeys", {"apiKeys"})
listWebhooks == Reading("listWebhooks", {"webhooks"})
webhookEvents == Reading("webhookEvents", {})
listSubscriptions == Reading("listSubscriptions", {"ownSubscriptions"})
listAuditEvents == Reading("listAuditEvents", {"auditEvents"})
getIdentification == Reading("getIdentification", {"identification", "activePrefix"})
listPrefixes == Reading("listPrefixes", {"prefixes"})
previewPrefix == Reading("previewPrefix", {"slug"})
listSubTenants == Reading("listSubTenants", {"subTenants"})
getSubTenant == Reading("getSubTenant", {"subTenants", "subTenantLogos"})
switchableTenants == Reading("switchableTenants", {"subTenants", "company"})
getLicenceStatus == Reading("getLicenceStatus", {"licences", "devices"})
listDevices == Reading("listDevices", {"devices", "ownDevice"})
getOnboardingProgress == Reading("getOnboardingProgress", {"onboarding"})
getCompany == Reading("getCompany", {"company", "companyLogo"})
getCompanyLogo == Reading("getCompanyLogo", {"companyLogo"})
checkTwoFactorRequirement == Reading("checkTwoFactorRequirement", {"ownLogin"})

-----------------------------------------------------------------------------
(* The platform *)
getDashboardStats == Reading("getDashboardStats", {"tenants", "licences", "users"})

listTenants == Reading("listTenants", {"tenants", "licences", "users"})

getTenantDetail ==
  Reading("getTenantDetail", {"tenants", "company", "companyLogo", "clients", "users", "licences"})

listAllUsers == Reading("listAllUsers", {"users", "grants"})
platformPermissionsView == Reading("platformPermissionsView", {"grants", "overrides"})

getTenantOnboarding ==
  Reading("getTenantOnboarding", {"onboarding", "users", "company", "clients"})

getSmtpConfig == Reading("getSmtpConfig", {"smtp"})
listLicences == Reading("listLicences", {"licences"})
licenceDevices == Reading("licenceDevices", {"devices"})
listAndroidReleases == Reading("listAndroidReleases", {"releases"})
listIosReleases == Reading("listIosReleases", {"releases"})
listIosDevices == Reading("listIosDevices", {"iosDevices"})

-----------------------------------------------------------------------------
AllReads ==
  {listAssets, getAsset, getAssetStats, listAssetPositions, assetGs1, listCategories,
   listSites, listLocations, listActiveCheckouts, getOverdueCheckouts,
   listMaintenanceEvents, getMaintenanceEvent, listPhotos, listMaintenancePhotos,
   listDocuments, listCustomFields, listExceptions, listLabelTemplates,
   getAssetTimeline, listCampaigns, getCampaignReport, listZoneSubmissions,
   getReconciliation, listAdjustments, getComparison, depreciationRegister,
   fixedAssetRegister, disposalReport, assetAgingReport, maintenanceCostReport,
   listUsers, listRoles, getUserPermissionsView, listApiKeys, listWebhooks,
   webhookEvents, listSubscriptions, listAuditEvents, getIdentification, listPrefixes,
   previewPrefix, listSubTenants, getSubTenant, switchableTenants, getLicenceStatus,
   listDevices, getOnboardingProgress, getCompany, getCompanyLogo,
   checkTwoFactorRequirement, getDashboardStats, listTenants, getTenantDetail,
   listAllUsers, platformPermissionsView, getTenantOnboarding, getSmtpConfig,
   listLicences, licenceDevices, listAndroidReleases, listIosReleases, listIosDevices}
=============================================================================
