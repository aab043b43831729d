----------------------------- MODULE WebQueries -----------------------------
(***************************************************************************)
(* The hooks of the web app: the key under which it keeps the answer of a  *)
(* read request, and the keys a change marks as out of date when it has    *)
(* been answered.  "id" and its like stand for the one row the page is     *)
(* about.                                                                  *)
(***************************************************************************)
EXTENDS Routes

-----------------------------------------------------------------------------
(* Assets *)
useAssets == Query(<<"assets", "list">>, "listAssets")
useAssetPositions == Query(<<"assets", "map">>, "listAssetPositions")
useAsset == Query(<<"asset", "id">>, "getAsset")
useCreateAsset == Mutation("createAsset", {<<"assets">>})
useUpdateAsset == Mutation("updateAsset", {<<"assets">>, <<"asset", "id">>})
useDeleteAsset == Mutation("deleteAsset", {<<"assets">>})
useDisposeAsset == Mutation("disposeAsset", {<<"assets">>, <<"asset", "id">>})

-----------------------------------------------------------------------------
(* Categories, sites and custom fields *)
useCategories == Query(<<"categories">>, "listCategories")
useCreateCategory == Mutation("createCategory", {<<"categories">>})
useDeleteCategory == Mutation("deleteCategory", {<<"categories">>})
useSites == Query(<<"sites">>, "listSites")
useCreateSite == Mutation("createSite", {<<"sites">>})
useDeleteSite == Mutation("deleteSite", {<<"sites">>})
useLocations == Query(<<"locations", "site">>, "listLocations")
useCreateLocation == Mutation("createLocation", {<<"locations", "site">>})
useCustomFields == Query(<<"custom-fields">>, "listCustomFields")
useCreateCustomField == Mutation("createCustomField", {<<"custom-fields">>})
useUpdateCustomField == Mutation("updateCustomField", {<<"custom-fields">>})
useDeleteCustomField == Mutation("deleteCustomField", {<<"custom-fields">>})

-----------------------------------------------------------------------------
(* Work on the assets *)
useTransfers == Query(<<"transfers", "list">>, "listTransfers")
useCreateTransfer == Mutation("createTransfer", {<<"transfers">>, <<"assets">>})
useMaintenanceEvents == Query(<<"maintenance", "list">>, "listMaintenanceEvents")
useMaintenanceEvent == Query(<<"maintenance", "single", "id">>, "getMaintenanceEvent")
useCreateMaintenanceEvent == Mutation("createMaintenanceEvent", {<<"maintenance">>})

\* Mutant of useUpdateMaintenanceEvent: the list is forgotten.
updateMarksSingle ==
  Mutation("updateMaintenanceEvent", {<<"maintenance", "single", "id">>})

useUpdateMaintenanceEvent == Mutation("updateMaintenanceEvent", {<<"maintenance">>})
useDeleteMaintenanceEvent == Mutation("deleteMaintenanceEvent", {<<"maintenance">>})
useDocuments == Query(<<"documents", "asset">>, "listDocuments")
useUploadDocument == Mutation("uploadDocument", {<<"documents", "asset">>})
useDeleteDocument == Mutation("deleteDocument", {<<"documents", "asset">>})
useTimeline == Query(<<"timeline", "asset">>, "getAssetTimeline")
useExceptions == Query(<<"exceptions">>, "listExceptions")
useImportAssets == Mutation("bulkImportAssets", {<<"assets">>})

-----------------------------------------------------------------------------
(* Reports *)
useDepreciationRegister == Query(<<"reports", "depreciation">>, "depreciationRegister")
useFixedAssetRegister == Query(<<"reports", "fixed-assets">>, "fixedAssetRegister")
useDisposalReport == Query(<<"reports", "disposals">>, "disposalReport")
useAgingReport == Query(<<"reports", "aging">>, "assetAgingReport")

useMaintenanceCostReport ==
  Query(<<"reports", "maintenance-costs">>, "maintenanceCostReport")

-----------------------------------------------------------------------------
(* Alerts and webhooks *)
useAlertSubscriptions == Query(<<"alerts", "subscriptions">>, "listSubscriptions")
useSubscribeAlert == Mutation("upsertSubscription", {<<"alerts">>})
useToggleAlert == Mutation("toggleSubscription", {<<"alerts">>})
useUnsubscribeAlert == Mutation("deleteSubscription", {<<"alerts">>})
useWebhooks == Query(<<"webhooks">>, "listWebhooks")
useWebhookEvents == Query(<<"webhooks", "events">>, "webhookEvents")
useCreateWebhook == Mutation("createWebhook", {<<"webhooks">>})
useToggleWebhook == Mutation("toggleWebhook", {<<"webhooks">>})
useDeleteWebhook == Mutation("deleteWebhook", {<<"webhooks">>})

-----------------------------------------------------------------------------
(* The own account *)
useTwoFactorStatus == Query(<<"2fa", "status">>, "checkTwoFactorRequirement")
useSetupTwoFactor == Mutation("generateTwoFactorSetup", {})
useVerifyTwoFactor == Mutation("verifyAndEnableTwoFactor", {<<"2fa">>})
useDisableTwoFactor == Mutation("disableTwoFactor", {<<"2fa">>})

-----------------------------------------------------------------------------
(* Onboarding *)
useOnboardingProgress == Query(<<"onboarding", "progress">>, "getOnboardingProgress")
useCompany == Query(<<"onboarding", "company">>, "getCompany")
useCompleteUserStep == Mutation("completeUserRegistration", {<<"onboarding">>})
useCompleteCompanyStep == Mutation("registerCompany", {<<"onboarding">>})
useCompleteClientStep == Mutation("registerClient", {<<"onboarding">>})
useActivateLicence == Mutation("activateOnboardingLicence", {<<"onboarding">>})
useFinaliseOnboarding == Mutation("completeOnboarding", {<<"onboarding">>})

-----------------------------------------------------------------------------
(* Users and keys *)
useUsers == Query(<<"admin", "users">>, "listUsers")
useRoles == Query(<<"admin", "roles">>, "listRoles")

useUserPermissions ==
  Query(<<"admin", "user-permissions", "user">>, "getUserPermissionsView")

useApiKeys == Query(<<"admin", "api-keys">>, "listApiKeys")
useAuditEvents == Query(<<"admin", "audit-events", "all">>, "listAuditEvents")
useInviteUser == Mutation("inviteUser", {<<"admin", "users">>})
useResendInvite == Mutation("resendInvite", {})
useSetUserActive == Mutation("setUserActive", {<<"admin", "users">>})
useSetUserRole == Mutation("setUserRole", {<<"admin", "users">>})

useSetUserPermissions ==
  Mutation("setUserPermissionOverrides", {<<"admin", "user-permissions">>})

useCreateApiKey == Mutation("createApiKey", {<<"admin", "api-keys">>})
useRevokeApiKey == Mutation("revokeApiKey", {<<"admin", "api-keys">>})

-----------------------------------------------------------------------------
(* Licence and devices *)
useLicenceStatus == Query(<<"licence", "status">>, "getLicenceStatus")
useDevices == Query(<<"licence", "devices">>, "listDevices")
useAllLicences == Query(<<"licence", "all">>, "listLicences")
useRegisterDevice == Mutation("registerDevice", {<<"licence">>})
useActivateDevice == Mutation("activateDevice", {<<"licence">>})
useDeviceHeartbeat == Mutation("heartbeatDevice", {})
useDeactivateDevice == Mutation("deactivateDevice", {<<"licence">>})
useDeleteDevice == Mutation("deleteDevice", {<<"licence">>})
useRenewLicence == Mutation("confirmPaymentAndRenew", {<<"licence">>})
useChangeDuration == Mutation("changeDuration", {<<"licence">>})
useSuspendLicence == Mutation("suspendLicence", {<<"licence">>})
useRevokeLicence == Mutation("revokeLicence", {<<"licence">>})
useReactivateLicence == Mutation("reactivateLicence", {<<"licence">>})
useAddDeviceSlot == Mutation("addDeviceSlot", {<<"licence">>})

-----------------------------------------------------------------------------
(* Identification *)
useIdentification == Query(<<"identification">>, "getIdentification")
useGs1Prefixes == Query(<<"gs1-prefixes">>, "listPrefixes")
usePrefixPreview == Query(<<"gs1-prefix-preview", "prefix">>, "previewPrefix")
useAssetGs1 == Query(<<"asset-gs1", "asset">>, "assetGs1")
useUpdateIdentification == Mutation("updateIdentification", {<<"identification">>})
useCreateGs1Prefix == Mutation("createPrefix", {<<"gs1-prefixes">>})

useActivateGs1Prefix ==
  Mutation("activatePrefix", {<<"gs1-prefixes">>, <<"identification">>, <<"assets">>})

useSupersedeGs1Prefix ==
  Mutation("supersedePrefix", {<<"gs1-prefixes">>, <<"identification">>})

useWithdrawGs1Prefix == Mutation("withdrawPrefix", {<<"gs1-prefixes">>})

-----------------------------------------------------------------------------
(* Sub-tenants *)
useSubTenants == Query(<<"sub-tenants">>, "listSubTenants")
useSubTenant == Query(<<"sub-tenants", "id">>, "getSubTenant")
useCreateSubTenant == Mutation("createSubTenant", {<<"sub-tenants">>})

useUpdateSubTenantCompany ==
  Mutation("updateSubTenantCompany", {<<"sub-tenants">>, <<"sub-tenants", "id">>})

useUploadSubTenantLogo == Mutation("uploadSubTenantLogo", {<<"sub-tenants", "id">>})
useDeleteSubTenantLogo == Mutation("deleteSubTenantLogo", {<<"sub-tenants", "id">>})

-----------------------------------------------------------------------------
(* Labels *)
useLabelTemplates == Query(<<"label-templates">>, "listLabelTemplates")
useCompanyLogo == Query(<<"company", "logo">>, "getCompanyLogo")
useSaveLabelTemplate == Mutation("saveLabelTemplate", {<<"label-templates">>})
useDeleteLabelTemplate == Mutation("deleteLabelTemplate", {<<"label-templates">>})

useUploadCompanyLogo ==
  Mutation("uploadCompanyLogo", {<<"company", "logo">>, <<"onboarding", "company">>})

useDeleteCompanyLogo ==
  Mutation("deleteCompanyLogo", {<<"company", "logo">>, <<"onboarding", "company">>})
=============================================================================
