----------------------------- MODULE AdminPages -----------------------------
(***************************************************************************)
(* The platform admin app: its hooks, in the form of WebQueries, and its   *)
(* pages, in the form of WebPages.  All its changes go through             *)
(* useMutationWithToast, which marks one key as out of date.               *)
(***************************************************************************)
EXTENDS Routes

\* Five hooks give useMutationWithToast a list of keys where it takes one key:
\* a key whose first part is a list, which is the beginning of no query's key.
AsOneKey(keys) == {<<"list", "of", "keys">>}

-----------------------------------------------------------------------------
(* Tenants and users *)
useDashboardStats == Query(<<"admin", "stats">>, "getDashboardStats")
useTenants == Query(<<"admin", "tenants", "list">>, "listTenants")
useTenantDetail == Query(<<"admin", "tenant", "id">>, "getTenantDetail")
useCreateTenant == Mutation("adminCreateTenant", {<<"admin", "tenants">>})

useDeleteTenant ==
  Mutation("deleteTenant", AsOneKey(<<<<"admin", "tenants">>, <<"admin", "users">>,
    <<"admin", "stats">>>>))

useAllUsers == Query(<<"admin", "users", "list">>, "listAllUsers")
useResetPassword == Mutation("adminResetPassword", {<<"admin", "users">>})
useForcePasswordChange == Mutation("forcePasswordChange", {<<"admin", "users">>})
useDisableUserTwoFactor == Mutation("disableUserTwoFactor", {<<"admin", "users">>})
useUnlockUser == Mutation("unlockUser", {<<"admin", "users">>})

useUserPermissions ==
  Query(<<"admin", "user-permissions", "id">>, "platformPermissionsView")

useSetUserPermissions ==
  Mutation("platformPermissionOverrides", {<<"admin", "user-permissions">>})

useSetUserActive == Mutation("setUserActiveStatus", {<<"admin", "users">>})
useDeleteUser == Mutation("softDeleteUser", {<<"admin", "users">>})

-----------------------------------------------------------------------------
(* Onboarding a tenant, and its company *)
useTenantOnboarding ==
  Query(<<"admin", "tenant-onboarding", "id">>, "getTenantOnboarding")

useTenantOnboardingUserStep ==
  Mutation("onboardUser", {<<"admin", "tenant-onboarding", "id">>})

useTenantOnboardingCompanyStep ==
  Mutation("onboardCompany", {<<"admin", "tenant-onboarding", "id">>})

useTenantOnboardingClientStep ==
  Mutation("onboardClient", {<<"admin", "tenant-onboarding", "id">>})

useCreateSubTenant ==
  Mutation("platformSubTenant", AsOneKey(<<<<"admin", "tenant", "id">>, <<"admin",
    "tenants">>>>))

useUpdateTenantCompany ==
  Mutation("updateTenantCompany", AsOneKey(<<<<"admin", "tenant", "id">>, <<"admin",
    "tenants">>>>))

useUploadTenantLogo ==
  Mutation("putTenantLogo", AsOneKey(<<<<"admin", "tenant", "id">>>>))

useDeleteTenantLogo ==
  Mutation("deleteTenantLogo", AsOneKey(<<<<"admin", "tenant", "id">>>>))

useTenantOnboardingLicenceStep ==
  Mutation("onboardLicence", {<<"admin", "tenant-onboarding", "id">>})

useTenantOnboardingComplete ==
  Mutation("onboardComplete", {<<"admin", "tenant-onboarding", "id">>})

-----------------------------------------------------------------------------
(* Licences *)
useLicences == Query(<<"admin", "licences", "list">>, "listLicences")
useRenewLicence == Mutation("confirmPaymentAndRenew", {<<"admin", "licences">>})
useSuspendLicence == Mutation("suspendLicence", {<<"admin", "licences">>})
useRevokeLicence == Mutation("revokeLicence", {<<"admin", "licences">>})
useReactivateLicence == Mutation("reactivateLicence", {<<"admin", "licences">>})
useChangeDuration == Mutation("changeDuration", {<<"admin", "licences">>})
useAddDeviceSlot == Mutation("addDeviceSlot", {<<"admin", "licences">>})
useLicenceDevices == Query(<<"admin", "licence-devices", "id">>, "licenceDevices")
useActivateDevice == Mutation("activateLicenceDevice", {<<"admin", "licence-devices">>})

useDeactivateDevice ==
  Mutation("deactivateLicenceDevice", {<<"admin", "licence-devices">>})

useDeleteDevice == Mutation("deleteLicenceDevice", {<<"admin", "licence-devices">>})

-----------------------------------------------------------------------------
(* Releases, mail and the log *)
useIosReleases == Query(<<"admin", "ios-releases">>, "listIosReleases")
useUploadIosRelease == Mutation("publishIosRelease", {<<"admin", "ios-releases">>})
usePatchIosRelease == Mutation("patchIosRelease", {<<"admin", "ios-releases">>})
useDownloadIosRelease == Mutation("downloadIosRelease", {})
useDeleteIosRelease == Mutation("deleteIosRelease", {<<"admin", "ios-releases">>})
useIosDevices == Query(<<"admin", "ios-devices">>, "listIosDevices")
usePatchIosDevice == Mutation("patchIosDevice", {<<"admin", "ios-devices">>})
useDeleteIosDevice == Mutation("deleteIosDevice", {<<"admin", "ios-devices">>})
useMobileReleases == Query(<<"admin", "mobile-releases">>, "listAndroidReleases")

useUploadMobileRelease ==
  Mutation("publishAndroidRelease", {<<"admin", "mobile-releases">>})

usePatchMobileRelease ==
  Mutation("patchAndroidRelease", {<<"admin", "mobile-releases">>})

useDownloadMobileRelease == Mutation("downloadAndroidRelease", {})

useDeleteMobileRelease ==
  Mutation("deleteAndroidRelease", {<<"admin", "mobile-releases">>})

useSmtp == Query(<<"admin", "smtp">>, "getSmtpConfig")
useSaveSmtp == Mutation("upsertSmtpConfig", {<<"admin", "smtp">>})
useVerifySmtp == Mutation("verifySmtp", {<<"admin", "smtp">>})
useTestSmtp == Mutation("sendTestEmail", {<<"admin", "smtp">>})
useAuditLog == Query(<<"admin", "audit-log", "list">>, "listAuditEvents")
exportAuditCsv == Mutation("listAuditEventsForExport", {})

-----------------------------------------------------------------------------
\* Only the platform's own roles get past the sign-in and keep the profile the
\* router asks for.
RequireAdmin == requireRole(PLATFORM_ROLES)

-----------------------------------------------------------------------------
(* Tenants *)
DashboardPage == Screen("DashboardPage", RequireAdmin, Part({useDashboardStats}, {}))
TenantsPage == Screen("TenantsPage", RequireAdmin, Part({useTenants}, {}))

NewTenantWizardPage ==
  Screen("NewTenantWizardPage", RequireAdmin, Part({}, Asking(SignedIn,
    {useCreateTenant})))

CompanyCard ==
  Part({}, Asking(SignedIn, {useUpdateTenantCompany, useUploadTenantLogo,
    useDeleteTenantLogo}))

LicenceCard ==
  Part({}, Asking(SignedIn, {useRenewLicence, useSuspendLicence, useRevokeLicence,
                             useReactivateLicence}))

OverviewCard == Part({}, Asking(SignedIn, {useCreateSubTenant, useDeleteTenant}))

RegisteredDevicesCard ==
  Part({useLicenceDevices},
       Asking(SignedIn, {useActivateDevice, useDeactivateDevice, useDeleteDevice}))

TenantDetailPage ==
  Screen("TenantDetailPage", RequireAdmin,
         Joined({Part({useTenantDetail}, {}), CompanyCard, LicenceCard, OverviewCard,
                 RegisteredDevicesCard}))

UserStep == Part({}, Asking(SignedIn, {useTenantOnboardingUserStep}))
CompanyStep == Part({}, Asking(SignedIn, {useTenantOnboardingCompanyStep}))
ClientStep == Part({}, Asking(SignedIn, {useTenantOnboardingClientStep}))

LicenceStep ==
  Part({}, Asking(SignedIn, {useTenantOnboardingLicenceStep,
    useTenantOnboardingComplete}))

TenantOnboardingPage ==
  Screen("TenantOnboardingPage", RequireAdmin,
         Joined({Part({useTenantDetail, useTenantOnboarding}, {}), UserStep, CompanyStep,
                 ClientStep, LicenceStep}))

-----------------------------------------------------------------------------
(* Users *)
UsersPage ==
  Screen("UsersPage", RequireAdmin,
         Part({useAllUsers},
              Asking(SignedIn, {useResetPassword, useUnlockUser, useSetUserActive,
                                useDeleteUser, useForcePasswordChange})))

UserDetailPage ==
  Screen("UserDetailPage", RequireAdmin,
         Part({useAllUsers, useUserPermissions},
              Asking(hasAnyPermission({"user:write"}),
                     {useSetUserPermissions, useForcePasswordChange, useResetPassword})
              \cup Asking(requireRole({"Platform Super Admin"}), {useDisableUserTwoFactor})))

-----------------------------------------------------------------------------
(* Licences, releases and mail *)
LicencesPage ==
  Screen("LicencesPage", RequireAdmin,
         Part({useLicences},
              Asking(SignedIn, {useRenewLicence, useSuspendLicence, useRevokeLicence,
                                useReactivateLicence, useAddDeviceSlot})))

MobileReleasesPage ==
  Screen("MobileReleasesPage", RequireAdmin,
         Part({useMobileReleases},
              Asking(SignedIn, {useUploadMobileRelease, usePatchMobileRelease,
                                useDeleteMobileRelease, useDownloadMobileRelease})))

IosDevices ==
  Part({useIosDevices}, Asking(SignedIn, {usePatchIosDevice, useDeleteIosDevice}))

IosReleasesPage ==
  Screen("IosReleasesPage", RequireAdmin,
         Joined({IosDevices,
                 Part({useIosReleases},
                      Asking(SignedIn, {useUploadIosRelease, usePatchIosRelease,
                                        useDeleteIosRelease, useDownloadIosRelease}))}))

SmtpPage ==
  Screen("SmtpPage", RequireAdmin,
         Part({useSmtp}, Asking(SignedIn, {useSaveSmtp, useVerifySmtp, useTestSmtp})))

AuditLogPage ==
  Screen("AuditLogPage", RequireAdmin, Part({useAuditLog}, Asking(SignedIn,
    {exportAuditCsv})))

ChangePasswordPage ==
  Screen("ChangePasswordPage", RequireAdmin, Part({}, Asking(SignedIn,
    {Mutation("changeOwnPassword", {})})))

-----------------------------------------------------------------------------
AllPages ==
  {DashboardPage, TenantsPage, NewTenantWizardPage, TenantDetailPage,
   TenantOnboardingPage, UsersPage, UserDetailPage, LicencesPage, MobileReleasesPage,
   IosReleasesPage, SmtpPage, AuditLogPage, ChangePasswordPage}

\* Where a page leads when what it offers has been done.
Onward ==
  {<<"NewTenantWizardPage", "TenantsPage">>, <<"TenantDetailPage", "TenantsPage">>,
   <<"TenantOnboardingPage", "TenantDetailPage">>}
=============================================================================
