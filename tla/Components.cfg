SPECIFICATION Spec
CONSTANTS
  Requests = {r1, r2}
  MaxLicences = 2
  MaxDay = 3
  MaxDate = 2
  MaxTerm = 1
  Warning = 1
  Grace = 1
  Browsers = {b1}
  Handhelds = {x1, x2}
  DevRows = {1, 2, 3}
  MaxAllowance = 2
  LoginIds = {acme}
  CuidIds = {cuid}
  None = none
  MaxFailed = 2
  TfCodes = {c1, c2}
  MaxSetups = 2
  Places = {x1, x2}
  MaxLoans = 3
  MaxOrders = 3
  MaxNumber = 3
  Typed = {3, 4}
  Deliveries = {e1}
  Attempts = 3
  Users = {x1, x2}
  Types = {warranty}
  Guard = 1
  MaxHour = 3
  Roles = {x1, x2, x3}
  MaxInvites = 3
  PhotoLimit = 1
  MaxPhotos = 1
  Works = 1
  MaxStored = 3
  Tags = {x1, x2}
  Screens = {1, 2}
  Posts = {"Viewer", "Company Admin"}
  Extras = {"asset:write"}
  SubTenants = {"child"}
  Numbers = {x1, x2}
  MaxPrefixes = 3
  MaxWrites = 2
  Versions = {1, 2}
  Retention = 1
  MaxUploads = 2
  MaxFiles = 1
  EventPhotos = 1
  Extensions = {x1, x2}
  RowIds = {1}
  MailJobs = {x1, x2}
  Tries = 2
  CacheTime = 1
  AlertWindow = 2
  MaxMoment = 2
  Details = {"site", "documents"}
  Chips = {e1}
  TagAssets = {x1, x2}
  MaxDeeds = 2
SYMMETRY Symmetry
CHECK_DEADLOCK FALSE
INVARIANTS
  TypeOK
  RegisterHolds
  PhotosHold
  AccountsHold
  
  GiaisHold
  OffersHold
  PagesHold
  ReleasesHold
  
  ReportsHold
PROPERTIES
  LicencesHold
  AllowanceHolds
  TenantsEndWhole
  
  SecondFactorHolds
  MessagesHold
