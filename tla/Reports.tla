------------------------------ MODULE Reports ------------------------------
(***************************************************************************)
(* The reports, the lists of exceptions and the digests: each counts rows  *)
(* of a few tables with conditions of its own, written once per report.    *)
(* A report is the set of its queries, a query reads one table at once and *)
(* prints some figures, and a figure is the set of rows that it counts.    *)
(* One table is looked at; its rows are written as the handlers write      *)
(* them, each row by itself, and time passes.  The filters a caller may    *)
(* add, limits on the length of a list, sums, ages, names and layout are   *)
(* left out.                                                               *)
(***************************************************************************)
EXTENDS Handlers

CONSTANTS
  RowIds,      \* bound: rows of a table
  Details      \* bound: what an asset may have or lack, of the names below

ASSUME ReportsAssumption == IsFiniteSet(RowIds) /\ IsFiniteSet(Details)

VARIABLES
  table,       \* the table that is looked at
  tab          \* its rows, or EmptyRow

repVars == <<table, tab>>

-----------------------------------------------------------------------------
(* The rows, as far as a report tells them apart. *)

\* Where a date lies: a day or more ago, less than a day ago, within thirty days.
Nearness == {"none", "past", "today", "soon", "later"}
Over     == {"past", "today"}
Closer(date) ==
  CASE date = "later" -> "soon" [] date = "soon" -> "today" [] date = "today" -> "past"
    [] OTHER -> date

\* Conditions and the status of maintenance are not validated: the pages offer
\* the values that the code names, a client of the API or a file may have others.
Conditions == {"new", "good", "fair", "poor", "damaged"}
MaintenanceStates == {"scheduled", "in_progress", "completed", "cancelled", "overdue"}
Classifications == {"verified", "misplaced", "missing", "surplus", "condition_variance"}

AssetsRow ==
  [deleted : BOOLEAN, disposed : BOOLEAN, condition : Conditions \cup {"other"},
   warranty : Nearness, has : SUBSET Details]
CheckoutRow    == [returned : BOOLEAN, due : Nearness]
MaintenanceRow == [status : MaintenanceStates, due : Nearness]
ItemRow        == [classification : Classifications]
ScanRow        == [result : {"found", "unknown"}]
CampaignRow    == [status : {"draft", "in_progress", "completed"}]
LicenceRow ==
  [status : {"active", "expiring", "expired", "suspended", "revoked"}, due : Nearness]
DeviceRow      == [active : BOOLEAN]
UsersRow       == [active : BOOLEAN, overridden : BOOLEAN]
PlainRow       == [kind : {"row"}]

RowsOf ==
  [assets |-> AssetsRow, checkouts |-> CheckoutRow, maintenance |-> MaintenanceRow,
   items |-> ItemRow, scans |-> ScanRow, campaigns |-> CampaignRow, licences |-> LicenceRow,
   devices |-> DeviceRow, users |-> UsersRow, subscriptions |-> DeviceRow,
   disposals |-> PlainRow, transfers |-> PlainRow, events |-> PlainRow, clients |-> PlainRow]
Tables == DOMAIN RowsOf
EmptyRow == [kind |-> "none"]

LiveAssets    == {a \in AssetsRow : ~a.deleted}
InUse         == {a \in LiveAssets : ~a.disposed}
With(d)       == {a \in LiveAssets : d \in a.has}
In(c)         == {a \in LiveAssets : a.condition = c}
OutOfWarranty == {a \in LiveAssets : a.warranty \in Over}
OpenLoans     == {c \in CheckoutRow : ~c.returned}
OverdueLoans  == {c \in OpenLoans : c.due \in Over}
OverdueWork   == {m \in MaintenanceRow : m.status = "scheduled" /\ m.due \in Over}
PlannedWork   == {m \in MaintenanceRow : m.status \in {"scheduled", "in_progress", "overdue"}}
Classed(c)    == {i \in ItemRow : i.classification = c}
Scanned(c)    == {s \in ScanRow : s.result = c}
LicencesIn(states) == {l \in LicenceRow : l.status \in states}
ActiveDevices == {d \in DeviceRow : d.active}
ActiveUsers   == {u \in UsersRow : u.active}

\* What the status of a licence becomes when it is read by itself.
computeStatus(l) ==
  CASE l.status \in {"suspended", "revoked"} -> l.status
    [] l.due \in Over -> "expired"
    [] l.due = "soon" -> "expiring"
    [] OTHER -> "active"
Computed(l) == [l EXCEPT !.status = computeStatus(l)]

-----------------------------------------------------------------------------
(* The writers of the tables. *)

RepInit == table \in Tables /\ tab = [i \in RowIds |-> EmptyRow]

PutRow(i, row) == tab' = [tab EXCEPT ![i] = row] /\ UNCHANGED table
AddRow(t, i, new) == table = t /\ tab[i] = EmptyRow /\ \E row \in new : PutRow(i, row)
EditRow(t, i, from, to) == table = t /\ tab[i] \in from /\ \E row \in to : PutRow(i, row)

WriteAssetRow(i) ==
  \/ AddRow("assets", i, InUse)
  \/ EditRow("assets", i, LiveAssets, LiveAssets)
  \/ EditRow("assets", i, LiveAssets, {[tab[i] EXCEPT !.deleted = TRUE]})

WriteCheckout(i) ==
  \/ AddRow("checkouts", i, OpenLoans)
  \/ EditRow("checkouts", i, OpenLoans, {[tab[i] EXCEPT !.returned = TRUE]})

WriteMaintenance(i) ==
  \/ AddRow("maintenance", i, MaintenanceRow)
  \/ EditRow("maintenance", i, MaintenanceRow, MaintenanceRow \cup {EmptyRow})

WriteAudit(i) ==
  \/ AddRow("items", i, ItemRow)
  \/ AddRow("scans", i, ScanRow)
  \/ AddRow("campaigns", i, {[status |-> "draft"]})
  \/ EditRow("campaigns", i, {[status |-> "draft"]}, {[status |-> "in_progress"]})
  \/ EditRow("campaigns", i, {[status |-> "in_progress"]}, {[status |-> "completed"]})

\* Renewed, its duration changed, suspended, revoked, reactivated, or only read;
\* then the newest licence is read by itself: this one, or another of the tenant.
Handled(l) ==
  {[status |-> "active", due |-> d] : d \in IF l.due = "none" THEN {} ELSE {"soon", "later"}}
  \cup {[l EXCEPT !.due = d] : d \in IF l.due = "none" THEN {} ELSE Nearness \ {"none"}}
  \cup {[l EXCEPT !.status = s] :
          s \in {"suspended", "revoked"} \cup IF l.status = "suspended" THEN {"active"} ELSE {}}
WriteLicence(i) ==
  \/ AddRow("licences", i, {[status |-> "active", due |-> d] : d \in {"none", "later"}})
  \/ \E l \in LicenceRow :
       /\ tab[i] = l
       /\ EditRow("licences", i, {l},
            Handled(l) \cup {Computed(k) : k \in Handled(l) \cup {l}})

\* Devices, and subscriptions to alerts.
WriteDevice(i) ==
  \E t \in {"devices", "subscriptions"} :
    AddRow(t, i, DeviceRow) \/ EditRow(t, i, DeviceRow, DeviceRow \cup {EmptyRow})

WriteUser(i) == AddRow("users", i, UsersRow) \/ EditRow("users", i, UsersRow, UsersRow)

\* Rows that are written once.
WriteOther(i) ==
  \E t \in {"disposals", "transfers", "events", "clients"} : AddRow(t, i, PlainRow)

\* A date comes closer.
PassDate(i) ==
  \/ EditRow("assets", i, AssetsRow, {[tab[i] EXCEPT !.warranty = Closer(@)]})
  \/ \E t \in {"checkouts", "maintenance", "licences"} :
       EditRow(t, i, RowsOf[t], {[tab[i] EXCEPT !.due = Closer(@)]})

RepNext ==
  \E i \in RowIds :
    \/ WriteAssetRow(i) \/ WriteCheckout(i) \/ WriteMaintenance(i) \/ WriteAudit(i)
    \/ WriteLicence(i) \/ WriteDevice(i) \/ WriteUser(i) \/ WriteOther(i) \/ PassDate(i)

RepTypeOK ==
  /\ table \in Tables
  /\ tab \in [RowIds -> {EmptyRow} \cup RowsOf[table]]

-----------------------------------------------------------------------------
(* The reports. *)

Figure(name, counted) == [name |-> name, counted |-> counted]

\* A query whose figures stand by themselves, and one that also says of each row
\* of a total to which class it belongs.
Counts(name, t, figures) ==
  [of |-> name, table |-> t, figures |-> figures, total |-> {}, classes |-> {}]
Breakdown(name, t, total, figures, classes) ==
  [of |-> name, table |-> t, figures |-> figures \cup classes \cup {total},
   total |-> total.counted, classes |-> classes]

exportFixedAssetRegister ==
  {Counts("fixed-asset-register", "assets", {Figure("assets", LiveAssets)})}

exportDepreciationSchedule ==
  {Counts("depreciation-schedule", "assets", {Figure("depreciating", With("depreciation"))})}

exportAssetAging ==
  {Counts("asset-aging", "assets", {Figure("dated", With("purchase"))})}

exportAssetValuationSummary ==
  {Counts("asset-valuation-summary", "assets", {Figure("assets", LiveAssets)})}

exportAssetMovementHistory ==
  {Counts("asset-movement-history", "transfers", {Figure("transfers", PlainRow)}),
   Counts("asset-movement-history", "checkouts", {Figure("checkouts", CheckoutRow)})}

exportAssetCondition ==
  {Breakdown("asset-condition", "assets", Figure("assets", LiveAssets), {},
     {Figure(c, In(c)) : c \in Conditions})}

exportCustomFields ==
  {Counts("custom-fields", "assets", {Figure("assets", LiveAssets)})}

exportDisposalRegister ==
  {Counts("disposal-register", "disposals", {Figure("disposals", PlainRow)})}

exportDisposalGainLoss ==
  {Counts("disposal-gain-loss", "disposals", {Figure("disposals", PlainRow)})}

exportDisposalByMethod ==
  {Counts("disposal-by-method", "disposals", {Figure("disposals", PlainRow)})}

\* Its "matched" and "unexpected" are values that nobody gives an item.
exportAuditCampaignSummary ==
  {Counts("audit-campaign-summary", "campaigns", {Figure("campaigns", CampaignRow)}),
   Counts("audit-campaign-summary", "scans", {Figure("scans", ScanRow)}),
   Counts("audit-campaign-summary", "items",
     {Figure(c, Classed(c)) : c \in {"matched", "missing", "unexpected"}})}

\* So are "matched", "moved" and "unexpected" here ...
exportAuditReconciliation ==
  {Breakdown("audit-reconciliation", "items", Figure("items", ItemRow), {},
     {Figure(c, Classed(c)) : c \in {"matched", "missing", "moved", "unexpected"}})}

\* ... and "matched" of a scan.
exportAuditScanLog ==
  {Breakdown("audit-scan-log", "scans", Figure("scans", ScanRow), {},
     {Figure(c, Scanned(c)) : c \in {"matched", "unknown"}})}

exportMaintenanceLog ==
  {Counts("maintenance-log", "maintenance", {Figure("maintenance", MaintenanceRow)})}

exportMaintenanceCostSummary ==
  {Counts("maintenance-cost-summary", "maintenance",
     {Figure("maintenance", MaintenanceRow), Figure("costs", MaintenanceRow)})}

\* The days until an event are rounded up: less than a day late is not late.
exportMaintenanceSchedule ==
  {Breakdown("maintenance-schedule", "maintenance", Figure("planned", PlannedWork), {},
     {Figure("overdueWork", {m \in PlannedWork : m.due = "past"}),
      Figure("upcoming", {m \in PlannedWork : m.due \in {"today", "soon", "later"}})})}

exportCheckoutLog ==
  {Breakdown("checkout-log", "checkouts", Figure("checkouts", CheckoutRow),
     {Figure("open", OpenLoans)},
     {Figure("returned", CheckoutRow \ OpenLoans), Figure("overdueLoans", OverdueLoans),
      Figure("out", OpenLoans \ OverdueLoans)})}

\* Mutant: what was due less than a day ago is not overdue.
exportCurrentCheckoutsByDay ==
  {Counts("current-checkouts", "checkouts",
     {Figure("open", OpenLoans), Figure("overdueLoans", {c \in OpenLoans : c.due = "past"})})}

exportCurrentCheckouts ==
  {Counts("current-checkouts", "checkouts",
     {Figure("open", OpenLoans), Figure("overdueLoans", OverdueLoans)})}

exportCheckoutHistoryByAsset ==
  {Counts("checkout-history-by-asset", "checkouts", {Figure("checkouts", CheckoutRow)})}

exportLicenceRegister ==
  {Counts("licence-register", "licences",
     {Figure("licences", LicenceRow), Figure("activeLicences", LicencesIn({"active"})),
      Figure("expiredLicences", LicencesIn({"expired"}))}),
   Counts("licence-register", "devices", {Figure("devicesUsed", DeviceRow)})}

\* By the dates, of the licences that are not barred.
exportLicenceExpiry ==
  LET Dated == LicencesIn({"active", "expiring", "expired"})
  IN {Counts("licence-expiry", "licences",
        {Figure("expiringLicences", {l \in Dated : l.due \in {"today", "soon"}}),
         Figure("expiredLicences", {l \in Dated : l.due = "past"})})}

exportDeviceAllocation ==
  {Counts("device-allocation", "devices",
     {Figure("devices", DeviceRow), Figure("devicesUsed", ActiveDevices)})}

\* _count: all the rows of assets, also of the deleted ones.
exportTenantRegister ==
  {Counts("tenant-register", "assets", {Figure("assets", AssetsRow)}),
   Counts("tenant-register", "users", {Figure("users", UsersRow)})}

exportTenantActivity ==
  {Counts("tenant-activity", "assets", {Figure("assets", AssetsRow)}),
   Counts("tenant-activity", "users", {Figure("users", UsersRow)}),
   Counts("tenant-activity", "campaigns", {Figure("campaigns", CampaignRow)}),
   Counts("tenant-activity", "checkouts", {Figure("checkouts", CheckoutRow)}),
   Counts("tenant-activity", "maintenance", {Figure("maintenance", MaintenanceRow)}),
   Counts("tenant-activity", "disposals", {Figure("disposals", PlainRow)})}

exportUserRegister ==
  {Counts("user-register", "users",
     {Figure("users", UsersRow), Figure("activeUsers", ActiveUsers)})}

exportUserAccessReport ==
  {Counts("user-access-report", "users",
     {Figure("users", UsersRow), Figure("overridden", {u \in UsersRow : u.overridden})})}

exportUserActivityLog ==
  {Counts("user-activity-log", "events", {Figure("events", PlainRow)})}

exportAlertSubscriptions ==
  {Counts("alert-subscriptions", "subscriptions",
     {Figure("subscriptions", DeviceRow), Figure("activeSubscriptions", ActiveDevices)})}

exportCompanyProfile ==
  {Counts("company-profile", "clients", {Figure("clients", PlainRow)})}

exportExceptionSummary ==
  {Counts("exception-summary", "assets", {Figure("warrantyEnding",
     {a \in LiveAssets : a.warranty = "soon"})}),
   Counts("exception-summary", "assets", {Figure("outOfWarranty", OutOfWarranty)}),
   Counts("exception-summary", "checkouts", {Figure("overdueLoans", OverdueLoans)}),
   Counts("exception-summary", "maintenance", {Figure("overdueWork", OverdueWork)}),
   Counts("exception-summary", "licences", {Figure("endingLicences",
     LicencesIn({"expiring", "expired"}))}),
   Counts("exception-summary", "assets", {Figure("worn",
     {a \in LiveAssets : a.condition \in {"poor", "damaged"}})})}

exportComplianceOverview ==
  {Counts("compliance-overview", "assets", {Figure("assets", LiveAssets)}),
   Counts("compliance-overview", "assets", {Figure("tagged", With("barcode"))}),
   Counts("compliance-overview", "assets", {Figure("categorised", With("category"))}),
   Counts("compliance-overview", "assets", {Figure("located", With("site"))}),
   Counts("compliance-overview", "assets", {Figure("warranties",
     {a \in LiveAssets : a.warranty # "none"})}),
   Counts("compliance-overview", "assets", {Figure("outOfWarranty", OutOfWarranty)}),
   Counts("compliance-overview", "checkouts", {Figure("checkouts", CheckoutRow)}),
   Counts("compliance-overview", "checkouts", {Figure("overdueLoans", OverdueLoans)}),
   Counts("compliance-overview", "maintenance", {Figure("maintenance", MaintenanceRow)}),
   Counts("compliance-overview", "maintenance", {Figure("overdueWork", OverdueWork)}),
   Counts("compliance-overview", "campaigns", {Figure("campaigns", CampaignRow)}),
   Counts("compliance-overview", "campaigns", {Figure("completedCampaigns",
     {c \in CampaignRow : c.status = "completed"})})}

-----------------------------------------------------------------------------
(* What is counted elsewhere under the same names. *)

\* The four lists of exceptions, as the page and the worker's digests count them.
CountedExceptions(name) ==
  {Counts(name, "assets", {Figure("undocumented", InUse \ With("documents"))}),
   Counts(name, "maintenance", {Figure("overdueWork", OverdueWork)}),
   Counts(name, "assets", {Figure("outOfWarranty", InUse \cap OutOfWarranty)}),
   Counts(name, "assets", {Figure("unlocated", InUse \ With("site"))})}

\* The page reads them twice: the numbers, and the first twenty rows.
exceptionsRouter == CountedExceptions("exceptions") \cup CountedExceptions("exceptions-listed")
countExceptions  == CountedExceptions("digest")

maintenanceCostReport ==
  {Counts("maintenance-costs", "maintenance",
     {Figure("costs", {m \in MaintenanceRow : m.status = "completed"})})}

disposalReport ==
  {Counts("disposals", "disposals", {Figure("disposals", PlainRow)})}

getAssetStats ==
  {Breakdown("stats", "assets", Figure("assets", LiveAssets), {},
     {Figure(c, In(c)) : c \in Conditions \cup {"other"}})}

listActiveCheckouts ==
  {Counts("active-loans", "checkouts", {Figure("open", OpenLoans)})}

getOverdueCheckouts ==
  {Counts("overdue-loans", "checkouts", {Figure("overdueLoans", OverdueLoans)})}

getLicenceStatus ==
  {Counts("licence", "assets", {Figure("assets", LiveAssets)}),
   Counts("licence", "devices", {Figure("devicesUsed", ActiveDevices)})}

storageMetering ==
  {Counts("metering", "assets", {Figure("assets", LiveAssets)}),
   Counts("metering", "users", {Figure("activeUsers", ActiveUsers)})}

EXPORTERS ==
  exportFixedAssetRegister \cup exportDepreciationSchedule \cup exportAssetAging
    \cup exportAssetValuationSummary \cup exportAssetMovementHistory \cup exportAssetCondition
    \cup exportCustomFields \cup exportDisposalRegister \cup exportDisposalGainLoss
    \cup exportDisposalByMethod \cup exportAuditCampaignSummary \cup exportAuditReconciliation
    \cup exportAuditScanLog \cup exportMaintenanceLog \cup exportMaintenanceCostSummary
    \cup exportMaintenanceSchedule \cup exportCheckoutLog \cup exportCurrentCheckouts
    \cup exportCheckoutHistoryByAsset \cup exportLicenceRegister \cup exportLicenceExpiry
    \cup exportDeviceAllocation \cup exportTenantRegister \cup exportTenantActivity
    \cup exportUserRegister \cup exportUserAccessReport \cup exportUserActivityLog
    \cup exportExceptionSummary \cup exportAlertSubscriptions \cup exportCompanyProfile
    \cup exportComplianceOverview
Queries ==
  EXPORTERS \cup exceptionsRouter \cup countExceptions \cup maintenanceCostReport
    \cup disposalReport \cup getAssetStats \cup listActiveCheckouts
    \cup getOverdueCheckouts \cup getLicenceStatus \cup storageMetering

-----------------------------------------------------------------------------
(* Properties. *)

\* The rows on which two figures of one name do differ: the deleted assets, which
\* the platform's reports count; the disposed ones, which are no exception; work
\* that is late by less than a day, has begun or was called overdue by a client;
\* the costs of work that is not completed; devices without a slot; and licences
\* whose status was not read since their date passed, or passed less than a day ago.
Differing(name) ==
  CASE name = "assets" -> {a \in AssetsRow : a.deleted}
    [] name = "outOfWarranty" -> {a \in LiveAssets : a.disposed}
    [] name = "overdueWork" -> {m \in PlannedWork : m.status # "scheduled" \/ m.due = "today"}
    [] name = "costs" -> {m \in MaintenanceRow : m.status # "completed"}
    [] name = "devicesUsed" -> DeviceRow \ ActiveDevices
    [] name = "expiredLicences" -> {l \in LicenceRow : l.due = "today" \/ Computed(l) # l}
    [] OTHER -> {}

\* Two reports that name a figure alike count the same rows, but for those.
FiguresAgree ==
  \A p, q \in Queries :
    p.table = table /\ q.table = table =>
      \A f \in p.figures, g \in q.figures : f.name = g.name =>
        \A i \in RowIds : tab[i] \notin Differing(f.name) =>
          (tab[i] \in f.counted <=> tab[i] \in g.counted)

\* What a breakdown leaves out: a condition that the code does not name, work
\* without a date, and every result of an audit but the missing assets and the
\* unknown tags: the reports look for words that the audits do not use.
Unclassed(of) ==
  CASE of = "asset-condition" -> In("other")
    [] of = "audit-reconciliation" -> ItemRow \ Classed("missing")
    [] of = "audit-scan-log" -> Scanned("found")
    [] of = "maintenance-schedule" -> {m \in PlannedWork : m.due = "none"}
    [] OTHER -> {}

\* Every other row of a total is in one of its classes, and in one alone.
TotalsAddUp ==
  \A q \in Queries : q.table = table =>
    \A i \in RowIds : tab[i] \in q.total \ Unclassed(q.of) =>
      \E c \in q.classes :
        tab[i] \in c.counted /\ \A d \in q.classes : tab[i] \in d.counted => d = c

\* The percentages of the overview: a part, and what it is a part of.
Shares ==
  {<<"tagged", "assets">>, <<"categorised", "assets">>, <<"located", "assets">>,
   <<"outOfWarranty", "warranties">>, <<"overdueLoans", "checkouts">>,
   <<"overdueWork", "maintenance">>, <<"completedCampaigns", "campaigns">>}
SharesFit ==
  \A p, q \in exportComplianceOverview :
    p.table = table /\ q.table = table =>
      \A f \in p.figures, g \in q.figures : <<f.name, g.name>> \in Shares =>
        \A i \in RowIds : tab[i] \in f.counted => tab[i] \in g.counted

FiguresHold == FiguresAgree /\ TotalsAddUp /\ SharesFit
=============================================================================
