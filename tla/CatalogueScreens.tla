--------------------------- MODULE CatalogueScreens ---------------------------
(***************************************************************************)
(* The admin console's screens of the catalogue: taxes, add-ons, coupons,   *)
(* plans, metrics and features.                                             *)
(***************************************************************************)
EXTENDS ApiClient, Screens

-----------------------------------------------------------------------------
(* Taxes (pages/admin/TaxesPage.tsx)                                         *)

\* The dialog is remounted when the code of the tax it edits changes; while
\* it is not editing, its key stays "new".
TaxFormDialog == Form({"new", "row"}, TRUE, "key", {}, "answer", TRUE)

\* The entity to apply the tax to is state of a dialog that the page mounts
\* once: it is still there for the next tax.
ApplyTaxDialog == Form({"row"}, FALSE, "mount", {}, "answer", TRUE)

AppliedEntitiesRow ==
  While(Query(<<"taxes", "applied_entities">>, taxesApi["appliedEntities"]))

TaxRowActions == {"edit", "apply", "delete"}

\* Every success invalidates the key 'taxes' alone, which as a prefix also
\* takes the applied entities of the expanded rows.
TaxesPage ==
  Screen([taxes     |-> Query(<<"taxes">>, taxesApi["listPaginated"]),
          entities  |-> AppliedEntitiesRow,
          customers |-> Query(<<"customers">>, customersApi["list"]),
          invoices  |-> Query(<<"invoices">>, invoicesApi["list"]),
          plans     |-> Query(<<"plans">>, plansApi["list"])],
         [create |-> Call(taxesApi["create"], {<<"taxes">>}, {}),
          update |-> Call(taxesApi["update"], {<<"taxes">>}, {"row"}),
          delete |-> Call(taxesApi["delete"], {<<"taxes">>}, {"row", "open"}),
          apply  |-> Call(taxesApi["apply"], {<<"taxes">>}, {"row"})])

\* The page searches and filters the rows it was answered.
TaxesTable == Table({}, {"search", "scope", "category"}, {"pageSize"}, "all")

-----------------------------------------------------------------------------
(* Add-ons (pages/admin/AddOnsPage.tsx)                                      *)

\* No key and no effect: the inputs are seeded when the page mounts, when no
\* add-on is being edited.
AddOnFormDialog == Form({"new", "row"}, TRUE, "mount", {}, "answer", TRUE)

ApplyAddOnDialog == Form({"row"}, FALSE, "mount", {}, "answer", TRUE)

ApplicationHistoryDialog ==
  While(Query(<<"add-on-applications">>, addOnsApi["applications"]))

AddOnsPage ==
  Screen([addOns    |-> Query(<<"add-ons">>, addOnsApi["listPaginated"]),
          customers |-> Query(<<"customers">>, customersApi["list"]),
          counts    |-> Query(<<"add-on-application-counts">>, addOnsApi["applicationCounts"]),
          history   |-> ApplicationHistoryDialog],
         [create |-> Call(addOnsApi["create"], {<<"add-ons">>}, {}),
          update |-> Call(addOnsApi["update"], {<<"add-ons">>}, {"row"}),
          delete |-> Call(addOnsApi["delete"],
                          {<<"add-ons">>, <<"add-on-application-counts">>}, {"row", "open"}),
          apply  |-> Call(addOnsApi["apply"], {<<"add-on-application-counts">>}, {"row"})])

AddOnsTable == Table({}, {"search"}, {"pageSize"}, "all")

-----------------------------------------------------------------------------
(* Coupons (pages/admin/CouponsPage.tsx)                                     *)

CouponFormDialog == Form({"new", "row"}, TRUE, "mount", {}, "answer", TRUE)

ApplyCouponDialog == Form({"row"}, FALSE, "mount", {}, "answer", TRUE)

AppliedCouponsDialog ==
  Screen([applied |-> While(Query(<<"applied-coupons-all">>,
                                  customersApi["getAppliedCoupons"]))],
         [remove |-> Call(couponsApi["removeApplied"],
                          {<<"applied-coupons-all">>, <<"coupon-analytics">>}, {"row"})])

CouponsPage ==
  Screen([coupons   |-> Query(<<"coupons">>, couponsApi["listPaginated"]),
          customers |-> Query(<<"customers">>, customersApi["list"]),
          analytics |-> While(Query(<<"coupon-analytics">>, couponsApi["analytics"]))],
         [create    |-> Call(couponsApi["create"], {<<"coupons">>}, {}),
          update    |-> Call(couponsApi["update"], {<<"coupons">>}, {"row"}),
          terminate |-> Call(couponsApi["terminate"], {<<"coupons">>}, {"row", "open"}),
          duplicate |-> Call(couponsApi["duplicate"], {<<"coupons">>}, {"row", "open"}),
          apply     |-> Call(couponsApi["apply"],
                             {<<"applied-coupons-all">>, <<"coupon-analytics">>}, {"row"})])

\* The status is sent to the server, and changing it keeps the page.
CouponsTable == Table({"status"}, {"search"}, {"pageSize"}, "all")

\* The changes a coupon's menu offers.
CouponOffers == [active     |-> {"update", "apply", "duplicate", "terminate"},
                 terminated |-> {}]

-----------------------------------------------------------------------------
(* Plans (pages/admin/PlansPage.tsx, PlanDetailPage.tsx, PlanFormPage.tsx)   *)

PlansPage ==
  Screen([plans  |-> Query(<<"plans">>, plansApi["list"]),
          counts |-> Query(<<"plan-subscription-counts">>, plansApi["subscriptionCounts"])],
         [delete |-> Call(plansApi["delete"], {<<"plans">>}, {"row", "open"})])

\* The first thousand plans, as cards without filters.
PlansList == WholeList({})

\* What both the detail and the form of a plan ask about it: its parts are
\* asked by its code, once it has been answered.
PlanQueries ==
  [plan        |-> While(Query(<<"plan">>, plansApi["get"])),
   metrics     |-> Query(<<"billable-metrics">>, billableMetricsApi["list"]),
   commitments |-> While(Query(<<"commitments">>, commitmentsApi["listForPlan"])),
   thresholds  |-> While(Query(<<"plan-thresholds">>, usageThresholdsApi["listForPlan"]))]

\* The detail also shows the plan's entitlements, and those of the first
\* thousand subscriptions of the organization that are on it.
PlanDetailQueries ==
  [entitlements  |-> While(Query(<<"plan-entitlements">>, entitlementsApi["list"])),
   features      |-> While(Query(<<"features">>, featuresApi["list"])),
   subscriptions |-> Query(<<"subscriptions">>, subscriptionsApi["list"]),
   customers     |-> While(Query(<<"customers-for-plan">>, customersApi["get"])),
   audit         |-> Query(<<"audit-trail">>, auditLogsApi["getForResource"])]

CommitmentCalls ==
  [createCommitment |-> Call(commitmentsApi["createForPlan"], {<<"commitments">>}, {"row"}),
   updateCommitment |-> Call(commitmentsApi["update"], {<<"commitments">>}, {"row"}),
   deleteCommitment |-> Call(commitmentsApi["delete"], {<<"commitments">>}, {"row", "open"})]

ThresholdCalls ==
  [createThreshold |-> Call(usageThresholdsApi["createForPlan"],
                            {<<"plan-thresholds">>}, {"row"}),
   deleteThreshold |-> Call(usageThresholdsApi["delete"],
                            {<<"plan-thresholds">>}, {"row", "open"})]

\* A clone is created from the plan as it is shown, and then shown itself.
PlanDetailPage ==
  Screen(PlanQueries @@ PlanDetailQueries,
         CommitmentCalls @@ ThresholdCalls @@
         [clone |-> Call(plansApi["create"], {<<"plans">>}, {"row", "leaves"})])

\* Adding and editing a commitment share their inputs, set by each opening.
CommitmentForm == Form({"new", "row"}, TRUE, "opening", {"cancel", "success"}, "answer", TRUE)

\* The inputs of a threshold are always shown, and emptied by its success.
ThresholdForm == Form({"new"}, FALSE, "mount", {"success"}, "answer", TRUE)

PlanFormPage ==
  Screen(PlanQueries,
         [create |-> Call(plansApi["create"], {<<"plans">>}, {"leaves"}),
          update |-> Call(plansApi["update"], {<<"plans">>, <<"plan">>}, {"row", "leaves"})])

\* Its commitments and thresholds are edited as on the detail.
PlanFormCommitments == CommitmentCalls
PlanFormThresholds  == ThresholdCalls

\* The charges are edited with the plan and sent with it, replacing them all.
PlanForm == Form({"new", "item"}, TRUE, "page", {}, "answer", TRUE)

-----------------------------------------------------------------------------
(* Metrics (pages/admin/MetricsPage.tsx, MetricFormPage.tsx)                 *)

MetricExpandableRow ==
  While(Query(<<"billable-metrics", "plans">>, billableMetricsApi["metricPlans"]))

MetricRefreshes ==
  {<<"billable-metrics">>, <<"billable-metrics-stats">>, <<"billable-metrics-plan-counts">>}

MetricsPage ==
  Screen([metrics |-> Query(<<"billable-metrics">>, billableMetricsApi["listPaginated"]),
          stats   |-> Query(<<"billable-metrics-stats">>, billableMetricsApi["stats"]),
          counts  |-> Query(<<"billable-metrics-plan-counts">>, billableMetricsApi["planCounts"]),
          plans   |-> MetricExpandableRow],
         [delete |-> Call(billableMetricsApi["delete"], MetricRefreshes, {"row", "open"})])

MetricsTable == Table({}, {"search", "aggregation"}, {"pageSize"}, "all")

\* Its success refreshes the lists, and not the metric it was seeded from.
MetricFormPage ==
  Screen([metric |-> While(Query(<<"billable-metric">>, billableMetricsApi["get"]))],
         [create |-> Call(billableMetricsApi["create"], MetricRefreshes, {"leaves"}),
          update |-> Call(billableMetricsApi["update"], MetricRefreshes, {"row", "leaves"})])

MetricForm == Form({"new", "item"}, TRUE, "page", {}, "answer", TRUE)

-----------------------------------------------------------------------------
(* Features and entitlements (pages/admin/FeaturesPage.tsx)                  *)

EntitlementRefreshes == {<<"entitlements">>, <<"features", "plan_counts">>}

FeatureCalls ==
  [createFeature |-> Call(featuresApi["create"], {<<"features">>}, {}),
   updateFeature |-> Call(featuresApi["update"], {<<"features">>}, {"row"}),
   deleteFeature |-> Call(featuresApi["delete"], {<<"features">>, <<"entitlements">>},
                          {"row", "open"})]

EntitlementCalls ==
  [createEntitlement |-> Call(entitlementsApi["create"], EntitlementRefreshes, {"row"}),
   deleteEntitlement |-> Call(entitlementsApi["delete"], EntitlementRefreshes, {"row"}),
   copyEntitlements  |-> Call(entitlementsApi["copy"], EntitlementRefreshes, {})]

FeaturesPage ==
  Screen([features        |-> Query(<<"features">>, featuresApi["listPaginated"]),
          plans           |-> Query(<<"plans">>, plansApi["list"]),
          planCounts      |-> Query(<<"features", "plan_counts">>, featuresApi["planCounts"]),
          entitlements    |-> Query(<<"entitlements">>, entitlementsApi["list"]),
          allEntitlements |-> Query(<<"entitlements", "all">>, entitlementsApi["list"])],
         FeatureCalls @@ EntitlementCalls)

FeaturesTable == Table({}, {}, {"pageSize"}, "all")

\* The handlers that open them set their inputs.
FeatureDialog == Form({"new", "row"}, TRUE, "opening", {"success"}, "answer", TRUE)

EntitlementDialog == Form({"new"}, FALSE, "opening", {"success"}, "answer", TRUE)

\* The plans of a copy stay chosen when it is closed without copying.
CopyEntitlementsDialog == Form({"new"}, FALSE, "mount", {"success"}, "answer", TRUE)
=============================================================================
