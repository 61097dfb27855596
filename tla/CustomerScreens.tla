---------------------------- MODULE CustomerScreens ----------------------------
(***************************************************************************)
(* The admin console's screens of a customer: customers, subscriptions,     *)
(* wallets and usage alerts, and the cards of their detail pages.           *)
(***************************************************************************)
EXTENDS ApiClient, Screens

\* (components/AuditTrailTimeline.tsx)
AuditTrailTimeline == Query(<<"audit-trail">>, auditLogsApi["getForResource"])

-----------------------------------------------------------------------------
(* Customers (pages/admin/CustomersPage.tsx, CustomerDetailPage.tsx)         *)

CustomersPage ==
  Screen([customers |-> Query(<<"customers">>, customersApi["listPaginated"])],
         [create |-> Call(customersApi["create"], {<<"customers">>}, {}),
          update |-> Call(customersApi["update"], {<<"customers">>}, {"row"}),
          delete |-> Call(customersApi["delete"], {<<"customers">>}, {"row", "open"})])

CustomersTable == Table({}, {"search", "currency"}, {"pageSize"}, "all")

\* (components/CustomerFormDialog.tsx) The list renders it once, without a
\* key: there it is seeded when the page mounts, for no customer.
CustomerFormDialog == Form({"new", "row"}, TRUE, "mount", {}, "answer", TRUE)

\* The detail page renders it once its customer has been answered.
CustomerEditDialog == [CustomerFormDialog EXCEPT !.about = {"item"}, !.seeds = "first"]

\* The cards and tabs of the page (components/customer-detail).
CustomerKPICards ==
  [invoicesBalance |-> Query(<<"customer-invoices-balance">>, invoicesApi["list"]),
   subscriptions   |-> Query(<<"customer-subscriptions">>, subscriptionsApi["list"])]
CustomerSubscriptionsTable ==
  [list |-> Query(<<"customer-subscriptions">>, subscriptionsApi["list"])]
CustomerInvoicesTable == [invoices |-> Query(<<"customer-invoices">>, invoicesApi["list"])]
CustomerFeesTable     == [fees |-> Query(<<"customer-fees">>, feesApi["list"])]
CustomerPaymentsTable == [payments |-> Query(<<"customer-payments">>, paymentsApi["list"])]
CustomerWalletsTable  == [wallets |-> Query(<<"customer-wallets">>, walletsApi["list"])]
CustomerCouponsTable ==
  [coupons |-> Query(<<"customer-coupons">>, customersApi["getAppliedCoupons"])]
CustomerAddOnsTable ==
  [addOns |-> Query(<<"customer-applied-add-ons">>, customersApi["getAppliedAddOns"])]
CustomerCreditNotesTable ==
  [creditNotes |-> Query(<<"customer-credit-notes">>, creditNotesApi["list"])]
CustomerEventsQuery == [events |-> Query(<<"customer-events">>, eventsApi["listPaginated"])]
CustomerInfoSidebar ==
  [mappings |-> Query(<<"customer-integration-mappings">>,
                      customersApi["getIntegrationMappings"]),
   entities |-> While(Query(<<"billing-entities">>, billingEntitiesApi["list"]))]

\* The code of the events is sent to the server, and changing it goes back
\* to the first page; another size keeps the page.  The total counts the
\* events of all customers, and the bar is not there below no rows.
CustomerEventsTable == [Table({"code"}, {}, {"code"}, "more") EXCEPT !.bar = "rows"]

CustomerDetailPage ==
  Screen([customer |-> Query(<<"customer">>, customersApi["get"]),
          plans    |-> Query(<<"plans">>, plansApi["list"]),
          audit    |-> AuditTrailTimeline]
           @@ CustomerKPICards @@ CustomerSubscriptionsTable @@ CustomerInvoicesTable
           @@ CustomerFeesTable @@ CustomerPaymentsTable @@ CustomerWalletsTable
           @@ CustomerCouponsTable @@ CustomerAddOnsTable @@ CustomerCreditNotesTable
           @@ CustomerEventsQuery @@ CustomerInfoSidebar,
         [update             |-> Call(customersApi["update"], {<<"customer">>}, {"row"}),
          createSubscription |-> Call(subscriptionsApi["create"],
                                      {<<"customer-subscriptions">>}, {"row"})])

CustomerPaymentMethodsCard ==
  Screen([methods |-> Query(<<"customer-payment-methods">>, paymentMethodsApi["list"])],
         [create     |-> Call(paymentMethodsApi["create"],
                              {<<"customer-payment-methods">>}, {}),
          setDefault |-> Call(paymentMethodsApi["setDefault"],
                              {<<"customer-payment-methods">>}, {"row"}),
          delete     |-> Call(paymentMethodsApi["delete"],
                              {<<"customer-payment-methods">>}, {"row", "open"})])

-----------------------------------------------------------------------------
(* Subscriptions (pages/admin/SubscriptionsPage.tsx)                         *)

NextBillingCell ==
  While(Query(<<"next-billing-date">>, subscriptionsApi["getNextBillingDate"]))

SubscriptionThresholdsDialogWrong ==
  Screen([thresholds |-> While(Query(<<"sub-thresholds">>,
                                     usageThresholdsApi["listForSubscription"]))],
         [create |-> Call(usageThresholdsApi["createForSubscription"],
                          {<<"usage-thresholds">>}, {"row"})])
SubscriptionThresholdsDialog ==
  Screen([thresholds |-> While(Query(<<"sub-thresholds">>,
                                     usageThresholdsApi["listForSubscription"])),
          usage      |-> While(Query(<<"sub-current-usage">>,
                                     usageThresholdsApi["getCurrentUsage"]))],
         [create |-> Call(usageThresholdsApi["createForSubscription"],
                          {<<"sub-thresholds">>}, {"row"}),
          delete |-> Call(usageThresholdsApi["delete"], {<<"sub-thresholds">>},
                          {"row", "open"})])

\* The dialog is mounted once: what was typed for one subscription is still
\* there when it is opened for the next one.
SubscriptionThresholdForm == Form({"row"}, FALSE, "mount", {"success"}, "answer", TRUE)

\* Every call of the list invalidates the list and nothing else.
LOCAL ListCall(method, traits) ==
  Call(subscriptionsApi[method], {<<"subscriptions">>}, traits)

SubscriptionCalls ==
  [create     |-> ListCall("create", {}),
   changePlan |-> ListCall("update", {"row"}),
   terminate  |-> ListCall("terminate", {"row", "open"}),
   update     |-> ListCall("update", {"row"}),
   pause      |-> ListCall("pause", {"row", "open"}),
   resume     |-> ListCall("resume", {"row", "open"})]

SubscriptionBulkCalls ==
  [bulkPause     |-> ListCall("bulkPause", {"row"}),
   bulkResume    |-> ListCall("bulkResume", {"row"}),
   bulkTerminate |-> ListCall("bulkTerminate", {"row"})]

SubscriptionsPage ==
  Screen([subscriptions |-> Query(<<"subscriptions">>, subscriptionsApi["listPaginated"]),
          customers     |-> Query(<<"customers">>, customersApi["list"]),
          plans         |-> Query(<<"plans">>, plansApi["list"]),
          nextBilling   |-> NextBillingCell],
         SubscriptionCalls @@ SubscriptionBulkCalls)

SubscriptionsTable == Table({}, {"search", "status"}, {"pageSize"}, "all")
SubscriptionsSelectable == {"active", "pending", "paused"}

\* The bar offers pausing when a shown selected row is active, resuming when
\* one is paused, and terminating whatever is selected.
SubscriptionBulkOffers ==
  [pending |-> {}, active |-> {"pause"}, paused |-> {"resume"},
   canceled |-> {}, terminated |-> {}]
SubscriptionBulkAlways == {"terminate"}

SubscriptionRowOffers ==
  [pending    |-> {"update", "changePlan", "terminate"},
   active     |-> {"update", "changePlan", "pause", "terminate"},
   paused     |-> {"update", "resume", "terminate"},
   canceled   |-> {},
   terminated |-> {}]

\* (components/SubscriptionFormDialog.tsx, EditSubscriptionDialog.tsx) An
\* effect on "open" sets their inputs.
SubscriptionFormDialog == Form({"new"}, FALSE, "opening", {}, "answer", TRUE)
EditSubscriptionDialog == Form({"row"}, TRUE, "opening", {}, "answer", TRUE)

\* (components/ChangePlanDialog.tsx) Its own dismissals empty it; a success
\* closes it through the parent, which leaves the plan and its preview.
ChangePlanDialog == Form({"row"}, FALSE, "mount", {"escape", "cancel"}, "answer", TRUE)

\* (components/TerminateSubscriptionDialog.tsx, CancelSubscriptionDialog.tsx)
\* The financial action chosen stays for the next subscription.
TerminateSubscriptionDialog == Form({"row"}, FALSE, "mount", {}, "click", FALSE)
CancelSubscriptionDialog    == Form({"item"}, FALSE, "mount", {}, "click", FALSE)

-----------------------------------------------------------------------------
(* A subscription (pages/admin/SubscriptionDetailPage.tsx and
   components/subscription-detail)                                           *)

SubscriptionKPICards ==
  [nextBilling |-> NextBillingCell,
   usage       |-> Query(<<"current-usage">>, usageThresholdsApi["getCurrentUsage"]),
   invoices    |-> Query(<<"subscription-invoices">>, invoicesApi["list"])]
SubscriptionInvoicesTab ==
  [payments    |-> While(Query(<<"subscription-payments">>, paymentsApi["list"])),
   creditNotes |-> While(Query(<<"subscription-credit-notes">>, creditNotesApi["list"]))]
SubscriptionOverviewTab ==
  [metrics    |-> While(Query(<<"billable-metrics">>, billableMetricsApi["list"])),
   usageTrend |-> Query(<<"usage-trend">>, subscriptionsApi["getUsageTrend"])]
SubscriptionEntitlementsTab ==
  [entitlements |-> While(Query(<<"subscription-entitlements">>,
                                subscriptionsApi["getEntitlements"])),
   features     |-> While(Query(<<"features">>, featuresApi["list"]))]
SubscriptionLifecycleTimeline ==
  [lifecycle |-> Query(<<"subscription-lifecycle">>, subscriptionsApi["getLifecycle"])]

LOCAL DetailCall(method, traits) ==
  Call(subscriptionsApi[method], {<<"subscription">>, <<"subscriptions">>}, traits)

SubscriptionDetailCalls ==
  [update     |-> Call(subscriptionsApi["update"], {<<"subscription">>}, {"row"}),
   activate   |-> DetailCall("activate", {"row"}),
   pause      |-> DetailCall("pause", {"row"}),
   resume     |-> DetailCall("resume", {"row"}),
   changePlan |-> DetailCall("update", {"row"}),
   cancel     |-> DetailCall("cancel", {"row", "open"}),
   terminate  |-> ListCall("terminate", {"row", "open", "leaves"})]

SubscriptionDetailPage ==
  Screen([subscription |-> Query(<<"subscription">>, subscriptionsApi["get"]),
          customer     |-> While(Query(<<"customer">>, customersApi["get"])),
          plan         |-> While(Query(<<"plan">>, plansApi["get"])),
          plans        |-> Query(<<"plans">>, plansApi["list"]),
          audit        |-> AuditTrailTimeline]
           @@ SubscriptionKPICards @@ SubscriptionInvoicesTab @@ SubscriptionOverviewTab
           @@ SubscriptionEntitlementsTab @@ SubscriptionLifecycleTimeline,
         SubscriptionDetailCalls)

\* (SubscriptionInfoSidebar.tsx) Its buttons.
SubscriptionDetailOffers ==
  [pending    |-> {"activate", "update", "changePlan", "cancel", "terminate"},
   active     |-> {"update", "pause", "changePlan", "cancel", "terminate"},
   paused     |-> {"update", "resume", "cancel", "terminate"},
   canceled   |-> {},
   terminated |-> {}]

SubscriptionThresholdsAlertsTab ==
  Screen([thresholds |-> Query(<<"usage-thresholds">>,
                               usageThresholdsApi["listForSubscription"]),
          alerts     |-> Query(<<"usage-alerts">>, usageAlertsApi["list"]),
          metrics    |-> While(Query(<<"billable-metrics">>, billableMetricsApi["list"]))],
         [createThreshold |-> Call(usageThresholdsApi["createForSubscription"],
                                   {<<"usage-thresholds">>}, {}),
          deleteThreshold |-> Call(usageThresholdsApi["delete"],
                                   {<<"usage-thresholds">>}, {"row"}),
          createAlert     |-> Call(usageAlertsApi["create"], {<<"usage-alerts">>}, {}),
          deleteAlert     |-> Call(usageAlertsApi["delete"], {<<"usage-alerts">>},
                                   {"row", "open"})])

\* The two forms of the tab are emptied by their success and their Cancel,
\* and have no other end.
ThresholdsAlertsForm == Form({"new"}, FALSE, "mount", {"escape", "cancel", "success"}, "answer", TRUE)

-----------------------------------------------------------------------------
(* Wallets (pages/admin/WalletsPage.tsx, WalletDetailPage.tsx)               *)

\* No key and no effect: the inputs are seeded when the page mounts.
WalletFormDialog == Form({"new", "row"}, TRUE, "mount", {}, "answer", TRUE)

\* The credits typed stay when the dialog is closed, or succeeds.
TopUpDialog == Form({"row"}, FALSE, "mount", {}, "answer", TRUE)

WalletsPage ==
  Screen([wallets   |-> Query(<<"wallets">>, walletsApi["listPaginated"]),
          customers |-> Query(<<"customers">>, customersApi["list"])],
         [create    |-> Call(walletsApi["create"], {<<"wallets">>}, {}),
          update    |-> Call(walletsApi["update"], {<<"wallets">>}, {"row"}),
          topUp     |-> Call(walletsApi["topUp"],
                             {<<"wallets">>, <<"wallet-transactions">>}, {"row"}),
          terminate |-> Call(walletsApi["terminate"], {<<"wallets">>}, {"row", "open"})])

WalletsTable == Table({}, {"search", "status"}, {"pageSize"}, "all")

\* The detail page offers a transfer besides.
WalletOffers == [active     |-> {"update", "topUp", "terminate", "transfer"},
                 terminated |-> {}]

\* What the detail page shows of a wallet besides itself.
WalletHistory ==
  [transactions |-> Query(<<"wallet-transactions">>, walletsApi["listTransactions"]),
   timeline     |-> Query(<<"wallet-timeline">>, walletsApi["getBalanceTimeline"]),
   depletion    |-> Query(<<"wallet-depletion">>, walletsApi["getDepletionForecast"])]

\* Moving credits refreshes everything but the audit trail; a change of the
\* wallet itself not even its forecast.
WalletMoves ==
  LET all == {<<"wallet">>, <<"wallets">>} \union {WalletHistory[q].key : q \in DOMAIN WalletHistory}
  IN  [topUp    |-> Call(walletsApi["topUp"], all, {"row"}),
       transfer |-> Call(walletsApi["transfer"], all, {"row"})]
WalletChanges ==
  [update    |-> Call(walletsApi["update"], {<<"wallet">>, <<"wallets">>}, {"row"}),
   terminate |-> Call(walletsApi["terminate"], {<<"wallet">>, <<"wallets">>}, {"row", "open"})]

WalletDetailPage ==
  Screen([wallet    |-> Query(<<"wallet">>, walletsApi["get"]),
          customers |-> Query(<<"customers">>, customersApi["list"]),
          wallets   |-> Query(<<"wallets">>, walletsApi["list"]),
          audit     |-> AuditTrailTimeline] @@ WalletHistory,
         WalletMoves @@ WalletChanges)

\* The transactions of the wallet that one answer holds; the running balance
\* is computed in the browser, from 0 before the oldest of them.
WalletTransactionsTable == WholeList({})

EditWalletDialog  == Form({"item"}, TRUE, "opening", {}, "answer", TRUE)
TopUpDialogInline == Form({"item"}, FALSE, "mount", {}, "answer", TRUE)
TransferDialog    == Form({"item"}, FALSE, "mount", {}, "answer", TRUE)

-----------------------------------------------------------------------------
(* Usage alerts (pages/admin/UsageAlertsPage.tsx)                            *)

\* No key and no effect: the inputs are seeded when the page mounts.
UsageAlertFormDialog == Form({"new", "row"}, TRUE, "mount", {}, "answer", TRUE)

UsageProgressCell ==
  Polled(Query(<<"usage-alert-status">>, usageAlertsApi["getStatus"]))

TriggerHistoryDialog ==
  While(Query(<<"usage-alert-triggers">>, usageAlertsApi["listTriggers"]))

\* A test is a POST that evaluates the alert and changes nothing: it is the
\* answer of a query.
TestAlertDialog == While(Query(<<"usage-alert-test">>, usageAlertsApi["test"]))

UsageAlertsPage ==
  Screen([alerts        |-> Query(<<"usage-alerts">>, usageAlertsApi["listPaginated"]),
          subscriptions |-> Query(<<"subscriptions">>, subscriptionsApi["list"]),
          metrics       |-> Query(<<"billable-metrics">>, billableMetricsApi["list"]),
          progress      |-> UsageProgressCell,
          triggers      |-> TriggerHistoryDialog,
          test          |-> TestAlertDialog],
         [create |-> Call(usageAlertsApi["create"], {<<"usage-alerts">>}, {}),
          update |-> Call(usageAlertsApi["update"], {<<"usage-alerts">>}, {"row"}),
          delete |-> Call(usageAlertsApi["delete"], {<<"usage-alerts">>}, {"row", "open"})])

\* Its filter works on the answered page, and goes back to the first one.
UsageAlertsTable == Table({}, {"subscription"}, {"subscription", "pageSize"}, "all")
=============================================================================
