-------------------------------- MODULE Console --------------------------------
(***************************************************************************)
(* All the screens of the browser together (the routes of                   *)
(* src/frontend/src/App.tsx), under their names.                            *)
(***************************************************************************)
EXTENDS CatalogueScreens, BillingScreens, CustomerScreens, OperationsScreens,
        PortalScreens, StatusRules, FiniteSets

\* The pages of the console, and the dialogs and cards that are described as
\* screens of their own.
AdminScreens ==
  [taxes          |-> TaxesPage,          addOns           |-> AddOnsPage,
   coupons        |-> CouponsPage,        appliedCoupons   |-> AppliedCouponsDialog,
   plans          |-> PlansPage,          plan             |-> PlanDetailPage,
   planForm       |-> PlanFormPage,       metrics          |-> MetricsPage,
   metricForm     |-> MetricFormPage,     features         |-> FeaturesPage,
   oneOffInvoice  |-> OneOffInvoiceDialog, invoicePreview  |-> InvoicePreviewDialog,
   invoices       |-> InvoicesPage,       invoice          |-> InvoiceDetailPage,
   fees           |-> FeesPage,           payments         |-> PaymentsPage,
   requests       |-> PaymentRequestsPage, batchRequests   |-> BatchCreateDialog,
   paymentMethods |-> PaymentMethodsPage, creditNote       |-> CreditNoteDetailDialog,
   creditNotes    |-> CreditNotesPage,    creditNoteForm   |-> CreditNoteFormPage,
   dunning        |-> DunningCampaignsPage, dunningPreview |-> PreviewTab,
   campaign       |-> DunningCampaignDetailPage,
   customers      |-> CustomersPage,      customer         |-> CustomerDetailPage,
   customerMethods |-> CustomerPaymentMethodsCard,
   subscriptions  |-> SubscriptionsPage,  subscription     |-> SubscriptionDetailPage,
   thresholds     |-> SubscriptionThresholdsDialog,
   thresholdsTab  |-> SubscriptionThresholdsAlertsTab,
   wallets        |-> WalletsPage,        wallet           |-> WalletDetailPage,
   usageAlerts    |-> UsageAlertsPage,    feeEstimator     |-> FeeEstimatorPanel,
   events         |-> EventsPage,         webhooks         |-> WebhooksPage,
   webhook        |-> WebhookDetailDialog, exports         |-> DataExportsPage,
   auditLogs      |-> AuditLogsPage,      integrations     |-> IntegrationsPage,
   integration    |-> IntegrationDetailPage, settings      |-> SettingsPage,
   apiKeys        |-> ApiKeysPage,        onboarding       |-> OnboardingPage,
   billingEntities |-> BillingEntitiesPage, billingEntity  |-> BillingEntityFormPage,
   dashboard      |-> DashboardPage,      revenue          |-> RevenueAnalyticsPage]

\* The frame is on every page of the console: what it shows stays mounted
\* while any other screen makes its calls.
FrameScreens == [bell |-> NotificationBell, palette |-> CommandPalette]

CustomerScreensOfPortal ==
  [portal               |-> PortalLayout,       portalDashboard     |-> PortalDashboardPage,
   portalInvoices       |-> PortalInvoicesPage, portalUsage         |-> PortalUsagePage,
   portalPayments       |-> PortalPaymentsPage, portalWallet        |-> PortalWalletPage,
   portalSubscriptions  |-> PortalSubscriptionsPage,
   portalPaymentMethods |-> PortalPaymentMethodsPage,
   portalAddOns         |-> PortalAddOnsPage,   portalCoupons       |-> PortalCouponsPage,
   portalProfile        |-> PortalProfilePage]

AllScreens == AdminScreens @@ FrameScreens @@ CustomerScreensOfPortal

\* A call, and a query that is mounted where the call is made and whose
\* answer the call changes.
Pair(from, call, of, query) == [from |-> from, call |-> call, of |-> of, query |-> query]

Beside == {<<s, s>> : s \in DOMAIN AllScreens}
            \union ((DOMAIN AdminScreens) \X (DOMAIN FrameScreens))

Pairs ==
  UNION {{Pair(p[1], c, p[2], q) :
            c \in DOMAIN AllScreens[p[1]].calls, q \in DOMAIN AllScreens[p[2]].queries}
         : p \in Beside}

CallOf(pair)  == AllScreens[pair.from].calls[pair.call]
QueryOf(pair) == AllScreens[pair.of].queries[pair.query]

Affected == {p \in Pairs : Affects(CallOf(p), QueryOf(p))}

-----------------------------------------------------------------------------
(* What the code leaves stale.  A resource is a whole table, so some of the  *)
(* pairs of Affected are of different rows of it; the others are answers     *)
(* that a call changes, and that its success does not ask for again.         *)

On(p, screen, made, shown) ==
  p.from = screen /\ p.of = screen /\ p.call \in made /\ p.query \in shown

\* Creating an item leaves what was answered about the others as it was.
OfAnotherItem(p) ==
  \/ On(p, "plan", {"clone"}, {"plan"})
  \/ On(p, "planForm", {"create"}, {"plan"})
  \/ On(p, "metricForm", {"create"}, {"metric"})
  \/ On(p, "creditNoteForm", {"create"}, {"creditNote"})
  \/ On(p, "billingEntity", {"create"}, {"entity"})
  \/ On(p, "coupons", {"create", "duplicate"}, {"analytics"})
  \/ On(p, "requests", {"create"}, {"attempts"})
  \/ On(p, "subscriptions", {"create"}, {"nextBilling"})
  \/ On(p, "usageAlerts", {"create"}, {"progress", "test"})

ListChanges == (DOMAIN SubscriptionCalls \union DOMAIN SubscriptionBulkCalls) \ {"create"}

\* No call refreshes an audit trail or the results of a search; the rest are
\* calls that refresh the item and forget an answer derived from it.
LeftStale(p) ==
  \/ p.query = "audit" \/ p.of = "palette"
  \/ On(p, "addOns", {"apply"}, {"history"})
  \/ On(p, "coupons", {"update", "terminate"}, {"analytics"})
  \/ On(p, "metricForm", {"update"}, {"metric"})
  \/ On(p, "invoice", {"finalize"}, {"settlements"})
  \/ On(p, "subscriptions", ListChanges, {"nextBilling"})
  \/ On(p, "subscription", DOMAIN SubscriptionDetailCalls,
        {"nextBilling", "usage", "usageTrend", "lifecycle", "invoices", "creditNotes"})
  \/ On(p, "subscription", {"terminate"}, {"subscription"})
  \/ On(p, "wallet", {"update", "terminate"}, {"depletion"})
  \/ On(p, "usageAlerts", {"update", "delete"}, {"progress", "test"})
  \/ On(p, "webhooks", {"create", "update", "delete", "retry"}, {"stats"})
  \/ On(p, "integration", {"delete"}, {"integration"})
  \/ On(p, "portalInvoices", {"pay"}, {"payments"})
  \/ On(p, "portalSubscriptions", {"changePlan"}, {"preview"})

-----------------------------------------------------------------------------
\* What a pair tells of the way its query is kept up to date: "refreshed",
\* its call invalidates it; "gap", the code is known not to.
SubjectOf(p) ==
  LET q == QueryOf(p)
      c == CallOf(p)
  IN  [refreshed |-> Refreshes(c, q),
       gap       |-> OfAnotherItem(p) \/ LeftStale(p),
       always    |-> q.always,
       freshness |-> q.freshness,
       frame     |-> p.from # p.of,
       open      |-> "open" \in c.traits,
       leaves    |-> "leaves" \in c.traits,
       needs     |-> "row" \in c.traits /\ DOMAIN AllScreens[p.from].queries = {p.query}]

ConsoleSubjects == {SubjectOf(p) : p \in Affected}

-----------------------------------------------------------------------------
(* The forms, under their names in the code.                                 *)

AllForms ==
  [tax            |-> TaxFormDialog,        applyTax       |-> ApplyTaxDialog,
   addOn          |-> AddOnFormDialog,      applyAddOn     |-> ApplyAddOnDialog,
   coupon         |-> CouponFormDialog,     applyCoupon    |-> ApplyCouponDialog,
   plan           |-> PlanForm,             commitment     |-> CommitmentForm,
   planThreshold  |-> ThresholdForm,        metric         |-> MetricForm,
   feature        |-> FeatureDialog,        entitlement    |-> EntitlementDialog,
   copyEntitlements |-> CopyEntitlementsDialog,
   oneOffInvoice  |-> OneOffInvoiceForm,    fee            |-> FeeEditDialog,
   confirmPayment |-> PaymentConfirmDialog, recordPayment  |-> RecordPaymentDialog,
   request        |-> CreatePaymentRequestDialog,
   paymentMethod  |-> PaymentMethodFormDialog,
   creditNote     |-> CreditNoteForm,       campaign       |-> DunningCampaignFormDialog,
   customer       |-> CustomerFormDialog,   customerEdit   |-> CustomerEditDialog,
   threshold      |-> SubscriptionThresholdForm,
   subscription   |-> SubscriptionFormDialog, subscriptionEdit |-> EditSubscriptionDialog,
   changePlan     |-> ChangePlanDialog,     terminate      |-> TerminateSubscriptionDialog,
   cancel         |-> CancelSubscriptionDialog,
   thresholdsAlerts |-> ThresholdsAlertsForm,
   wallet         |-> WalletFormDialog,     topUp          |-> TopUpDialog,
   walletEdit     |-> EditWalletDialog,     topUpInline    |-> TopUpDialogInline,
   transfer       |-> TransferDialog,       usageAlert     |-> UsageAlertFormDialog,
   estimate       |-> FeeEstimatorForm,     endpoint       |-> EndpointFormDialog,
   export         |-> NewExportDialog,      integration    |-> IntegrationFormDialog,
   provider       |-> ProviderSettingsForm, settings       |-> SettingsForm,
   apiKey         |-> ApiKeyForm,           billingEntity  |-> BillingEntityForm,
   portalTopUp    |-> PortalTopUpDialog,    portalPlan     |-> PortalChangePlanDialog,
   portalMethod   |-> AddPaymentMethodDialog, purchase     |-> PurchaseConfirmation,
   redeem         |-> RedeemForm,           profile        |-> ProfileForm,
   confirmation   |-> Confirmation]

\* The call that saves what a form edits, and the query it was seeded from.
Edited ==
  [tax          |-> Pair("taxes", "update", "taxes", "taxes"),
   addOn        |-> Pair("addOns", "update", "addOns", "addOns"),
   coupon       |-> Pair("coupons", "update", "coupons", "coupons"),
   plan         |-> Pair("planForm", "update", "planForm", "plan"),
   commitment   |-> Pair("plan", "updateCommitment", "plan", "commitments"),
   metric       |-> Pair("metricForm", "update", "metricForm", "metric"),
   feature      |-> Pair("features", "updateFeature", "features", "features"),
   fee          |-> Pair("fees", "update", "fees", "fees"),
   creditNote   |-> Pair("creditNoteForm", "update", "creditNoteForm", "creditNote"),
   campaign     |-> Pair("dunning", "update", "dunning", "campaigns"),
   customer     |-> Pair("customers", "update", "customers", "customers"),
   customerEdit |-> Pair("customer", "update", "customer", "customer"),
   subscriptionEdit |-> Pair("subscriptions", "update", "subscriptions", "subscriptions"),
   wallet       |-> Pair("wallets", "update", "wallets", "wallets"),
   walletEdit   |-> Pair("wallet", "update", "wallet", "wallet"),
   usageAlert   |-> Pair("usageAlerts", "update", "usageAlerts", "alerts"),
   endpoint     |-> Pair("webhooks", "update", "webhooks", "endpoints"),
   integration  |-> Pair("integrations", "update", "integrations", "integrations"),
   provider     |-> Pair("integration", "update", "integration", "integration"),
   settings     |-> Pair("settings", "update", "settings", "organization"),
   billingEntity |-> Pair("billingEntity", "update", "billingEntity", "entity"),
   profile      |-> Pair("portalProfile", "update", "portalProfile", "customer")]

\* Seeded when the page mounts, before any item is chosen: editing an item
\* shows blanks, or what was typed for the one before, and saves that.
SeededElsewhere == {"addOn", "coupon", "campaign", "customer", "wallet", "usageAlert",
                    "endpoint", "integration"}

\* Inputs that outlive the opening they were typed in.
KeepsInputs ==
  SeededElsewhere
    \union {"tax", "applyTax", "applyAddOn", "applyCoupon", "request", "paymentMethod",
            "threshold", "changePlan", "terminate", "topUp", "export", "portalMethod"}

\* Seeded with the first answer of the page, which can be one from the cache.
SeededFromCache == {"plan", "metric", "creditNote", "billingEntity", "customerEdit",
                    "provider", "settings", "profile"}

FormSubject(name) ==
  AllForms[name] @@
  [refreshed |-> name \in DOMAIN Edited =>
                   Refreshes(CallOf(Edited[name]), QueryOf(Edited[name])),
   keeps     |-> name \in KeepsInputs,
   elsewhere |-> name \in SeededElsewhere,
   cached    |-> name \in SeededFromCache]

ConsoleForms == {FormSubject(name) : name \in DOMAIN AllForms}

-----------------------------------------------------------------------------
(* The lists, under the names of their screens.                              *)

AllTables ==
  [taxes     |-> TaxesTable,      addOns         |-> AddOnsTable,
   coupons   |-> CouponsTable,    metrics        |-> MetricsTable,
   features  |-> FeaturesTable,   invoices       |-> InvoicesTable,
   fees      |-> FeesTable,       payments       |-> PaymentsTable,
   requests  |-> PaymentRequestsTable, paymentMethods |-> PaymentMethodsTable,
   creditNotes |-> CreditNotesTable,   dunning   |-> DunningCampaignsTable,
   customers |-> CustomersTable,  customerEvents |-> CustomerEventsTable,
   subscriptions |-> SubscriptionsTable, wallets |-> WalletsTable,
   usageAlerts |-> UsageAlertsTable,     endpoints |-> EndpointsTable,
   webhooks  |-> WebhooksTable,   exports        |-> DataExportsTable,
   auditLogs |-> AuditLogsTable,  billingEntities |-> BillingEntitiesTable]

\* Narrowing the list from a later page shows an empty one.
KeepsPage == {"coupons", "fees", "payments", "customerEvents"}

\* The rows after the first page cannot be reached.
Uncounted == {"paymentMethods", "auditLogs"}

\* An empty page has no bar at all.
Trap == {"customerEvents"}

\* All the filters of a table that are sent to the server go back to the first
\* page or none does, and so do those applied in the browser.
FilterKind(t, control) ==
  IF control \in t.server THEN "server"
  ELSE IF control \in t.client THEN "client" ELSE control

TableSubject(name) ==
  LET t == AllTables[name]
  IN  [filters   |-> {FilterKind(t, c) : c \in t.server \union t.client},
       resets    |-> {FilterKind(t, c) : c \in t.resets},
       total     |-> t.total,
       bar       |-> t.bar,
       keepsPage |-> name \in KeepsPage,
       uncounted |-> name \in Uncounted,
       trap      |-> name \in Trap]

ConsoleTables == {TableSubject(name) : name \in DOMAIN AllTables}

-----------------------------------------------------------------------------
(* What the screens offer, beside what the server accepts.                   *)

\* Actions that leave the same when they are done twice.
Idempotent == {"update", "email", "pdf", "download", "setDefault", "void",
               "terminate", "revoke"}

\* The menu of a coupon can duplicate it again before the first duplicate is
\* answered, and makes two.
DoneTwice == {"duplicate"}

\* An action that is no call of useMutation has a button that is always there.
Offering(offers, does, calls) ==
  [offers     |-> offers,
   does       |-> does,
   open       |-> {a \in DOMAIN does : a \in DOMAIN calls => "open" \in calls[a].traits},
   repeatable |-> Idempotent \union DoneTwice,
   selectable |-> {}, bulkOffers |-> [s \in DOMAIN offers |-> {}],
   bulk       |-> {}, always |-> {}]

\* The same for a list with a bar of bulk actions.
InBulk(kind, selectable, offers, always) ==
  [kind EXCEPT !.selectable = selectable, !.bulkOffers = offers, !.always = always,
               !.bulk = always \union UNION {offers[s] : s \in DOMAIN offers}]

\* The rows of the list of subscriptions beside its bar.  What else a row
\* offers is in the kind without the bar, and a canceled row is to the bar
\* what a terminated one is.
BesideBar ==
  [s \in {"pending", "active", "paused", "terminated"} |->
     SubscriptionRowOffers[s] \cap {"pause", "resume"}]

AllKinds ==
  [invoice      |-> Offering(InvoiceOffers, InvoiceRules, InvoiceDetailPage.calls),
   invoices     |-> InBulk(Offering([s \in DOMAIN InvoiceOffers |-> {}], InvoiceRules, NoCalls),
                           InvoicesSelectable, InvoiceBulkOffers, {}),
   payments     |-> Offering(PaymentOffers, PaymentRules, PaymentsPage.calls),
   creditNotes  |-> Offering(CreditNoteOffers, CreditNoteRules, CreditNotesPage.calls),
   coupons      |-> Offering(CouponOffers, CouponRules, CouponsPage.calls),
   methods      |-> Offering(PaymentMethodOffers, PaymentMethodRules, PaymentMethodsPage.calls),
   subscriptions |-> Offering(SubscriptionRowOffers, SubscriptionRules, SubscriptionCalls),
   subscriptionBulk |-> InBulk(Offering(BesideBar, SubscriptionRules, SubscriptionCalls),
                               SubscriptionsSelectable, SubscriptionBulkOffers,
                               SubscriptionBulkAlways),
   subscription |-> Offering(SubscriptionDetailOffers, SubscriptionRules,
                             SubscriptionDetailCalls),
   wallet       |-> Offering(WalletOffers, WalletRules, WalletDetailPage.calls),
   webhooks     |-> Offering(WebhookOffers, WebhookRules, WebhooksPage.calls),
   exports      |-> Offering(DataExportOffers, DataExportRules, DataExportsPage.calls),
   apiKeys      |-> Offering(ApiKeyOffers, ApiKeyRules, ApiKeysPage.calls),
   portalInvoices |-> Offering(PortalInvoiceOffers, InvoiceRules, PortalInvoicesPage.calls),
   portalSubscriptions |-> Offering(PortalSubscriptionOffers, PortalSubscriptionRules,
                                    PortalSubscriptionsPage.calls),
   portalMethods |-> Offering(PortalPaymentMethodOffers, PaymentMethodRules,
                              PortalPaymentMethodsPage.calls)]

ConsoleKinds == {AllKinds[name] : name \in DOMAIN AllKinds}
=============================================================================
