--------------------------- MODULE OperationsScreens ---------------------------
(***************************************************************************)
(* The admin console's screens of operations: events, webhooks, exports,    *)
(* the audit log, integrations, settings, keys, billing entities, the       *)
(* dashboard, and what the frame around every page shows.                   *)
(***************************************************************************)
EXTENDS ApiClient, Screens

-----------------------------------------------------------------------------
(* Events (pages/admin/EventsPage.tsx)                                       *)

\* An estimate is asked by a mutation and kept until the panel is closed.
FeeEstimatorPanel ==
  Screen([subscriptions |-> While(Query(<<"subscriptions">>, subscriptionsApi["list"])),
          metrics       |-> While(Query(<<"billable-metrics">>, billableMetricsApi["list"]))],
         [estimate |-> Call({}, {}, {})])

\* The panel has no submission: dismissing it empties it.
FeeEstimatorForm == Form({"new"}, FALSE, "mount", {"escape", "cancel"}, "never", TRUE)

\* Reprocessing queues checks in the worker: nothing it changes is refreshed.
EventsPage ==
  Screen([events |-> Polled(Query(<<"events">>, eventsApi["listPaginated"])),
          volume |-> Polled(Query(<<"event-volume">>, eventsApi["getVolume"]))],
         [reprocess |-> Call(eventsApi["reprocess"], {}, {"row"})])

\* Its pages are appended while scrolling, and each set of filters is a list
\* of its own.
EventsTable == Table({"customer", "code", "dates"}, {}, {"customer", "code", "dates"}, "whole")

-----------------------------------------------------------------------------
(* Webhooks (pages/admin/WebhooksPage.tsx)                                   *)

\* No key and no effect: the inputs are seeded when the page mounts.
EndpointFormDialog == Form({"new", "row"}, TRUE, "mount", {}, "answer", TRUE)

RetryHistoryTimeline ==
  While(Query(<<"webhook-delivery-attempts">>, webhookEndpointsApi["deliveryAttempts"]))

\* The detail shows the row it was opened with, then the answer of its retry.
WebhookDetailDialog ==
  Screen([attempts |-> RetryHistoryTimeline],
         [retry |-> Call(webhookEndpointsApi["retryWebhook"],
                         {<<"webhooks">>, <<"webhook-delivery-attempts">>}, {"row"})])

EndpointCalls ==
  [create |-> Call(webhookEndpointsApi["create"], {<<"webhook-endpoints">>}, {}),
   update |-> Call(webhookEndpointsApi["update"], {<<"webhook-endpoints">>}, {"row"}),
   delete |-> Call(webhookEndpointsApi["delete"], {<<"webhook-endpoints">>, <<"webhooks">>},
                   {"row", "open"})]

WebhooksPage ==
  Screen([endpoints |-> Query(<<"webhook-endpoints">>, webhookEndpointsApi["listPaginated"]),
          webhooks  |-> Query(<<"webhooks">>, webhookEndpointsApi["listWebhooksPaginated"]),
          stats     |-> Query(<<"webhook-delivery-stats">>, webhookEndpointsApi["deliveryStats"]),
          attempts  |-> RetryHistoryTimeline],
         EndpointCalls @@ WebhookDetailDialog.calls)

EndpointsTable == Table({}, {"search", "status"}, {"pageSize"}, "all")
WebhooksTable  == Table({}, {"status", "eventType"}, {"pageSize"}, "all")

WebhookOffers == [pending |-> {}, succeeded |-> {}, failed |-> {"retry"}]

-----------------------------------------------------------------------------
(* Exports and the audit log (pages/admin/DataExportsPage.tsx,
   AuditLogsPage.tsx)                                                        *)

NewExportDialog == Form({"new"}, FALSE, "mount", {}, "answer", TRUE)

ExportFilterFields ==
  [customers |-> While(Query(<<"customers">>, customersApi["list"])),
   estimate  |-> While(Query(<<"data-export-estimate">>, dataExportsApi["estimate"]))]

\* Polled while a row of the answer is pending or processing.
DataExportsPage ==
  Screen([exports |-> Polled(Query(<<"data-exports">>, dataExportsApi["listPaginated"]))]
           @@ ExportFilterFields,
         [create |-> Call(dataExportsApi["create"], {<<"data-exports">>}, {})])

DataExportsTable == Table({}, {}, {"pageSize"}, "all")

DataExportOffers ==
  [pending |-> {}, processing |-> {}, completed |-> {"download"}, failed |-> {}]

\* Its export is created from here, and shown by the page it leaves for.
AuditLogsPage ==
  Screen([logs |-> Query(<<"audit-logs">>, auditLogsApi["listPaginated"])],
         [export |-> Call(dataExportsApi["create"], {}, {"leaves"})])

\* An effect on the filters goes back to the first page.  Its handler sends
\* no total.
AuditLogFilters == {"resourceType", "action", "actorType", "resourceId", "dates"}
AuditLogsTable  == Table(AuditLogFilters, {}, AuditLogFilters \union {"pageSize"}, "none")

-----------------------------------------------------------------------------
(* Integrations (pages/admin/IntegrationsPage.tsx, IntegrationDetailPage.tsx) *)

\* No key and no effect: the inputs are seeded when the page mounts.
IntegrationFormDialog == Form({"new", "row"}, TRUE, "mount", {}, "answer", TRUE)

IntegrationsPage ==
  Screen([integrations |-> Query(<<"integrations">>, integrationsApi["list"])],
         [create |-> Call(integrationsApi["create"], {<<"integrations">>}, {}),
          update |-> Call(integrationsApi["update"], {<<"integrations">>}, {"row"}),
          delete |-> Call(integrationsApi["delete"], {<<"integrations">>}, {"row", "open"}),
          test   |-> Call(integrationsApi["testConnection"], {}, {"row", "open"})])

IntegrationsList == WholeList({})

\* The form of the settings is mounted with the first answer.
ProviderSettingsForm == Form({"item"}, TRUE, "page", {}, "never", TRUE)

IntegrationDetailPage ==
  Screen([integration |-> Query(<<"integration">>, integrationsApi["get"]),
          customers   |-> Query(<<"integration-customers">>, integrationsApi["listCustomers"]),
          mappings    |-> Query(<<"integration-mappings">>, integrationsApi["listMappings"]),
          history     |-> Query(<<"integration-sync-history">>,
                                integrationsApi["listSyncHistory"])],
         [update |-> Call(integrationsApi["update"], {<<"integration">>}, {"row"}),
          delete |-> Call(integrationsApi["delete"], {}, {"row", "open", "leaves"}),
          test   |-> Call(integrationsApi["testConnection"], {}, {"row"})])

-----------------------------------------------------------------------------
(* The organization (pages/admin/SettingsPage.tsx, ApiKeysPage.tsx,
   OnboardingPage.tsx, hooks/use-organization.ts)                            *)

\* Kept for five minutes.
useOrganization == Kept(Query(<<"organization">>, organizationsApi["getCurrent"]))

SettingsPage ==
  Screen([organization |-> useOrganization],
         [update |-> Call(organizationsApi["updateCurrent"], {<<"organization">>}, {"row"})])

\* Seeded once from the organization; the Save button of either section
\* sends the inputs of both.
SettingsForm == Form({"item"}, TRUE, "page", {}, "never", TRUE)

ApiKeysPage ==
  Screen([keys |-> Query(<<"api-keys">>, organizationsApi["listApiKeys"])],
         [create |-> Call(organizationsApi["createApiKey"], {<<"api-keys">>}, {}),
          revoke |-> Call(organizationsApi["revokeApiKey"], {<<"api-keys">>}, {"row", "open"}),
          rotate |-> Call(organizationsApi["rotateApiKey"], {<<"api-keys">>}, {"row", "open"})])

ApiKeyForm == Form({"new"}, FALSE, "mount", {"success"}, "answer", TRUE)

ApiKeyOffers == [active |-> {"rotate", "revoke"}, revoked |-> {"revoke"}]

OnboardingPage ==
  Screen([organization |-> useOrganization,
          entities     |-> Query(<<"billing-entities-onboarding">>, billingEntitiesApi["list"]),
          plans        |-> Query(<<"plans-onboarding">>, plansApi["list"])],
         NoCalls)

-----------------------------------------------------------------------------
(* Billing entities (pages/admin/BillingEntitiesPage.tsx,
   BillingEntityFormPage.tsx)                                                *)

BillingEntitiesPage ==
  Screen([entities |-> Query(<<"billing-entities">>, billingEntitiesApi["listPaginated"]),
          counts   |-> Query(<<"billing-entity-customer-counts">>,
                             billingEntitiesApi["customerCounts"])],
         [delete |-> Call(billingEntitiesApi["delete"],
                          {<<"billing-entities">>, <<"billing-entity-customer-counts">>},
                          {"row", "open"})])

BillingEntitiesTable == Table({}, {"search"}, {"pageSize"}, "all")

BillingEntityFormPage ==
  Screen([entity |-> While(Query(<<"billing-entity">>, billingEntitiesApi["get"]))],
         [create |-> Call(billingEntitiesApi["create"], {<<"billing-entities">>}, {"leaves"}),
          update |-> Call(billingEntitiesApi["update"],
                          {<<"billing-entities">>, <<"billing-entity">>}, {"row", "leaves"})])

BillingEntityForm == Form({"new", "item"}, TRUE, "page", {}, "answer", TRUE)

-----------------------------------------------------------------------------
(* The dashboard (pages/admin/DashboardPage.tsx, RevenueAnalyticsPage.tsx)   *)

DashboardPage ==
  Screen([stats         |-> Query(<<"dashboard-stats">>, dashboardApi["getStats"]),
          revenue       |-> Query(<<"dashboard-revenue">>, dashboardApi["getRevenue"]),
          customers     |-> Query(<<"dashboard-customers">>, dashboardApi["getCustomerMetrics"]),
          subscriptions |-> Query(<<"dashboard-subscriptions">>,
                                  dashboardApi["getSubscriptionMetrics"]),
          usage         |-> Query(<<"dashboard-usage">>, dashboardApi["getUsageMetrics"]),
          activity      |-> Polled(Query(<<"dashboard-activity">>,
                                         dashboardApi["getRecentActivity"])),
          recentInvoices      |-> Query(<<"dashboard-recent-invoices">>,
                                        dashboardApi["getRecentInvoices"]),
          recentSubscriptions |-> Query(<<"dashboard-recent-subscriptions">>,
                                        dashboardApi["getRecentSubscriptions"]),
          sparklines    |-> Query(<<"dashboard-sparklines">>, dashboardApi["getSparklines"]),
          revenueByPlan |-> Query(<<"dashboard-revenue-by-plan">>,
                                  dashboardApi["getRevenueByPlan"])],
         NoCalls)

RevenueAnalyticsPage ==
  Screen([analytics |-> Query(<<"revenue-analytics">>, dashboardApi["getRevenueAnalytics"])],
         NoCalls)

-----------------------------------------------------------------------------
(* The frame (components/NotificationBell.tsx, CommandPalette.tsx)           *)

\* Reading a row of the list marks it; the rows stay enabled meanwhile.
NotificationBell ==
  Screen([count |-> Polled(Query(<<"notifications", "unread-count">>,
                                 notificationsApi["unreadCount"])),
          list  |-> While(Query(<<"notifications", "list">>, notificationsApi["list"]))],
         [markRead    |-> Call(notificationsApi["markAsRead"], {<<"notifications">>},
                               {"row", "open"}),
          markAllRead |-> Call(notificationsApi["markAllAsRead"], {<<"notifications">>},
                               {"row"})])

CommandPalette ==
  Screen([results |-> Kept(While(Query(<<"global-search">>, searchApi["search"])))], NoCalls)
=============================================================================
