------------------------------ MODULE ApiClient ------------------------------
(***************************************************************************)
(* The browser's client of the HTTP API (src/frontend/src/lib/api.ts).      *)
(*                                                                          *)
(* One function per section of that file, from the names of its methods to  *)
(* sets of resources.  A GET method stands for the resources its answer is  *)
(* computed from, any other method for the resources its handler changes:   *)
(* both are read from the routers (src/backend/app/routers) and the         *)
(* services and repositories they call.  A resource is the set of all the   *)
(* rows of a table of one organization; only what some screen shows is      *)
(* named, so the webhooks that a write queues are left out.  Methods that   *)
(* no screen calls are left out too.                                        *)
(***************************************************************************)
EXTENDS TLC

LOCAL All(methods, resources) == [m \in methods |-> resources]

-----------------------------------------------------------------------------
portalApi ==
     All({"getDashboardSummary"}, {"invoice", "subscription", "wallet", "charge"})
  @@ All({"getCustomer"}, {"customer"})
  @@ All({"getBranding"}, {"organization"})
  @@ All({"listInvoices", "getInvoice", "previewInvoicePdf"}, {"invoice"})
  @@ All({"downloadInvoicePdf"}, {})
  @@ All({"payInvoice"}, {"payment"})
  @@ All({"getInvoicePayments", "listPayments"}, {"payment"})
  @@ All({"getCurrentUsage", "getUsageTrend", "getUsageLimits",
          "getProjectedUsage"}, {"event", "subscription", "plan"})
  @@ All({"getWallet", "getWallets"}, {"wallet"})
  @@ All({"getWalletTransactions", "getWalletBalanceTimeline"}, {"walletTransaction"})
  @@ All({"topUpWallet"}, {"wallet", "walletTransaction"})
  @@ All({"updateProfile"}, {"customer"})
  @@ All({"listPaymentMethods", "addPaymentMethod", "deletePaymentMethod",
          "setDefaultPaymentMethod"}, {"paymentMethod"})
  @@ All({"listSubscriptions", "getSubscription", "changePlanPreview"},
         {"subscription", "plan"})
  @@ All({"listPlans"}, {"plan"})
  @@ All({"changePlan"}, {"subscription"})
  @@ All({"listAddOns"}, {"addOn"})
  @@ All({"listPurchasedAddOns"}, {"appliedAddOn", "addOn"})
  @@ All({"purchaseAddOn"}, {"appliedAddOn", "invoice", "fee"})
  @@ All({"listCoupons"}, {"appliedCoupon", "coupon"})
  @@ All({"redeemCoupon"}, {"appliedCoupon"})

customersApi ==
     All({"list", "listPaginated", "get"}, {"customer"})
  @@ All({"create", "update", "delete"}, {"customer", "audit"})
  @@ All({"getAppliedCoupons"}, {"appliedCoupon"})
  @@ All({"getAppliedAddOns"}, {"appliedAddOn", "addOn"})
  @@ All({"getCurrentUsage", "getProjectedUsage", "getPastUsage"},
         {"event", "subscription", "plan"})
  @@ All({"getPortalUrl"}, {})
  @@ All({"getHealth"}, {"invoice", "payment"})
  @@ All({"getIntegrationMappings"}, {"integrationCustomer", "integration"})

billableMetricsApi ==
     All({"list", "listPaginated", "get", "stats"}, {"metric"})
  @@ All({"create", "update"}, {"metric", "audit"})
  @@ All({"delete"}, {"metric", "metricFilter", "audit"})
  @@ All({"planCounts", "metricPlans"}, {"charge", "plan"})
  @@ All({"listFilters", "createFilter", "deleteFilter"}, {"metricFilter"})

plansApi ==
     All({"list", "listPaginated", "get"}, {"plan", "charge"})
  @@ All({"create", "update", "delete"}, {"plan", "charge", "audit"})
  @@ All({"subscriptionCounts"}, {"subscription"})
  @@ All({"simulate"}, {"plan", "charge"})

\* A change in the life of a subscription may bill: an activation can create
\* an invoice, and the end of a subscription an invoice or a credit note.
subscriptionsApi ==
     All({"list", "listPaginated", "get"}, {"subscription"})
  @@ All({"create", "update", "pause", "resume", "bulkPause", "bulkResume"},
         {"subscription", "audit"})
  @@ All({"activate"}, {"subscription", "invoice", "audit"})
  @@ All({"cancel", "terminate", "bulkTerminate"},
         {"subscription", "invoice", "creditNote", "audit"})
  @@ All({"getEntitlements"}, {"entitlement"})
  @@ All({"getLifecycle"}, {"subscription", "invoice", "payment"})
  @@ All({"changePlanPreview", "getNextBillingDate"}, {"subscription", "plan"})
  @@ All({"getUsageTrend"}, {"event", "subscription", "plan"})

\* Accepted events also enqueue the checks of thresholds and alerts, which
\* change their tables later, in the worker and not in the answer.
eventsApi ==
     All({"list", "listPaginated", "get", "getVolume", "create", "createBatch"}, {"event"})
  @@ All({"estimateFees"}, {"event", "plan", "charge"})
  @@ All({"reprocess"}, {})

feesApi ==
     All({"list", "listPaginated", "get", "update"}, {"fee"})

\* Finalizing consumes prepaid credit and charges the default payment method,
\* so that it can settle and pay the invoice in the same request.
invoicesApi ==
     All({"list", "listPaginated", "get", "update", "delete"}, {"invoice"})
  @@ All({"finalize"}, {"invoice", "settlement", "wallet", "payment", "audit"})
  @@ All({"bulkFinalize", "pay", "void", "bulkVoid", "createOneOff"}, {"invoice", "audit"})
  @@ All({"listSettlements"}, {"settlement"})
  @@ All({"preview"}, {"event", "subscription", "plan"})
  @@ All({"previewPdf"}, {"invoice"})
  @@ All({"downloadPdf", "sendEmail", "sendReminder"}, {})

paymentsApi ==
     All({"list", "listPaginated", "get"}, {"payment"})
  @@ All({"createCheckout", "refund", "retry"}, {"payment", "audit"})
  @@ All({"delete"}, {"payment"})
  @@ All({"markPaid", "recordManual"}, {"payment", "invoice", "settlement"})

paymentMethodsApi ==
     All({"list", "listPaginated", "get", "create", "delete", "setDefault"}, {"paymentMethod"})
  @@ All({"createSetupSession"}, {})

walletsApi ==
     All({"list", "listPaginated", "get"}, {"wallet"})
  @@ All({"create", "topUp", "transfer"}, {"wallet", "walletTransaction", "audit"})
  @@ All({"update", "terminate"}, {"wallet", "audit"})
  @@ All({"listTransactions", "getBalanceTimeline"}, {"walletTransaction"})
  @@ All({"getDepletionForecast"}, {"wallet", "walletTransaction"})

couponsApi ==
     All({"list", "listPaginated", "get"}, {"coupon"})
  @@ All({"create", "update", "terminate", "duplicate"}, {"coupon", "audit"})
  @@ All({"apply", "removeApplied"}, {"appliedCoupon", "audit"})
  @@ All({"analytics"}, {"appliedCoupon", "coupon"})

addOnsApi ==
     All({"list", "listPaginated", "get"}, {"addOn"})
  @@ All({"create", "update", "delete"}, {"addOn", "audit"})
  @@ All({"apply"}, {"appliedAddOn", "invoice", "fee", "audit"})
  @@ All({"applicationCounts", "applications"}, {"appliedAddOn"})

\* Finalizing a credit note of the refund kind refunds the payment.
creditNotesApi ==
     All({"list", "listPaginated", "get"}, {"creditNote"})
  @@ All({"create", "void"}, {"creditNote", "audit"})
  @@ All({"update"}, {"creditNote"})
  @@ All({"finalize"}, {"creditNote", "payment", "audit"})
  @@ All({"downloadPdf", "sendEmail"}, {})

taxesApi ==
     All({"list", "listPaginated", "get"}, {"tax"})
  @@ All({"create", "update", "delete"}, {"tax", "audit"})
  @@ All({"apply", "removeApplied"}, {"appliedTax", "audit"})
  @@ All({"listApplied", "applicationCounts", "appliedEntities"}, {"appliedTax"})

webhookEndpointsApi ==
     All({"list", "listPaginated", "get", "create", "update", "delete"}, {"webhookEndpoint"})
  @@ All({"listWebhooks", "listWebhooksPaginated", "getWebhook"}, {"webhook"})
  @@ All({"retryWebhook"}, {"webhook", "deliveryAttempt"})
  @@ All({"deliveryAttempts"}, {"deliveryAttempt"})
  @@ All({"deliveryStats"}, {"webhook", "webhookEndpoint"})

\* create also makes the first key; list is filtered by the session.
organizationsApi ==
     All({"create"}, {"organization", "apiKey"})
  @@ All({"list", "getCurrent"}, {"organization"})
  @@ All({"updateCurrent"}, {"organization", "audit"})
  @@ All({"listApiKeys"}, {"apiKey"})
  @@ All({"createApiKey", "revokeApiKey", "rotateApiKey"}, {"apiKey", "audit"})

dunningCampaignsApi ==
     All({"list", "listPaginated", "get"}, {"dunningCampaign"})
  @@ All({"create", "update", "delete"}, {"dunningCampaign", "audit"})
  @@ All({"performanceStats"}, {"dunningCampaign", "paymentRequest"})
  @@ All({"executionHistory", "timeline"}, {"dunningCampaign", "paymentRequest", "invoice"})
  @@ All({"preview"}, {"dunningCampaign", "invoice"})

commitmentsApi ==
     All({"listForPlan"}, {"commitment"})
  @@ All({"createForPlan", "update", "delete"}, {"commitment", "audit"})

usageThresholdsApi ==
     All({"listForPlan", "listForSubscription", "createForPlan",
          "createForSubscription", "delete"}, {"usageThreshold"})
  @@ All({"getCurrentUsage"}, {"event", "subscription", "plan"})

integrationsApi ==
     All({"list", "get", "create", "update", "delete"}, {"integration"})
  @@ All({"testConnection"}, {})
  @@ All({"listCustomers"}, {"integrationCustomer"})
  @@ All({"listMappings"}, {"integrationMapping"})
  @@ All({"listSyncHistory"}, {"integrationSync"})

\* create answers after the export was processed, in the same request.
dataExportsApi ==
     All({"list", "listPaginated", "get", "create"}, {"dataExport"})
  @@ All({"estimate", "download"}, {})

\* A request is emailed and charged by the worker, never by the handler.
paymentRequestsApi ==
     All({"list", "listPaginated", "get"}, {"paymentRequest"})
  @@ All({"create", "batchCreate"}, {"paymentRequest"})
  @@ All({"getAttempts"}, {"paymentRequest", "audit"})

auditLogsApi ==
     All({"list", "listPaginated", "getForResource"}, {"audit"})

billingEntitiesApi ==
     All({"list", "listPaginated", "get", "create", "update", "delete"}, {"billingEntity"})
  @@ All({"customerCounts"}, {"customer"})

featuresApi ==
     All({"list", "listPaginated", "get"}, {"feature"})
  @@ All({"create", "update", "delete"}, {"feature", "audit"})
  @@ All({"planCounts"}, {"entitlement"})

entitlementsApi ==
     All({"list"}, {"entitlement"})
  @@ All({"create", "update", "delete", "copy"}, {"entitlement", "audit"})

usageAlertsApi ==
     All({"list", "listPaginated", "get", "create", "update", "delete"}, {"usageAlert"})
  @@ All({"getStatus", "test"}, {"usageAlert", "event", "subscription"})
  @@ All({"listTriggers"}, {"usageAlertTrigger"})

dashboardApi ==
     All({"getStats"}, {"customer", "subscription", "invoice", "wallet"})
  @@ All({"getRecentActivity"},
         {"customer", "subscription", "invoice", "payment", "creditNote", "walletTransaction"})
  @@ All({"getRevenue", "getRevenueByPlan", "getRecentInvoices"}, {"invoice"})
  @@ All({"getCustomerMetrics"}, {"customer", "subscription"})
  @@ All({"getSubscriptionMetrics", "getRecentSubscriptions"}, {"subscription"})
  @@ All({"getUsageMetrics"}, {"event"})
  @@ All({"getSparklines"}, {"invoice", "customer", "subscription"})
  @@ All({"getRevenueAnalytics"}, {"invoice", "creditNote", "payment"})

searchApi ==
  All({"search"}, {"customer", "invoice", "subscription", "plan"})

notificationsApi ==
  All({"list", "unreadCount", "markAsRead", "markAllAsRead"}, {"notification"})

authApi ==
     All({"login", "me"}, {"session"})
  @@ All({"logout"}, {})
  @@ All({"getOrgBySlug"}, {"organization"})
=============================================================================
