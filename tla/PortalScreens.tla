----------------------------- MODULE PortalScreens -----------------------------
(***************************************************************************)
(* The customer portal's screens.  Every key also holds the token of the    *)
(* portal link, which only tells one customer's queries from another's.     *)
(***************************************************************************)
EXTENDS ApiClient, Screens

\* Three pages and the layout share the customer (layouts/PortalLayout.tsx).
PortalCustomer == Query(<<"portal-customer">>, portalApi["getCustomer"])
PortalBranding == Kept(Query(<<"portal-branding">>, portalApi["getBranding"]))

PortalLayout == Screen([customer |-> PortalCustomer, branding |-> PortalBranding], NoCalls)

\* (pages/portal/PortalDashboardPage.tsx)
PortalDashboardPage ==
  Screen([customer |-> PortalCustomer,
          invoices |-> Query(<<"portal-invoices">>, portalApi["listInvoices"]),
          wallets  |-> Query(<<"portal-wallets">>, portalApi["getWallets"]),
          summary  |-> Query(<<"portal-dashboard-summary">>, portalApi["getDashboardSummary"])],
         NoCalls)

\* (pages/portal/PortalInvoicesPage.tsx) Paying answers with the address of a
\* checkout, opened beside; the list learns of the payment by a refetch.
PortalInvoicesPage ==
  Screen([invoices |-> Query(<<"portal-invoices">>, portalApi["listInvoices"]),
          payments |-> While(Query(<<"portal-invoice-payments">>,
                                   portalApi["getInvoicePayments"]))],
         [pay |-> Call(portalApi["payInvoice"], {}, {"row"})])

PortalInvoicesTable == WholeList({})

PortalInvoiceOffers ==
  [draft |-> {}, finalized |-> {"pay", "pdf"}, paid |-> {"pdf"}, voided |-> {}]

\* (pages/portal/PortalUsagePage.tsx)
PortalUsagePage ==
  Screen([subscriptions |-> Query(<<"portal-subscriptions">>, portalApi["listSubscriptions"]),
          usage         |-> While(Query(<<"portal-usage">>, portalApi["getCurrentUsage"])),
          trend         |-> While(Query(<<"portal-usage-trend">>, portalApi["getUsageTrend"])),
          limits        |-> While(Query(<<"portal-usage-limits">>, portalApi["getUsageLimits"])),
          projected     |-> While(Query(<<"portal-projected-usage">>,
                                        portalApi["getProjectedUsage"]))],
         NoCalls)

\* (pages/portal/PortalPaymentsPage.tsx)
PortalPaymentsPage ==
  Screen([payments |-> Query(<<"portal-payments">>, portalApi["listPayments"])], NoCalls)

\* (pages/portal/PortalWalletPage.tsx) The transactions and the timeline are
\* those of the first wallet.
PortalWalletPageWrong ==
  Screen([timeline |-> While(Query(<<"portal-wallet-timeline">>,
                                   portalApi["getWalletBalanceTimeline"]))],
         [topUp |-> Call(portalApi["topUpWallet"], {<<"portal-wallets">>}, {"row"})])
PortalWalletPage ==
  Screen([wallets      |-> Query(<<"portal-wallets">>, portalApi["getWallets"]),
          transactions |-> While(Query(<<"portal-wallet-transactions">>,
                                       portalApi["getWalletTransactions"])),
          timeline     |-> While(Query(<<"portal-wallet-timeline">>,
                                       portalApi["getWalletBalanceTimeline"]))],
         [topUp |-> Call(portalApi["topUpWallet"],
                         {<<"portal-wallets">>, <<"portal-wallet-transactions">>,
                          <<"portal-wallet-timeline">>}, {"row"})])

PortalTopUpDialogWrong == Form({"new"}, FALSE, "mount", {}, "answer", TRUE)
PortalTopUpDialog == Form({"new"}, FALSE, "mount", {"success"}, "answer", TRUE)

\* (pages/portal/PortalSubscriptionsPage.tsx)
PortalSubscriptionsPage ==
  Screen([subscriptions |-> Query(<<"portal-subscriptions">>, portalApi["listSubscriptions"]),
          plans         |-> While(Query(<<"portal-plans">>, portalApi["listPlans"])),
          preview       |-> While(Query(<<"portal-change-plan-preview">>,
                                        portalApi["changePlanPreview"]))],
         [changePlan |-> Call(portalApi["changePlan"], {<<"portal-subscriptions">>}, {"row"})])

\* Mounted for the subscription it is about; its preview is a query, so that
\* the answer shown is always that of the plan chosen.
PortalChangePlanDialog == Form({"row"}, FALSE, "opening", {}, "answer", TRUE)

PortalSubscriptionOffers ==
  [pending |-> {}, active |-> {"changePlan"}, paused |-> {}, canceled |-> {},
   terminated |-> {}]

\* (pages/portal/PortalPaymentMethodsPage.tsx)
PortalPaymentMethodsPage ==
  Screen([customer |-> PortalCustomer,
          methods  |-> Query(<<"portal-payment-methods">>, portalApi["listPaymentMethods"])],
         [setDefault |-> Call(portalApi["setDefaultPaymentMethod"],
                              {<<"portal-payment-methods">>}, {"row"}),
          delete     |-> Call(portalApi["deletePaymentMethod"],
                              {<<"portal-payment-methods">>}, {"row", "open"}),
          add        |-> Call(portalApi["addPaymentMethod"],
                              {<<"portal-payment-methods">>}, {"row"})])

\* Nothing empties it: the identifier of the method added is still there.
AddPaymentMethodDialog == Form({"new"}, FALSE, "mount", {}, "answer", TRUE)

PortalPaymentMethodOffers == [default |-> {}, other |-> {"setDefault", "delete"}]

\* (pages/portal/PortalAddOnsPage.tsx)
PortalAddOnsPage ==
  Screen([addOns    |-> Query(<<"portal-add-ons">>, portalApi["listAddOns"]),
          purchased |-> Query(<<"portal-purchased-add-ons">>, portalApi["listPurchasedAddOns"])],
         [purchase |-> Call(portalApi["purchaseAddOn"],
                            {<<"portal-purchased-add-ons">>, <<"portal-add-ons">>}, {"row"})])

\* Unlike the console's, this confirmation is disabled while it is pending.
PurchaseConfirmation == [Confirmation EXCEPT !.guarded = TRUE]

\* (pages/portal/PortalCouponsPage.tsx)
PortalCouponsPage ==
  Screen([coupons |-> Query(<<"portal-coupons">>, portalApi["listCoupons"])],
         [redeem |-> Call(portalApi["redeemCoupon"], {<<"portal-coupons">>}, {})])

RedeemForm == Form({"new"}, FALSE, "mount", {"success"}, "answer", TRUE)

\* (pages/portal/PortalProfilePage.tsx) Seeded once from the customer, and
\* what it sends is what differs from the customer as shown.
PortalProfilePage ==
  Screen([customer |-> PortalCustomer],
         [update |-> Call(portalApi["updateProfile"], {<<"portal-customer">>}, {"row"})])

ProfileForm == Form({"item"}, TRUE, "page", {}, "never", TRUE)
=============================================================================
