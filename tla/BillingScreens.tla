---------------------------- MODULE BillingScreens ----------------------------
(***************************************************************************)
(* The admin console's screens of billing: invoices, fees, payments,        *)
(* payment requests, payment methods, credit notes and dunning.             *)
(***************************************************************************)
EXTENDS ApiClient, Screens

-----------------------------------------------------------------------------
(* Invoices (pages/admin/InvoicesPage.tsx)                                   *)

OneOffInvoiceForm == Form({"new"}, FALSE, "mount", {"escape", "cancel", "success"}, "answer", TRUE)

OneOffInvoiceDialog ==
  Screen([customers |-> While(Query(<<"customers">>, customersApi["list"]))],
         [create |-> Call(invoicesApi["createOneOff"], {<<"invoices">>}, {})])

\* The preview is asked by a mutation, and its answer kept until the dialog
\* is closed or another one is asked.
InvoicePreviewDialog ==
  Screen([subscriptions |-> While(Query(<<"subscriptions">>, subscriptionsApi["list"]))],
         [preview |-> Call({}, {}, {})])

InvoicesPage ==
  Screen([invoices |-> Query(<<"invoices">>, invoicesApi["listPaginated"])],
         [bulkFinalize |-> Call(invoicesApi["bulkFinalize"], {<<"invoices">>}, {"row"}),
          bulkVoid     |-> Call(invoicesApi["bulkVoid"], {<<"invoices">>}, {"row"})])

InvoicesTableWrong == Table({"status"}, {"search"}, {"pageSize"}, "all")
InvoicesTable == Table({"status"}, {"search"}, {"status", "pageSize"}, "all")
InvoicesSelectable == {"draft", "finalized"}

\* A selected row that is shown counts for the bulk actions of its status.
InvoiceBulkOffers == [draft     |-> {"finalize", "void"}, finalized |-> {"void"},
                      paid      |-> {}, voided |-> {}]

\* (pages/admin/InvoiceDetailPage.tsx)
InvoiceDetailPage ==
  Screen([invoice     |-> Query(<<"invoice">>, invoicesApi["get"]),
          customer    |-> While(Query(<<"customer">>, customersApi["get"])),
          fees        |-> Query(<<"invoice-fees">>, feesApi["list"]),
          taxes       |-> Query(<<"invoice-taxes">>, taxesApi["listApplied"]),
          settlements |-> Query(<<"invoice-settlements">>, invoicesApi["listSettlements"]),
          creditNotes |-> Query(<<"invoice-credit-notes">>, creditNotesApi["list"]),
          audit       |-> Query(<<"audit-trail">>, auditLogsApi["getForResource"])],
         [finalize |-> Call(invoicesApi["finalize"], {<<"invoice">>, <<"invoices">>}, {"row"}),
          void     |-> Call(invoicesApi["void"], {<<"invoice">>, <<"invoices">>}, {"row"}),
          email    |-> Call(invoicesApi["sendEmail"], {}, {"row"}),
          remind   |-> Call(invoicesApi["sendReminder"], {}, {"row"})])

\* The buttons of the wide layout and the menu of the narrow one agree.
InvoiceOffersWrong == [draft |-> {"finalize", "void"}, finalized |-> {"void"},
                       paid |-> {"void"}, voided |-> {}]
InvoiceOffers == [draft     |-> {"finalize", "void"},
                  finalized |-> {"void", "remind", "email"},
                  paid      |-> {"email"},
                  voided    |-> {}]

-----------------------------------------------------------------------------
(* Fees (pages/admin/FeesPage.tsx)                                           *)

AppliedTaxesSection == While(Query(<<"fee-taxes">>, taxesApi["listApplied"]))

FeesPage ==
  Screen([fees      |-> Query(<<"fees">>, feesApi["listPaginated"]),
          customers |-> Query(<<"customers">>, customersApi["list"]),
          invoices  |-> Query(<<"invoices">>, invoicesApi["list"]),
          taxes     |-> AppliedTaxesSection],
         [update |-> Call(feesApi["update"], {<<"fees">>}, {"row"})])

\* Both filters are sent to the server, and changing one keeps the page.
FeesTableWrong == Table({"feeType", "paymentStatus"}, {"search"}, {}, "all")
FeesTable == Table({"feeType", "paymentStatus"}, {"search"}, {"pageSize"}, "all")

FeeEditDialogWrong == Form({"row"}, TRUE, "mount", {}, "answer", TRUE)
FeeEditDialog == Form({"row"}, TRUE, "opening", {}, "answer", TRUE)

-----------------------------------------------------------------------------
(* Payments (pages/admin/PaymentsPage.tsx)                                   *)

PaymentsPage ==
  Screen([payments  |-> Query(<<"payments">>, paymentsApi["listPaginated"]),
          customers |-> Query(<<"customers">>, customersApi["list"]),
          invoices  |-> Query(<<"invoices">>, invoicesApi["list"])],
         [markPaid     |-> Call(paymentsApi["markPaid"],
                                {<<"payments">>, <<"invoices">>}, {"row"}),
          refund       |-> Call(paymentsApi["refund"], {<<"payments">>}, {"row"}),
          retry        |-> Call(paymentsApi["retry"], {<<"payments">>}, {"row"}),
          delete       |-> Call(paymentsApi["delete"], {<<"payments">>}, {"row"}),
          recordManual |-> Call(paymentsApi["recordManual"],
                                {<<"payments">>, <<"invoices">>}, {})])

\* Both filters are sent to the server, and changing one keeps the page.
PaymentsTable == Table({"status", "provider"}, {"search"}, {"pageSize"}, "all")

PaymentOffers == [pending   |-> {"markPaid", "delete"},
                  succeeded |-> {"refund"},
                  failed    |-> {"retry"},
                  processing |-> {}, refunded |-> {}, canceled |-> {}]

\* One dialog confirms all four actions; it stays until the answer, and the
\* fields of a refund are emptied when it closes.
PaymentConfirmDialog ==
  Form({"row"}, FALSE, "opening", {"escape", "cancel", "success"}, "answer", TRUE)

RecordPaymentDialog ==
  Form({"new"}, FALSE, "mount", {"escape", "cancel", "success"}, "answer", TRUE)

-----------------------------------------------------------------------------
(* Payment requests (pages/admin/PaymentRequestsPage.tsx)                    *)

\* The timeline of attempts is asked while the details of a request are open.
AttemptHistoryTimeline ==
  While(Query(<<"payment-request-attempts">>, paymentRequestsApi["getAttempts"]))

BatchCreateDialog ==
  Screen(NoQueries,
         [batch |-> Call(paymentRequestsApi["batchCreate"], {<<"payment-requests">>}, {})])

\* Closing it empties it, but its success closes it through the page's state,
\* which does not.
CreatePaymentRequestDialog ==
  Form({"new"}, FALSE, "mount", {"escape", "cancel"}, "answer", TRUE)

CustomerInvoicesOfRequest == While(Query(<<"invoices">>, invoicesApi["list"]))

PaymentRequestsPage ==
  Screen([requests  |-> Query(<<"payment-requests">>, paymentRequestsApi["listPaginated"]),
          customers |-> Query(<<"customers">>, customersApi["list"]),
          attempts  |-> AttemptHistoryTimeline,
          invoices  |-> CustomerInvoicesOfRequest],
         [create |-> Call(paymentRequestsApi["create"], {<<"payment-requests">>}, {})])

PaymentRequestsTable == Table({}, {"search", "status"}, {"pageSize"}, "all")

-----------------------------------------------------------------------------
(* Payment methods (pages/admin/PaymentMethodsPage.tsx)                      *)

PaymentMethodsPage ==
  Screen([methods   |-> Query(<<"payment-methods">>, paymentMethodsApi["listPaginated"]),
          customers |-> Query(<<"customers">>, customersApi["list"])],
         [create     |-> Call(paymentMethodsApi["create"], {<<"payment-methods">>}, {}),
          delete     |-> Call(paymentMethodsApi["delete"], {<<"payment-methods">>},
                              {"row", "open"}),
          setDefault |-> Call(paymentMethodsApi["setDefault"], {<<"payment-methods">>},
                              {"row", "open"})])

\* Its handler sends no total, so that its bar says "No results".
PaymentMethodsTable == Table({"customer"}, {"search"}, {"customer", "pageSize"}, "none")

\* (components/PaymentMethodFormDialog.tsx) Only the dialog's own dismissal
\* empties it: its Cancel button and its success go through the parent.
PaymentMethodFormDialog == Form({"new"}, FALSE, "mount", {"escape"}, "answer", TRUE)

PaymentMethodOffers == [default |-> {}, other |-> {"setDefault", "delete"}]

-----------------------------------------------------------------------------
(* Credit notes (pages/admin/CreditNotesPage.tsx, CreditNoteFormPage.tsx)    *)

\* The details show the row; the document is only offered once finalized.
CreditNoteDetailDialog ==
  Screen(NoQueries, [download |-> Call(creditNotesApi["downloadPdf"], {}, {"row"}),
                     email    |-> Call(creditNotesApi["sendEmail"], {}, {"row"})])

CreditNotesPage ==
  Screen([creditNotes |-> Query(<<"credit-notes">>, creditNotesApi["listPaginated"]),
          customers   |-> Query(<<"customers">>, customersApi["list"])],
         [finalize |-> Call(creditNotesApi["finalize"], {<<"credit-notes">>}, {"row", "open"}),
          void     |-> Call(creditNotesApi["void"], {<<"credit-notes">>}, {"row", "open"})])

CreditNotesTable == Table({}, {"search", "status"}, {"pageSize"}, "all")

CreditNoteOffers == [draft     |-> {"update", "finalize"},
                     finalized |-> {"void", "email"},
                     voided    |-> {}]

\* The page is left by its success.  The invoices and fees it offers are
\* asked once a customer and an invoice are chosen.
CreditNoteFormPage ==
  Screen([creditNote |-> While(Query(<<"credit-note">>, creditNotesApi["get"])),
          customers  |-> Query(<<"customers">>, customersApi["list"]),
          invoices   |-> While(Query(<<"invoices-for-cn">>, invoicesApi["list"])),
          fees       |-> While(Query(<<"fees-for-cn">>, feesApi["list"]))],
         [create |-> Call(creditNotesApi["create"], {<<"credit-notes">>}, {"leaves"}),
          update |-> Call(creditNotesApi["update"],
                          {<<"credit-notes">>, <<"credit-note">>}, {"row", "leaves"})])

\* It takes the values of the credit note from the first answer it is given,
\* which can be the one of an earlier visit, and keeps them ("initialized").
CreditNoteForm == Form({"new", "item"}, TRUE, "page", {}, "answer", TRUE)

-----------------------------------------------------------------------------
(* Dunning (pages/admin/DunningCampaignsPage.tsx,                            *)
(* DunningCampaignDetailPage.tsx)                                            *)

DunningCampaignFormDialog == Form({"new", "row"}, TRUE, "mount", {}, "answer", TRUE)

DunningRefreshes == {<<"dunning-campaigns">>, <<"dunning-campaigns-performance-stats">>}

DunningCampaignsPage ==
  Screen([campaigns |-> Query(<<"dunning-campaigns">>, dunningCampaignsApi["listPaginated"]),
          stats     |-> Query(<<"dunning-campaigns-performance-stats">>,
                              dunningCampaignsApi["performanceStats"])],
         [create |-> Call(dunningCampaignsApi["create"], DunningRefreshes, {}),
          update |-> Call(dunningCampaignsApi["update"], DunningRefreshes, {"row"}),
          delete |-> Call(dunningCampaignsApi["delete"], DunningRefreshes, {"row", "open"})])

DunningCampaignsTable == Table({}, {"search", "status"}, {"pageSize"}, "all")

ExecutionHistoryTab ==
  While(Query(<<"dunning-campaign-history">>, dunningCampaignsApi["executionHistory"]))

TimelineTab == While(Query(<<"dunning-campaign-timeline">>, dunningCampaignsApi["timeline"]))

\* The preview is a POST that changes nothing: asked once by the button, and
\* as a query from then on.
PreviewTab ==
  Screen([preview |-> While(Query(<<"dunning-campaign-preview">>, dunningCampaignsApi["preview"]))],
         [preview |-> Call({}, {<<"dunning-campaign-preview">>}, {})])

DunningCampaignDetailPage ==
  Screen([campaign |-> Query(<<"dunning-campaign">>, dunningCampaignsApi["get"]),
          history  |-> ExecutionHistoryTab,
          timeline |-> TimelineTab,
          audit    |-> Query(<<"audit-trail">>, auditLogsApi["getForResource"])],
         NoCalls)
=============================================================================
