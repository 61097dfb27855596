------------------------------ MODULE StatusRules ------------------------------
(***************************************************************************)
(* What the server does with an action on an item, by the item's status:    *)
(* the checks of the routers, services and repositories of src/backend/app. *)
(* An action is the set of the pairs of a status that it accepts and a      *)
(* status that it may leave; in any other status it is refused.             *)
(***************************************************************************)

\* An action that accepts some statuses and leaves them as they are, or
\* turns them into another one.
Stay(from)     == {<<s, s>> : s \in from}
Turn(from, to) == {<<s, to>> : s \in from}

InvoiceRules ==
  [finalize |-> Turn({"draft"}, "finalized") \union Turn({"draft"}, "paid"),
   void     |-> Turn({"draft", "finalized", "voided"}, "voided"),
   email    |-> Stay({"finalized", "paid"}),
   remind   |-> Stay({"finalized"}),
   pay      |-> Stay({"finalized"}),
   pdf      |-> Stay({"finalized", "paid"})]

PaymentRules ==
  [markPaid |-> Turn({"pending"}, "succeeded"),
   refund   |-> Turn({"succeeded"}, "refunded"),
   retry    |-> Turn({"failed"}, "pending"),
   delete   |-> Turn({"pending"}, "gone")]

\* A voided credit note keeps its status: what is voided is its credit.
CreditNoteRules ==
  [update   |-> Stay({"draft"}),
   finalize |-> Turn({"draft"}, "finalized"),
   void     |-> Turn({"finalized", "voided"}, "voided"),
   email    |-> Stay({"finalized", "voided"})]

Coupons == {"active", "terminated"}

CouponRules ==
  [update    |-> Stay(Coupons),
   apply     |-> Stay({"active"}),
   duplicate |-> Stay(Coupons),
   terminate |-> Turn(Coupons, "terminated")]

\* Of a default payment method and another one.
PaymentMethodRules ==
  [setDefault |-> Turn({"default", "other"}, "default"),
   delete     |-> Turn({"other"}, "gone")]

Running == {"pending", "active", "paused"}

\* A change of the plan is an update of the subscription.
SubscriptionRulesWrong ==
  [update    |-> Stay(Running), changePlan |-> Stay(Running),
   activate  |-> Turn({"pending"}, "active"), cancel |-> Turn(Running, "canceled"),
   pause     |-> Turn({"active", "paused"}, "paused"),
   resume    |-> Turn({"paused"}, "active"),
   terminate |-> Turn(Running, "terminated")]
SubscriptionRules ==
  [update     |-> Stay(Running \union {"canceled", "terminated"}),
   changePlan |-> Stay(Running \union {"canceled", "terminated"}),
   activate   |-> Turn({"pending"}, "active"),
   pause      |-> Turn({"active"}, "paused"),
   resume     |-> Turn({"paused"}, "active"),
   terminate  |-> Turn(Running, "terminated"),
   cancel     |-> Turn(Running, "canceled")]

\* The portal refuses to change the plan of any but an active subscription.
PortalSubscriptionRules == [changePlan |-> Stay({"active"})]

WalletRules ==
  [update    |-> Stay({"active", "terminated"}),
   topUp     |-> Stay({"active"}),
   transfer  |-> Stay({"active"}),
   terminate |-> Turn({"active"}, "terminated")]

\* A retry delivers in the same request.
WebhookRules ==
  [retry |-> Turn({"failed"}, "pending") \union Turn({"failed"}, "succeeded")
               \union Stay({"failed"})]

DataExportRules == [download |-> Stay({"completed"})]

ApiKeyRules ==
  [rotate |-> Turn({"active"}, "revoked"),
   revoke |-> Turn({"active", "revoked"}, "revoked")]
=============================================================================
