--------------------------- MODULE PaymentVerifier ---------------------------
(***************************************************************************)
(* What becomes of a result that the agent calls completed: the verdict of *)
(* verify_completed_payment (buyer/app/payment_verifier.py) and the event  *)
(* that _handle_completed, _handle_unverified or _handle_failed            *)
(* (buyer/app/service.py) sends first.  A URL is what the verifier looks   *)
(* at in it; an order id is a name, "" an id of blanks.                    *)
(***************************************************************************)
EXTENDS Sequences

Orders == {"", "o1", "o2"}
Merchants == {"litres", "brandshop", "other"}
Hosts == {"payecom.ru", "yoomoney.ru", "elsewhere"}
Paths == {"/pay_ru", "/checkout/payments/v2/contract", "/else"}
Sources == {"litres_payecom_iframe", "brandshop_yoomoney_sberpay_redirect",
            "payecom_payment_url", "yoomoney_payment_url"}

(* plain: https and without ;parameters; orders: its orderId values. *)
Urls == [plain : BOOLEAN, host : Hosts, path : Paths,
         orders : {<<>>, <<"">>, <<"o1">>, <<"o2">>, <<"o1", "o1">>, <<"o1", "o2">>}]
None == [source |-> "none"]

VARIABLES
  merchant,   \* of the start_url of the session
  order,      \* AgentOutput.order_id
  evidence,   \* AgentOutput.payment_evidence
  told        \* the event with its order_id_host, "none" before

paymentVars == <<merchant, order, evidence, told>>

Init ==
  /\ merchant \in Merchants /\ order \in Orders
  /\ evidence \in {None} \cup [source : Sources, url : Urls]
  /\ told = <<"none", "">>

(* Mutant: the first of several ids is taken. *)
ProviderOrderIdFirst(url, host, path) ==
  IF url.plain /\ url.host = host /\ url.path = path /\ url.orders # <<>>
  THEN Head(url.orders) ELSE ""

(* _provider_order_id_from_url; "" stands for None. *)
ProviderOrderId(url, host, path) ==
  IF url.plain /\ url.host = host /\ url.path = path /\ Len(url.orders) = 1
  THEN Head(url.orders) ELSE ""

Payecom(url) == ProviderOrderId(url, "payecom.ru", "/pay_ru")
Yoomoney(url) == ProviderOrderId(url, "yoomoney.ru", "/checkout/payments/v2/contract")

Accepted(host) == [status |-> "accepted", host |-> host]
Unverified(host) == [status |-> "unverified", host |-> host]
Rejected == [status |-> "rejected", host |-> ""]

VerifyLitres ==
  IF order # "" /\ evidence.source = "litres_payecom_iframe" /\ Payecom(evidence.url) = order
  THEN Accepted("payecom.ru") ELSE Rejected

VerifyBrandshop ==
  IF /\ order # "" /\ evidence.source = "brandshop_yoomoney_sberpay_redirect"
     /\ Yoomoney(evidence.url) = order
  THEN Accepted("yoomoney.ru") ELSE Rejected

VerifyUnknownMerchant ==
  IF order = "" \/ evidence = None THEN Rejected
  ELSE IF Payecom(evidence.url) = order THEN Unverified("payecom.ru")
  ELSE IF Payecom(evidence.url) = "" /\ Yoomoney(evidence.url) = order THEN Unverified("yoomoney.ru")
  ELSE Rejected

Verdict ==
  CASE merchant = "litres" -> VerifyLitres
    [] merchant = "brandshop" -> VerifyBrandshop
    [] OTHER -> VerifyUnknownMerchant

(* The first event: payment_ready needs an order id and its host. *)
Handle ==
  /\ told[1] = "none"
  /\ told' = CASE Verdict.status = "accepted" /\ Verdict.host # "" -> <<"payment_ready", Verdict.host>>
               [] Verdict.status = "unverified" -> <<"payment_unverified", Verdict.host>>
               [] OTHER -> <<"scenario_failed", "">>
  /\ UNCHANGED <<merchant, order, evidence>>

Next == Handle

-----------------------------------------------------------------------------
(* Properties *)

(* docs/litres-brandshop-agent-flow.md: merchant, evidence and page of the *)
(* provider that belong together.                                          *)
Policy == {<<"litres", "litres_payecom_iframe", "payecom.ru", "/pay_ru">>,
           <<"brandshop", "brandshop_yoomoney_sberpay_redirect", "yoomoney.ru",
             "/checkout/payments/v2/contract">>}
Proves(host, path) ==
  evidence.url = [plain |-> TRUE, host |-> host, path |-> path, orders |-> <<order>>]

(* payment_ready is sent exactly for the one page of the one provider that *)
(* the policy of the merchant names, with the order id the agent reports   *)
(* as its only one; payment_unverified exactly for such a page of any      *)
(* provider and a merchant without policy; both name the host of the page, *)
(* and everything else fails the scenario.                                 *)
ToldWhatIsProven ==
  LET ready == {p \in Policy : p[1] = merchant /\ p[2] = evidence.source /\ Proves(p[3], p[4])}
      known == {p \in Policy : merchant = "other" /\ evidence # None /\ Proves(p[3], p[4])}
      right == IF order = "" THEN {<<"scenario_failed", "">>}
               ELSE IF ready # {} THEN {<<"payment_ready", p[3]>> : p \in ready}
               ELSE IF known # {} THEN {<<"payment_unverified", p[3]>> : p \in known}
               ELSE {<<"scenario_failed", "">>}
  IN told[1] = "none" \/ told \in right
=============================================================================
