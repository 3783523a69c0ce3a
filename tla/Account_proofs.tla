--------------------------- MODULE Account_proofs ---------------------------
(***************************************************************************)
(* Proofs about what a tenant sees and sets: its cards and invoices, its   *)
(* payment status and statistics, its feature flags, and the notification  *)
(* preferences of its users.                                               *)
(***************************************************************************)
EXTENDS PaymentMethods, SubscriptionStatus, FeatureFlags, Preferences, TLAPS

-----------------------------------------------------------------------------
(* Proofs about PaymentMethods, for any tenants, customers, cards and      *)
(* requests.                                                               *)
(*                                                                         *)
(* A request acts on what it has loaded some calls ago, so everything that *)
(* is true of the row has to be true of the requests as well, and to stay  *)
(* true: the customer of a row, of a request and of an intent was made for *)
(* that tenant, and a customer is made once.  A card is added once, so it  *)
(* does not matter that it may be detached between looking it up and       *)
(* acting on it.                                                           *)

CardSteps == {"retrieve to detach", "retrieve to prefer", "detach", "prefer"}

Steps == CardSteps \cup {"idle", "create intent", "retrieve customer", "list", "invoices",
                         "upcoming", "retrieve subscription", "preview"}

CardRequest == [step     : Steps,
                tenant   : Tenants \cup {Null},
                customer : Customers \cup {Null},
                card     : Cards \cup {Null},
                default  : Cards \cup {Null}]

CardsTyped ==
  /\ CTypeOK
  /\ intents \subseteq [customer : Customers, tenant : Tenants]
  /\ asker \in [Askers -> CardRequest]

\* Whose a customer is does not change.
RowsOwn == \A t \in Tenants : customer[t] # Null => maker[customer[t]] = t

IntentsOwn == \A i \in intents : maker[i.customer] = i.tenant

\* An attached card is attached to a customer of its tenant.
CardsOwn == \A c \in Cards : holder[c] # Null => owner[c] # Null /\ maker[holder[c]] = owner[c]

\* What a request in progress has loaded, and what it has learned of its card.
Own(a) ==
  a.step # "idle" =>
    /\ a.tenant \in Tenants /\ a.customer \in Customers
    /\ maker[a.customer] = a.tenant
    /\ a.step \in CardSteps => a.card \in Cards
    /\ a.step = "detach" => owner[a.card] = a.tenant

RequestsOwn == \A r \in Askers : Own(asker[r])

CardsInv == CardsTyped /\ RowsOwn /\ IntentsOwn /\ CardsOwn /\ RequestsOwn /\ OwnCardsOnly
-----------------------------------------------------------------------------
LEMMA NoAskerType == NoAsker \in CardRequest /\ NoAsker.step = "idle"
BY DEF NoAsker, CardRequest, Steps, CardSteps

LEMMA CardsBegin ==
  ASSUME CInit PROVE CardsInv
<1>1. CTypeOK
  BY CardsAssumption DEF CInit, CTypeOK
<1>2. CardsTyped
  BY <1>1, NoAskerType DEF CInit, CardsTyped
<1>3. RowsOwn /\ IntentsOwn /\ CardsOwn
  BY DEF CInit, RowsOwn, IntentsOwn, CardsOwn
<1>4. RequestsOwn
  BY NoAskerType DEF CInit, RequestsOwn, Own
<1>5. OwnCardsOnly
  BY DEF CInit, OwnCardsOnly
<1> QED BY <1>2, <1>3, <1>4, <1>5 DEF CardsInv

\* A request that has been answered, or has moved on to another of its steps, owns
\* what it owned.
LEMMA OneAsks ==
  ASSUME CardsInv, NEW r \in Askers, NEW a \in CardRequest, asker' = [asker EXCEPT ![r] = a],
         UNCHANGED <<owner, maker>>, Own(a)
  PROVE  asker' \in [Askers -> CardRequest] /\ RequestsOwn'
<1>1. asker' \in [Askers -> CardRequest]
  BY DEF CardsInv, CardsTyped
<1>2. ASSUME NEW q \in Askers PROVE Own(asker[q])'
  <2>1. CASE q = r
    BY <2>1 DEF CardsInv, CardsTyped, Own
  <2>2. CASE q # r
    BY <2>2 DEF CardsInv, CardsTyped, RequestsOwn, Own
  <2> QED BY <2>1, <2>2
<1> QED BY <1>1, <1>2 DEF RequestsOwn

LEMMA Answering ==
  ASSUME CardsInv, NEW r \in Askers, Answered(r), UNCHANGED <<owner, maker>>
  PROVE  asker' \in [Askers -> CardRequest] /\ RequestsOwn'
<1>1. Own(NoAsker)
  BY NoAskerType DEF Own
<1> QED BY <1>1, NoAskerType, OneAsks DEF Answered

\* A request that moves on to another step.
LEMMA MovingOn ==
  ASSUME CardsInv, NEW r \in Askers, NEW to \in Steps, asker' = [asker EXCEPT ![r].step = to],
         asker[r].step # "idle", UNCHANGED <<owner, maker>>,
         to \in CardSteps => asker[r].step \in CardSteps,
         to = "detach" => owner[asker[r].card] = asker[r].tenant
  PROVE  asker' \in [Askers -> CardRequest] /\ RequestsOwn'
<1> DEFINE a == [asker[r] EXCEPT !.step = to]
<1>1. a \in CardRequest /\ asker' = [asker EXCEPT ![r] = a]
  BY DEF CardsInv, CardsTyped, CardRequest
<1>2. /\ a.step = to /\ a.tenant = asker[r].tenant
      /\ a.customer = asker[r].customer /\ a.card = asker[r].card
  BY DEF CardsInv, CardsTyped, CardRequest
<1>3. Own(asker[r])
  BY DEF CardsInv, RequestsOwn
<1>4. Own(a)
  BY <1>2, <1>3 DEF Own
<1> HIDE DEF a
<1> QED BY <1>1, <1>4, OneAsks
-----------------------------------------------------------------------------
\* A customer is new when it is made, so it is nobody else's.
LEMMA CheckoutInv ==
  ASSUME CardsInv, NEW t \in Tenants, CheckoutCompletes(t) PROVE CardsInv'
<1>1. PICK u \in Customers :
        /\ maker[u] = Null
        /\ maker' = [maker EXCEPT ![u] = t]
        /\ customer' = [customer EXCEPT ![t] = u]
  BY DEF CheckoutCompletes
<1>2. UNCHANGED <<intents, holder, default, asker, owner, touched, billed>> /\ asked' = asked + 1
      /\ asked < MaxAsked
  BY DEF CheckoutCompletes
<1>3. ASSUME NEW w \in Customers, NEW s \in Tenants, maker[w] = s PROVE maker'[w] = s
  BY <1>1, <1>3, CardsAssumption DEF CardsInv, CardsTyped, CTypeOK
<1>4. CardsTyped'
  BY <1>1, <1>2, CardsAssumption DEF CardsInv, CardsTyped, CTypeOK
<1>5. RowsOwn'
  <2> SUFFICES ASSUME NEW s \in Tenants, customer'[s] # Null PROVE maker'[customer'[s]] = s
    BY DEF RowsOwn
  <2>1. CASE s = t
    BY <1>1, <2>1 DEF CardsInv, CardsTyped, CTypeOK
  <2>2. CASE s # t
    BY <1>1, <1>3, <2>2 DEF CardsInv, CardsTyped, CTypeOK, RowsOwn
  <2> QED BY <2>1, <2>2
<1>6. IntentsOwn'
  BY <1>2, <1>3 DEF CardsInv, CardsTyped, IntentsOwn
<1>7. CardsOwn'
  BY <1>2, <1>3 DEF CardsInv, CardsTyped, CTypeOK, CardsOwn
<1>8. RequestsOwn'
  BY <1>2, <1>3 DEF CardsInv, RequestsOwn, Own
<1>9. OwnCardsOnly'
  BY <1>2, <1>3 DEF CardsInv, CardsTyped, CTypeOK, OwnCardsOnly
<1> QED BY <1>4, <1>5, <1>6, <1>7, <1>8, <1>9 DEF CardsInv

LEMMA AskInv ==
  ASSUME CardsInv, NEW r \in Askers, NEW t \in Tenants, NEW step \in Steps,
         NEW card \in Cards \cup {Null}, step \in CardSteps => card \in Cards,
         step # "detach", Ask(r, t, step, card)
  PROVE  CardsInv'
<1> DEFINE a == [NoAsker EXCEPT !.step = step, !.tenant = t, !.customer = customer[t], !.card = card]
<1>1. customer[t] \in Customers /\ maker[customer[t]] = t
  BY DEF Ask, CardsInv, CardsTyped, CTypeOK, RowsOwn
<1>2. /\ a \in CardRequest /\ a.step = step /\ a.tenant = t /\ a.customer = customer[t]
      /\ a.card = card
  BY <1>1 DEF NoAsker, CardRequest
<1>3. Own(a)
  BY <1>1, <1>2 DEF Own
<1>4. asker' = [asker EXCEPT ![r] = a]
      /\ UNCHANGED <<customer, intents, holder, default, owner, maker, touched, billed>>
      /\ asked' = asked + 1 /\ asked < MaxAsked
  BY DEF Ask
<1> HIDE DEF a
<1>5. asker' \in [Askers -> CardRequest] /\ RequestsOwn'
  BY <1>2, <1>3, <1>4, OneAsks
<1>6. CardsTyped'
  BY <1>4, <1>5, CardsAssumption DEF CardsInv, CardsTyped, CTypeOK
<1>7. RowsOwn' /\ IntentsOwn' /\ CardsOwn' /\ OwnCardsOnly'
  BY <1>4 DEF CardsInv, RowsOwn, IntentsOwn, CardsOwn, OwnCardsOnly
<1> QED BY <1>5, <1>6, <1>7 DEF CardsInv

\* All requests ask for something that is theirs.
LEMMA AsksInv ==
  ASSUME CardsInv, NEW r \in Askers, NEW t \in Tenants,
         \/ CreatePaymentMethodSetupIntent(r, t) \/ ListPaymentMethods(r, t)
         \/ ListInvoices(r, t) \/ GetUpcomingInvoice(r, t) \/ PreviewSubscriptionUpgrade(r, t)
         \/ \E c \in Cards : DeletePaymentMethod(r, t, c) \/ SetDefaultPaymentMethod(r, t, c)
  PROVE  CardsInv'
<1>1. CASE \E c \in Cards : DeletePaymentMethod(r, t, c) \/ SetDefaultPaymentMethod(r, t, c)
  BY <1>1, AskInv DEF DeletePaymentMethod, SetDefaultPaymentMethod, Steps, CardSteps
<1>2. CASE \/ CreatePaymentMethodSetupIntent(r, t) \/ ListPaymentMethods(r, t)
           \/ ListInvoices(r, t) \/ GetUpcomingInvoice(r, t) \/ PreviewSubscriptionUpgrade(r, t)
  BY <1>2, AskInv DEF CreatePaymentMethodSetupIntent, ListPaymentMethods, ListInvoices,
       GetUpcomingInvoice, PreviewSubscriptionUpgrade, Steps, CardSteps
<1> QED BY <1>1, <1>2
-----------------------------------------------------------------------------
(* Stripe's calls.                                                         *)

LEMMA CreateIntentInv ==
  ASSUME CardsInv, NEW r \in Askers, CreateSetupIntent(r) PROVE CardsInv'
<1>1. asker' \in [Askers -> CardRequest] /\ RequestsOwn'
  BY Answering DEF CreateSetupIntent
<1>2. /\ asker[r].tenant \in Tenants /\ asker[r].customer \in Customers
      /\ maker[asker[r].customer] = asker[r].tenant
  BY DEF CreateSetupIntent, CardsInv, RequestsOwn, Own
<1> DEFINE i == [customer |-> asker[r].customer, tenant |-> asker[r].tenant]
<1>3. i \in [customer : Customers, tenant : Tenants] /\ maker[i.customer] = i.tenant
  BY <1>2
<1>4. intents' = intents \cup {i} /\ UNCHANGED <<customer, holder, default, owner, maker, touched, billed, asked>>
  BY DEF CreateSetupIntent
<1> HIDE DEF i
<1>5. CardsTyped'
  BY <1>1, <1>3, <1>4 DEF CardsInv, CardsTyped, CTypeOK
<1>6. IntentsOwn'
  BY <1>3, <1>4 DEF CardsInv, IntentsOwn
<1>7. RowsOwn' /\ CardsOwn' /\ OwnCardsOnly'
  BY DEF CreateSetupIntent, CardsInv, RowsOwn, CardsOwn, OwnCardsOnly
<1> QED BY <1>1, <1>5, <1>6, <1>7 DEF CardsInv

\* A card is new when it is added: nobody has acted on it, or is about to.
LEMMA ConfirmInv ==
  ASSUME CardsInv, NEW i \in intents, NEW c \in Cards, Confirm(i, c) PROVE CardsInv'
<1>1. i.customer \in Customers /\ i.tenant \in Tenants /\ maker[i.customer] = i.tenant
  BY DEF CardsInv, CardsTyped, IntentsOwn
<1>2. ASSUME NEW d \in Cards, owner[d] \in Tenants PROVE owner'[d] = owner[d]
  BY <1>2, CardsAssumption DEF Confirm, CardsInv, CardsTyped, CTypeOK
<1>3. CardsTyped'
  BY <1>1 DEF Confirm, CardsInv, CardsTyped, CTypeOK
<1>4. RowsOwn' /\ IntentsOwn'
  BY DEF Confirm, CardsInv, RowsOwn, IntentsOwn
<1>5. CardsOwn'
  <2> SUFFICES ASSUME NEW d \in Cards, holder'[d] # Null
               PROVE  owner'[d] # Null /\ maker'[holder'[d]] = owner'[d]
    BY DEF CardsOwn
  <2>1. CASE d = c
    BY <1>1, <2>1, CardsAssumption DEF Confirm, CardsInv, CardsTyped, CTypeOK
  <2>2. CASE d # c
    BY <2>2 DEF Confirm, CardsInv, CardsTyped, CTypeOK, CardsOwn
  <2> QED BY <2>1, <2>2
<1>6. RequestsOwn'
  <2> SUFFICES ASSUME NEW r \in Askers PROVE Own(asker[r])'
    BY DEF RequestsOwn
  <2>1. Own(asker[r]) /\ asker' = asker /\ maker' = maker
    BY DEF Confirm, CardsInv, RequestsOwn
  <2> QED BY <1>2, <2>1 DEF Own, CardSteps
<1>7. OwnCardsOnly'
  BY <1>2 DEF Confirm, CardsInv, CardsTyped, CTypeOK, OwnCardsOnly
<1> QED BY <1>3, <1>4, <1>5, <1>6, <1>7 DEF CardsInv

LEMMA RetrieveCustomerInv ==
  ASSUME CardsInv, NEW r \in Askers, RetrieveCustomer(r) PROVE CardsInv'
<1> DEFINE a == [asker[r] EXCEPT !.step = "list", !.default = default[asker[r].customer]]
<1>1. Own(asker[r]) /\ asker[r].step # "idle"
  BY DEF RetrieveCustomer, CardsInv, RequestsOwn
<1>2. /\ a \in CardRequest /\ a.step = "list" /\ a.tenant = asker[r].tenant
      /\ a.customer = asker[r].customer
  BY <1>1 DEF CardsInv, CardsTyped, CTypeOK, Own, CardRequest, Steps
<1>3. Own(a)
  BY <1>1, <1>2 DEF Own, CardSteps
<1>4. asker' = [asker EXCEPT ![r] = a]
  BY DEF RetrieveCustomer, CardsInv, CardsTyped
<1> HIDE DEF a
<1>5. asker' \in [Askers -> CardRequest] /\ RequestsOwn'
  BY <1>2, <1>3, <1>4, OneAsks DEF RetrieveCustomer
<1>6. CardsTyped' /\ RowsOwn' /\ IntentsOwn' /\ CardsOwn' /\ OwnCardsOnly'
  BY <1>5 DEF RetrieveCustomer, CardsInv, CardsTyped, CTypeOK, RowsOwn, IntentsOwn, CardsOwn, OwnCardsOnly
<1> QED BY <1>5, <1>6 DEF CardsInv

\* The cards attached to a customer of the tenant's are the tenant's.
LEMMA ListCardsInv ==
  ASSUME CardsInv, NEW r \in Askers, ListCards(r) PROVE CardsInv'
<1>1. asker' \in [Askers -> CardRequest] /\ RequestsOwn'
  BY Answering DEF ListCards
<1>2. /\ asker[r].tenant \in Tenants /\ asker[r].customer \in Customers
      /\ maker[asker[r].customer] = asker[r].tenant
  BY DEF ListCards, CardsInv, RequestsOwn, Own
<1>3. ASSUME NEW c \in Cards, holder[c] = asker[r].customer
      PROVE  owner[c] = asker[r].tenant
  BY <1>2, <1>3, CardsAssumption DEF CardsInv, CardsOwn
<1>4. CardsTyped'
  BY <1>1, <1>2 DEF ListCards, CardsInv, CardsTyped, CTypeOK
<1>5. RowsOwn' /\ IntentsOwn' /\ CardsOwn'
  BY DEF ListCards, CardsInv, RowsOwn, IntentsOwn, CardsOwn
<1>6. OwnCardsOnly'
  BY <1>2, <1>3 DEF ListCards, CardsInv, OwnCardsOnly
<1> QED BY <1>1, <1>4, <1>5, <1>6 DEF CardsInv

\* A look-up finds the card only if it is attached to the customer asked for.
LEMMA RetrieveInv ==
  ASSUME CardsInv, NEW r \in Askers, NEW from, NEW to,
         \/ from = "retrieve to detach" /\ to = "detach"
         \/ from = "retrieve to prefer" /\ to = "prefer",
         Retrieve(r, from, to)
  PROVE  CardsInv'
<1>1. /\ asker[r].step = from /\ from \in CardSteps /\ to \in CardSteps \cap Steps
      /\ UNCHANGED <<customer, intents, holder, default, owner, maker, touched, billed, asked>>
  BY DEF Retrieve, Steps, CardSteps
<1>2. Own(asker[r]) /\ asker[r].step # "idle"
  BY <1>1 DEF CardsInv, RequestsOwn, CardSteps
<1>3. asker' \in [Askers -> CardRequest] /\ RequestsOwn'
  <2>1. CASE IsOf(asker[r].card, asker[r].customer)
    <3>1. owner[asker[r].card] = asker[r].tenant
      BY <1>1, <1>2, <2>1, CardsAssumption DEF IsOf, Own, CardsInv, CardsOwn
    <3> QED BY <1>1, <1>2, <2>1, <3>1, MovingOn DEF Retrieve
  <2>2. CASE ~IsOf(asker[r].card, asker[r].customer)
    BY <1>1, <2>2, Answering DEF Retrieve
  <2> QED BY <2>1, <2>2
<1>4. CardsTyped' /\ RowsOwn' /\ IntentsOwn' /\ CardsOwn' /\ OwnCardsOnly'
  BY <1>1, <1>3 DEF CardsInv, CardsTyped, CTypeOK, RowsOwn, IntentsOwn, CardsOwn, OwnCardsOnly
<1> QED BY <1>3, <1>4 DEF CardsInv

LEMMA DetachInv ==
  ASSUME CardsInv, NEW r \in Askers, Detach(r) PROVE CardsInv'
<1>1. asker' \in [Askers -> CardRequest] /\ RequestsOwn'
  BY Answering DEF Detach
<1>2. /\ asker[r].tenant \in Tenants /\ asker[r].card \in Cards
      /\ owner[asker[r].card] = asker[r].tenant
  BY DEF Detach, CardsInv, RequestsOwn, Own, CardSteps
<1>3. /\ touched' \subseteq touched \cup {<<asker[r].tenant, asker[r].card>>}
      /\ \A c \in Cards : holder'[c] = Null \/ holder'[c] = holder[c]
      /\ holder' \in [Cards -> Customers \cup {Null}]
      /\ default' \in [Customers -> Cards \cup {Null}]
      /\ UNCHANGED <<customer, intents, owner, maker, billed, asked>>
  BY <1>2 DEF Detach, CardsInv, CardsTyped, CTypeOK
<1>4. CardsTyped'
  BY <1>1, <1>2, <1>3 DEF CardsInv, CardsTyped, CTypeOK
<1>5. RowsOwn' /\ IntentsOwn' /\ CardsOwn'
  BY <1>3 DEF CardsInv, RowsOwn, IntentsOwn, CardsOwn
<1>6. OwnCardsOnly'
  BY <1>2, <1>3 DEF CardsInv, OwnCardsOnly
<1> QED BY <1>1, <1>4, <1>5, <1>6 DEF CardsInv

LEMMA PreferInv ==
  ASSUME CardsInv, NEW r \in Askers, Prefer(r) PROVE CardsInv'
<1>1. asker' \in [Askers -> CardRequest] /\ RequestsOwn'
  BY Answering DEF Prefer
<1>2. /\ asker[r].tenant \in Tenants /\ asker[r].card \in Cards
      /\ asker[r].customer \in Customers /\ maker[asker[r].customer] = asker[r].tenant
  BY DEF Prefer, CardsInv, RequestsOwn, Own, CardSteps
<1>3. \/ touched' = touched
      \/ /\ touched' = touched \cup {<<asker[r].tenant, asker[r].card>>}
         /\ holder[asker[r].card] = asker[r].customer
  BY DEF Prefer
<1>4. default' \in [Customers -> Cards \cup {Null}]
      /\ UNCHANGED <<customer, intents, holder, owner, maker, billed, asked>>
  BY <1>2 DEF Prefer, CardsInv, CardsTyped, CTypeOK
<1>5. CardsTyped'
  BY <1>1, <1>2, <1>3, <1>4 DEF CardsInv, CardsTyped, CTypeOK
<1>6. RowsOwn' /\ IntentsOwn' /\ CardsOwn'
  BY <1>4 DEF CardsInv, RowsOwn, IntentsOwn, CardsOwn
<1>7. OwnCardsOnly'
  BY <1>2, <1>3, <1>4, CardsAssumption DEF CardsInv, CardsOwn, OwnCardsOnly
<1> QED BY <1>1, <1>5, <1>6, <1>7 DEF CardsInv

LEMMA InvoicesInv ==
  ASSUME CardsInv, NEW r \in Askers, ListInvoicesForCustomer(r) \/ RetrieveUpcomingInvoice(r)
  PROVE  CardsInv'
<1>1. /\ billed' = billed \cup {<<asker[r].tenant, asker[r].customer>>}
      /\ Answered(r) /\ asker[r].step # "idle"
      /\ UNCHANGED <<customer, intents, holder, default, owner, maker, touched, asked>>
  BY DEF ListInvoicesForCustomer, RetrieveUpcomingInvoice
<1>2. asker' \in [Askers -> CardRequest] /\ RequestsOwn'
  BY <1>1, Answering
<1>3. /\ asker[r].tenant \in Tenants /\ asker[r].customer \in Customers
      /\ maker[asker[r].customer] = asker[r].tenant
  BY <1>1 DEF CardsInv, RequestsOwn, Own
<1>4. CardsTyped'
  BY <1>1, <1>2, <1>3 DEF CardsInv, CardsTyped, CTypeOK
<1>5. RowsOwn' /\ IntentsOwn' /\ CardsOwn'
  BY <1>1 DEF CardsInv, RowsOwn, IntentsOwn, CardsOwn
<1>6. OwnCardsOnly'
  BY <1>1, <1>3 DEF CardsInv, OwnCardsOnly
<1> QED BY <1>2, <1>4, <1>5, <1>6 DEF CardsInv

LEMMA RetrieveSubscriptionInv ==
  ASSUME CardsInv, NEW r \in Askers, RetrieveSubscription(r) PROVE CardsInv'
<1>1. asker' \in [Askers -> CardRequest] /\ RequestsOwn'
  BY MovingOn DEF RetrieveSubscription, Steps, CardSteps
<1>2. CardsTyped' /\ RowsOwn' /\ IntentsOwn' /\ CardsOwn' /\ OwnCardsOnly'
  BY <1>1 DEF RetrieveSubscription, CardsInv, CardsTyped, CTypeOK, RowsOwn, IntentsOwn, CardsOwn, OwnCardsOnly
<1> QED BY <1>1, <1>2 DEF CardsInv

LEMMA CardRequestFails ==
  ASSUME CardsInv, NEW r \in Askers, StripeFails(r) PROVE CardsInv'
<1>1. asker' \in [Askers -> CardRequest] /\ RequestsOwn'
  BY Answering DEF StripeFails
<1>2. CardsTyped' /\ RowsOwn' /\ IntentsOwn' /\ CardsOwn' /\ OwnCardsOnly'
  BY <1>1 DEF StripeFails, CardsInv, CardsTyped, CTypeOK, RowsOwn, IntentsOwn, CardsOwn, OwnCardsOnly
<1> QED BY <1>1, <1>2 DEF CardsInv
-----------------------------------------------------------------------------
LEMMA CardsStep == ASSUME CardsInv, [CNext]_cvars PROVE CardsInv'
<1>1. ASSUME NEW t \in Tenants, CheckoutCompletes(t) PROVE CardsInv'
  BY <1>1, CheckoutInv
<1>2. ASSUME NEW t \in Tenants, NEW r \in Askers,
             \/ CreatePaymentMethodSetupIntent(r, t) \/ ListPaymentMethods(r, t)
             \/ ListInvoices(r, t) \/ GetUpcomingInvoice(r, t) \/ PreviewSubscriptionUpgrade(r, t)
             \/ \E c \in Cards : DeletePaymentMethod(r, t, c) \/ SetDefaultPaymentMethod(r, t, c)
      PROVE  CardsInv'
  BY <1>2, AsksInv
<1>3. ASSUME NEW i \in intents, NEW c \in Cards, Confirm(i, c) PROVE CardsInv'
  BY <1>3, ConfirmInv
<1>4. ASSUME NEW r \in Askers,
             \/ CreateSetupIntent(r) \/ RetrieveCustomer(r) \/ ListCards(r)
             \/ RetrieveSubscription(r)
             \/ Retrieve(r, "retrieve to detach", "detach")
             \/ Retrieve(r, "retrieve to prefer", "prefer")
             \/ Detach(r) \/ Prefer(r)
             \/ ListInvoicesForCustomer(r) \/ RetrieveUpcomingInvoice(r) \/ StripeFails(r)
      PROVE  CardsInv'
  BY <1>4, CreateIntentInv, RetrieveCustomerInv, ListCardsInv, RetrieveSubscriptionInv,
     RetrieveInv, DetachInv, PreferInv, InvoicesInv, CardRequestFails
<1>5. CASE UNCHANGED cvars
  BY <1>5 DEF cvars, CardsInv, CardsTyped, CTypeOK, RowsOwn, IntentsOwn, CardsOwn, RequestsOwn, Own,
       OwnCardsOnly
<1> QED BY <1>1, <1>2, <1>3, <1>4, <1>5 DEF CNext

LEMMA CardsHold == CSpec => []CardsInv
<1>1. CInit => CardsInv
  BY CardsBegin
<1>2. CardsInv /\ [CNext]_cvars => CardsInv'
  BY CardsStep
<1> QED BY <1>1, <1>2, PTL DEF CSpec

\* For any tenants, customers, cards and requests, whatever checkouts replace and requests
\* detach in between: a tenant only lists and changes its own cards and sees its own
\* invoices.
THEOREM CardsAreOwn == CSpec => []OwnCardsOnly
<1>1. CardsInv => OwnCardsOnly
  BY DEF CardsInv
<1> QED BY <1>1, CardsHold, PTL

\* The rows, cards, customers and histories keep their types.
THEOREM CardsTypeCorrect == CSpec => []CTypeOK
<1>1. CardsInv => CTypeOK
  BY DEF CardsInv, CardsTyped
<1> QED BY <1>1, CardsHold, PTL

-----------------------------------------------------------------------------
(* What is shown.  A value is near when it is true or was, as many periods *)
(* ago at most as its bound says.  What a request gathers is one period old*)
(* at most; what is cached gets older as its life gets shorter; and what a *)
(* request took from the cache may be two periods older than the request.  *)

ViewerSteps == {"idle", "tenant", "stats", "gather", "cache", "stripe", "answer"}

Viewing == [step : ViewerSteps, foreign : BOOLEAN, late : BOOLEAN, whole : BOOLEAN, left : SUBSET Figures,
            figures : [Figures -> Counted \cup {0}], percentage : (0..100) \cup {Null},
            payment : PaymentStatus, loaded : BOOLEAN, during : SUBSET PaymentStatus]

Statistic == [figures : [Figures -> Counted \cup {0}], percentage : 0..100, life : 0..1]

StatusTyped ==
  /\ STypeOK
  /\ account \in [payment : PaymentStatus, trial : BOOLEAN]
  /\ viewer \in [Viewers -> Viewing]
  /\ statistics # Null => statistics \in Statistic
  /\ heldFigure \in [Figures -> [Counted -> 0..4]] /\ heldMembers \in [0..MaxMembers -> 0..4]
  /\ failed \in [Figures -> 0..4] /\ foreign \in 0..4

FigureNear(f, n, b) ==
  \/ n = figure[f]
  \/ n # 0 /\ heldFigure[f][n] <= b
  \/ n = 0 /\ failed[f] <= b

PercentNear(p, b) ==
  \/ \E n \in 0..MaxMembers : p = Percentage(n) /\ (n = members \/ heldMembers[n] <= b)
  \/ foreign <= b

\* What a request has gathered: one that is late may have gathered in the last period.
GatheredNear(record, b) ==
  /\ record.step \in {"tenant", "stats"} => record.figures = [f \in Figures |-> 0]
  /\ record.step = "gather" =>
       /\ \A f \in record.left : record.figures[f] = 0
       /\ \A f \in Figures \ record.left : FigureNear(f, record.figures[f], b)
  /\ record.step = "cache" =>
       /\ \A f \in Figures : FigureNear(f, record.figures[f], b)
       /\ record.percentage \in 0..100 /\ PercentNear(record.percentage, b)
  /\ record.step \in {"stripe", "answer"} /\ record.percentage # Null =>
       /\ \A f \in Figures : FigureNear(f, record.figures[f], b + 2)
       /\ PercentNear(record.percentage, b + 2)

Shows(record) == /\ record.late => GatheredNear(record, 1)
                 /\ ~record.late => GatheredNear(record, 0)

PaymentWas(record) ==
  record.whole => /\ account.payment \in record.during
                  /\ record.loaded => \/ record.payment \in record.during
                                      \/ ~account.trial /\ record.payment = "active"

CachedNear(entry, b) == /\ \A f \in Figures : FigureNear(f, entry.figures[f], b)
                        /\ PercentNear(entry.percentage, b)

StatisticsNear ==
  statistics # Null => /\ statistics.life = 1 => CachedNear(statistics, 1)
                       /\ statistics.life = 0 => CachedNear(statistics, 2)

StatusInv ==
  /\ StatusTyped
  /\ StatisticsNear
  /\ \A v \in Viewers : Shows(viewer[v]) /\ PaymentWas(viewer[v])

LEMMA PercentageType == ASSUME NEW n \in Nat PROVE Percentage(n) \in 0..100
  <1>1. MemberLimit \in Nat /\ MemberLimit > 0
    BY StatusAssumption
  <1>2. (n * 100) \div MemberLimit \in Nat
    BY <1>1
  <1> QED
    BY <1>2 DEF Percentage

LEMMA NoViewerType == /\ NoViewer \in Viewing
                      /\ NoViewer.step = "idle" /\ ~NoViewer.whole /\ ~NoViewer.late
                      /\ ~NoViewer.loaded
                      /\ NoViewer.figures = [f \in Figures |-> 0]
  <1>1. [f \in Figures |-> 0] \in [Figures -> Counted \cup {0}]
    OBVIOUS
  <1>2. "active" \in PaymentStatus /\ "idle" \in ViewerSteps
    BY DEF PaymentStatus, ViewerSteps
  <1> HIDE DEF Counted
  <1> QED
    BY <1>1, <1>2 DEF NoViewer, Viewing

LEMMA StatusInit == ASSUME SInit PROVE StatusInv
  <1>1. STypeOK
    <2>1. figure \in [Figures -> Counted]
      BY DEF SInit, Counted
    <2>2. members \in 0..MaxMembers
      BY StatusAssumption DEF SInit
    <2>3. account.payment \in PaymentStatus /\ statistics = Null
      BY DEF SInit, PaymentStatus
    <2>4. \A v \in Viewers : /\ viewer[v].figures \in [Figures -> Counted \cup {0}]
                             /\ viewer[v].left \subseteq Figures
      BY NoViewerType DEF SInit, Viewing
    <2>5. drifts \in 0..MaxDrifts /\ sfaults \in 0..MaxSFaults
      BY StatusAssumption DEF SInit
    <2> QED
      BY <2>1, <2>2, <2>3, <2>4, <2>5 DEF STypeOK
  <1>2. StatusTyped
    <2>1. account \in [payment : PaymentStatus, trial : BOOLEAN]
      BY DEF SInit, PaymentStatus
    <2>2. viewer \in [Viewers -> Viewing] /\ statistics = Null
      BY NoViewerType DEF SInit
    <2>3. heldFigure \in [Figures -> [Counted -> 0..4]] /\ heldMembers \in [0..MaxMembers -> 0..4]
          /\ failed \in [Figures -> 0..4] /\ foreign \in 0..4
      BY DEF SInit, Old
    <2> QED
      BY <1>1, <2>1, <2>2, <2>3 DEF StatusTyped
  <1>3. ASSUME NEW v \in Viewers PROVE Shows(viewer[v]) /\ PaymentWas(viewer[v])
    <2>1. viewer[v] = NoViewer
      BY DEF SInit
    <2> QED
      BY <2>1, NoViewerType DEF Shows, GatheredNear, PaymentWas
  <1>4. statistics = Null
    BY DEF SInit
  <1> QED
    BY <1>2, <1>3, <1>4 DEF StatusInv, StatisticsNear

-----------------------------------------------------------------------------
\* What is near stays near, and within a larger bound: nothing is held a shorter time.
LEMMA StaysNear ==
  ASSUME StatusTyped, UNCHANGED <<figure, members, heldFigure, heldMembers>>,
         failed' \in [Figures -> 0..4], foreign' \in 0..4,
         \A f \in Figures : failed'[f] <= failed[f], foreign' <= foreign,
         NEW b \in 0..3, NEW c \in 0..3, b <= c
  PROVE  /\ \A f \in Figures, n \in Counted \cup {0} : FigureNear(f, n, b) => FigureNear(f, n, c)'
         /\ \A p : PercentNear(p, b) => PercentNear(p, c)'
  <1>1. /\ heldFigure \in [Figures -> [Counted -> 0..4]] /\ heldMembers \in [0..MaxMembers -> 0..4]
        /\ failed \in [Figures -> 0..4] /\ foreign \in 0..4
    BY DEF StatusTyped
  <1>2. ASSUME NEW f \in Figures, NEW n \in Counted \cup {0}, FigureNear(f, n, b)
        PROVE  FigureNear(f, n, c)'
    <2>1. failed[f] \in 0..4 /\ failed'[f] \in 0..4 /\ failed'[f] <= failed[f]
      BY <1>1
    <2>2. n # 0 => heldFigure[f][n] \in 0..4
      BY <1>1
    <2> QED
      BY <1>2, <2>1, <2>2 DEF FigureNear
  <1>3. ASSUME NEW p, PercentNear(p, b) PROVE PercentNear(p, c)'
    <2>1. \A n \in 0..MaxMembers : heldMembers[n] \in 0..4
      BY <1>1
    <2> HIDE DEF Percentage
    <2> QED
      BY <1>1, <1>3, <2>1 DEF PercentNear
  <1> QED
    BY <1>2, <1>3

\* Hence what a request shows stays near as long as it is not changed.
LEMMA StillShows ==
  ASSUME StatusTyped, UNCHANGED <<figure, members, heldFigure, heldMembers>>,
         failed' \in [Figures -> 0..4], foreign' \in 0..4,
         \A f \in Figures : failed'[f] <= failed[f], foreign' <= foreign,
         NEW record \in Viewing, Shows(record)
  PROVE  Shows(record)'
  <1>1. record.figures \in [Figures -> Counted \cup {0}] /\ record.left \subseteq Figures
    BY DEF Viewing
  <1>2. ASSUME NEW b \in 0..1, GatheredNear(record, b) PROVE GatheredNear(record, b)'
    <2>1. b \in 0..3 /\ b <= b /\ b + 2 \in 0..3 /\ b + 2 <= b + 2
      OBVIOUS
    <2>2. /\ \A f \in Figures, n \in Counted \cup {0} : FigureNear(f, n, b) => FigureNear(f, n, b)'
          /\ \A p : PercentNear(p, b) => PercentNear(p, b)'
      BY <2>1, StaysNear
    <2> DEFINE c == b + 2
    <2>3. c \in 0..3 /\ c <= c
      BY <2>1
    <2> HIDE DEF c
    <2>4. /\ \A f \in Figures, n \in Counted \cup {0} : FigureNear(f, n, c) => FigureNear(f, n, c)'
          /\ \A p : PercentNear(p, c) => PercentNear(p, c)'
      BY <2>3, StaysNear
    <2> QED
      BY <1>1, <1>2, <2>2, <2>4 DEF GatheredNear, c
  <1>3. 0 \in 0..1 /\ 1 \in 0..1
    OBVIOUS
  <1> QED
    BY <1>2, <1>3 DEF Shows

LEMMA StillCached ==
  ASSUME StatusTyped, UNCHANGED <<figure, members, heldFigure, heldMembers>>,
         failed' \in [Figures -> 0..4], foreign' \in 0..4,
         \A f \in Figures : failed'[f] <= failed[f], foreign' <= foreign,
         NEW entry \in Statistic, NEW b \in 0..3, NEW c \in 0..3, b <= c, CachedNear(entry, b)
  PROVE  CachedNear(entry, c)'
  <1>1. entry.figures \in [Figures -> Counted \cup {0}]
    BY DEF Statistic
  <1>2. /\ \A f \in Figures, n \in Counted \cup {0} : FigureNear(f, n, b) => FigureNear(f, n, c)'
        /\ \A p : PercentNear(p, b) => PercentNear(p, c)'
    BY StaysNear
  <1> QED
    BY <1>1, <1>2 DEF CachedNear

\* A request moves on, and shows what is near.
LEMMA ViewerMoves ==
  ASSUME StatusInv, NEW v \in Viewers, NEW new \in Viewing, viewer' = [viewer EXCEPT ![v] = new],
         UNCHANGED <<figure, members, account, statistics, heldFigure, heldMembers, drifts>>,
         failed' \in [Figures -> 0..4], foreign' \in 0..4, sfaults' \in 0..MaxSFaults,
         \A f \in Figures : failed'[f] <= failed[f], foreign' <= foreign,
         Shows(new)', PaymentWas(new)
  PROVE  StatusInv'
  <1>1. StatusTyped /\ viewer \in [Viewers -> Viewing]
    BY DEF StatusInv, StatusTyped
  <1>2. /\ viewer' \in [Viewers -> Viewing] /\ viewer'[v] = new
        /\ \A w \in Viewers \ {v} : viewer'[w] = viewer[w]
    BY <1>1
  <1>3. StatusTyped'
    <2>1. \A w \in Viewers : /\ viewer'[w].figures \in [Figures -> Counted \cup {0}]
                             /\ viewer'[w].left \subseteq Figures
      BY <1>2 DEF Viewing
    <2> QED
      BY <1>1, <1>2, <2>1 DEF StatusTyped, STypeOK, Statistic
  <1>4. StatisticsNear'
    <2>1. CASE statistics = Null
      BY <2>1 DEF StatisticsNear
    <2>2. CASE statistics # Null
      <3>1. PICK entry \in Statistic : entry = statistics
        BY <1>1, <2>2 DEF StatusTyped
      <3>2. ASSUME NEW b \in {1, 2}, CachedNear(entry, b) PROVE CachedNear(entry, b)'
        <4>1. b \in 0..3 /\ b <= b
          OBVIOUS
        <4> QED
          BY <1>1, <3>2, <4>1, StillCached
      <3> QED
        BY <2>2, <3>1, <3>2 DEF StatusInv, StatisticsNear
    <2> QED
      BY <2>1, <2>2
  <1>5. ASSUME NEW w \in Viewers PROVE Shows(viewer[w])' /\ PaymentWas(viewer[w])'
    <2>1. CASE w = v
      BY <1>2, <2>1 DEF Shows, GatheredNear, PaymentWas
    <2>2. CASE w # v
      <3>1. PICK record \in Viewing : record = viewer[w] /\ record = viewer'[w]
        BY <1>1, <1>2, <2>2
      <3>2. Shows(record) /\ PaymentWas(record)
        BY <3>1 DEF StatusInv
      <3>3. Shows(record)'
        BY <1>1, <3>2, StillShows
      <3>4. PaymentWas(viewer[w])'
        BY <3>1, <3>2 DEF PaymentWas
      <3>5. Shows(viewer[w])'
        <4>1. \A b : GatheredNear(record, b)' => GatheredNear(viewer[w], b)'
          BY <3>1 DEF GatheredNear
        <4> QED
          BY <3>1, <3>3, <4>1 DEF Shows
      <3> QED
        BY <3>4, <3>5
    <2> QED
      BY <2>1, <2>2
  <1> QED
    BY <1>3, <1>4, <1>5 DEF StatusInv

-----------------------------------------------------------------------------
\* A request, as it was: what the lemmas below know of it.
LEMMA ViewerIs ==
  ASSUME StatusInv, NEW v \in Viewers
  PROVE  /\ viewer[v] \in Viewing /\ Shows(viewer[v]) /\ PaymentWas(viewer[v])
         /\ failed \in [Figures -> 0..4] /\ foreign \in 0..4 /\ sfaults \in 0..MaxSFaults
         /\ \A f \in Figures : failed[f] <= failed[f]
         /\ foreign <= foreign
  <1>1. failed \in [Figures -> 0..4] /\ foreign \in 0..4 /\ sfaults \in 0..MaxSFaults
        /\ viewer \in [Viewers -> Viewing]
    BY DEF StatusInv, StatusTyped, STypeOK
  <1>2. \A f \in Figures : failed[f] <= failed[f]
    BY <1>1
  <1> QED
    BY <1>1, <1>2 DEF StatusInv

\* A request that moves on while no figure is known to have failed.
LEMMA ViewerGoesOn ==
  ASSUME StatusInv, NEW v \in Viewers, NEW new \in Viewing, viewer' = [viewer EXCEPT ![v] = new],
         UNCHANGED <<figure, members, account, statistics, heldFigure, heldMembers, failed, foreign, drifts>>,
         sfaults' = sfaults \/ SFault, Shows(new), PaymentWas(new)
  PROVE  StatusInv'
  <1>1. sfaults' \in 0..MaxSFaults
    BY ViewerIs, StatusAssumption DEF SFault
  <1>2. Shows(new)'
    BY DEF Shows, GatheredNear, FigureNear, PercentNear
  <1>3. failed' = failed /\ foreign' = foreign
    OBVIOUS
  <1> QED
    BY <1>1, <1>2, <1>3, ViewerIs, ViewerMoves

LEMMA ReceivingSteps ==
  ASSUME StatusInv, NEW v \in Viewers,
         GetStats(v) \/ GetCurrentSubscription(v) \/ LoadTenant(v) \/ AnswerViewer(v)
  PROVE  StatusInv'
  <1>1. /\ UNCHANGED <<figure, members, account, statistics, heldFigure, heldMembers, failed, foreign, drifts>>
        /\ sfaults' = sfaults \/ SFault
    BY DEF GetStats, GetCurrentSubscription, LoadTenant, AnswerViewer
  <1>2. account.payment \in PaymentStatus /\ account.trial \in BOOLEAN
    BY DEF StatusInv, StatusTyped
  <1>3. CASE GetStats(v)
    <2>1. PICK other \in BOOLEAN :
            viewer' = [viewer EXCEPT ![v] = [NoViewer EXCEPT !.step = "stats", !.foreign = other]]
      BY <1>3 DEF GetStats
    <2>2. PICK new \in Viewing : new = [NoViewer EXCEPT !.step = "stats", !.foreign = other]
      BY NoViewerType DEF Viewing, ViewerSteps
    <2>3. new.step = "stats" /\ ~new.whole /\ ~new.late /\ new.figures = [f \in Figures |-> 0]
      BY <2>2, NoViewerType DEF Viewing
    <2>4. Shows(new) /\ PaymentWas(new)
      BY <2>3 DEF Shows, GatheredNear, PaymentWas
    <2> QED
      BY <1>1, <2>1, <2>2, <2>4, ViewerGoesOn
  <1>4. CASE GetCurrentSubscription(v)
    <2>1. PICK new \in Viewing : new = [NoViewer EXCEPT !.step = "tenant", !.whole = TRUE,
                                                        !.during = {account.payment}]
      BY <1>2, NoViewerType DEF Viewing, ViewerSteps
    <2>2. /\ new.step = "tenant" /\ ~new.late /\ ~new.loaded /\ new.during = {account.payment}
          /\ new.figures = [f \in Figures |-> 0]
      BY <2>1, NoViewerType DEF Viewing
    <2>3. Shows(new) /\ PaymentWas(new)
      BY <2>2 DEF Shows, GatheredNear, PaymentWas
    <2>4. viewer' = [viewer EXCEPT ![v] = new]
      BY <1>4, <2>1 DEF GetCurrentSubscription
    <2> QED
      BY <1>1, <2>3, <2>4, ViewerGoesOn
  <1>5. CASE LoadTenant(v)
    <2>1. PICK old \in Viewing : old = viewer[v] /\ Shows(old) /\ PaymentWas(old) /\ old.step = "tenant"
      BY <1>5, ViewerIs DEF LoadTenant
    <2>2. CASE viewer' = [viewer EXCEPT ![v] =
                 [@ EXCEPT !.step = "stats", !.payment = ShownPayment(account), !.loaded = TRUE]]
      <3>1. ShownPayment(account) \in PaymentStatus
        BY <1>2 DEF ShownPayment, PaymentStatus
      <3>2. PICK new \in Viewing :
              new = [old EXCEPT !.step = "stats", !.payment = ShownPayment(account), !.loaded = TRUE]
        BY <3>1 DEF Viewing, ViewerSteps
      <3>3. /\ new.step = "stats" /\ new.late = old.late /\ new.figures = old.figures
            /\ new.whole = old.whole /\ new.during = old.during /\ new.payment = ShownPayment(account)
        BY <3>2 DEF Viewing
      <3>4. Shows(new) /\ PaymentWas(new)
        BY <2>1, <3>3 DEF Shows, GatheredNear, PaymentWas, ShownPayment
      <3>5. viewer' = [viewer EXCEPT ![v] = new]
        BY <2>1, <2>2, <3>2
      <3> QED
        BY <1>1, <3>4, <3>5, ViewerGoesOn
    <2>3. CASE viewer' = [viewer EXCEPT ![v].step = "stats"]
      <3>1. PICK new \in Viewing : new = [old EXCEPT !.step = "stats"]
        BY DEF Viewing, ViewerSteps
      <3>2. /\ new.step = "stats" /\ new.late = old.late /\ new.figures = old.figures
            /\ new.whole = old.whole /\ new.during = old.during /\ new.payment = old.payment
            /\ new.loaded = old.loaded
        BY <3>1 DEF Viewing
      <3>3. Shows(new) /\ PaymentWas(new)
        BY <2>1, <3>2 DEF Shows, GatheredNear, PaymentWas
      <3>4. viewer' = [viewer EXCEPT ![v] = new]
        BY <2>1, <2>3, <3>1
      <3> QED
        BY <1>1, <3>3, <3>4, ViewerGoesOn
    <2> QED
      BY <1>5, <2>2, <2>3 DEF LoadTenant
  <1>6. CASE AnswerViewer(v)
    <2>1. PICK new \in Viewing : new = NoViewer /\ Shows(new) /\ PaymentWas(new)
      BY NoViewerType DEF Shows, GatheredNear, PaymentWas
    <2>2. viewer' = [viewer EXCEPT ![v] = new]
      BY <1>6, <2>1 DEF AnswerViewer
    <2> QED
      BY <1>1, <2>1, <2>2, ViewerGoesOn
  <1> QED
    BY <1>3, <1>4, <1>5, <1>6

LEMMA StatisticsSteps ==
  ASSUME StatusInv, NEW v \in Viewers,
         TakeStatistics(v) \/ MissStatistics(v) \/ StatsFail(v) \/ FetchSubscription(v)
  PROVE  StatusInv'
  <1>1. /\ UNCHANGED <<figure, members, account, statistics, heldFigure, heldMembers, failed, foreign, drifts>>
        /\ sfaults' = sfaults \/ SFault
    BY DEF TakeStatistics, MissStatistics, StatsFail, FetchSubscription
  <1>2. PICK old \in Viewing : old = viewer[v] /\ Shows(old) /\ PaymentWas(old)
    BY ViewerIs
  <1>3. CASE TakeStatistics(v)
    <2>1. PICK entry \in Statistic : entry = statistics
      BY <1>3 DEF TakeStatistics, StatusInv, StatusTyped
    <2>2. PICK step \in {"stripe", "answer"} : step = AfterStats(v)
      BY DEF AfterStats
    <2>3. PICK new \in Viewing : new = [old EXCEPT !.step = step, !.figures = entry.figures,
                                                   !.percentage = entry.percentage]
      BY DEF Viewing, Statistic, ViewerSteps
    <2>4. /\ new.step = step /\ new.late = old.late /\ new.figures = entry.figures
          /\ new.percentage = entry.percentage
          /\ new.whole = old.whole /\ new.during = old.during /\ new.payment = old.payment
          /\ new.loaded = old.loaded
      BY <2>3 DEF Viewing
    <2>5. CachedNear(entry, 2) /\ CachedNear(entry, 3)
      <3>1. statistics # Null
        BY <1>3 DEF TakeStatistics
      <3>2. PICK b \in {1, 2} : CachedNear(entry, b)
        <4>1. entry.life \in {0, 1}
          BY DEF Statistic
        <4> QED
          BY <2>1, <3>1, <4>1 DEF StatusInv, StatisticsNear
      <3>3. \A c \in {2, 3} : c \in 0..3 /\ b \in 0..3 /\ b <= c
        OBVIOUS
      <3>4. ASSUME NEW c \in {2, 3} PROVE CachedNear(entry, c)'
        <4>1. StatusTyped /\ failed' = failed /\ foreign' = foreign
          BY <1>1 DEF StatusInv
        <4> QED
          BY <1>1, <3>2, <3>3, <4>1, ViewerIs, StillCached
      <3>5. \A c : CachedNear(entry, c)' = CachedNear(entry, c)
        BY <1>1 DEF CachedNear, FigureNear, PercentNear
      <3> QED
        BY <3>4, <3>5
    <2>6. Shows(new) /\ PaymentWas(new)
      <3>1. 1 + 2 = 3 /\ 0 + 2 = 2
        OBVIOUS
      <3> QED
        BY <1>2, <2>4, <2>5, <3>1 DEF Shows, GatheredNear, CachedNear, PaymentWas
    <2>7. viewer' = [viewer EXCEPT ![v] = new]
      BY <1>2, <1>3, <2>1, <2>2, <2>3 DEF TakeStatistics
    <2> QED
      BY <1>1, <2>6, <2>7, ViewerGoesOn
  <1>4. CASE MissStatistics(v)
    <2>1. PICK new \in Viewing : new = [old EXCEPT !.step = "gather", !.left = Figures]
      BY DEF Viewing, ViewerSteps
    <2>2. /\ new.step = "gather" /\ new.late = old.late /\ new.figures = old.figures
          /\ new.left = Figures
          /\ new.whole = old.whole /\ new.during = old.during /\ new.payment = old.payment
          /\ new.loaded = old.loaded
      BY <2>1 DEF Viewing
    <2>3. old.figures = [f \in Figures |-> 0]
      BY <1>2, <1>4 DEF MissStatistics, Shows, GatheredNear
    <2>4. Shows(new) /\ PaymentWas(new)
      BY <1>2, <2>2, <2>3 DEF Shows, GatheredNear, PaymentWas
    <2>5. viewer' = [viewer EXCEPT ![v] = new]
      BY <1>2, <1>4, <2>1 DEF MissStatistics
    <2> QED
      BY <1>1, <2>4, <2>5, ViewerGoesOn
  <1>5. CASE StatsFail(v)
    <2>1. PICK new \in Viewing :
            new = IF old.whole THEN [old EXCEPT !.step = "stripe", !.percentage = Null] ELSE NoViewer
      BY NoViewerType DEF Viewing, ViewerSteps
    <2>2. Shows(new) /\ PaymentWas(new)
      <3>1. CASE old.whole
        <4>1. /\ new.step = "stripe" /\ new.percentage = Null /\ new.late = old.late
              /\ new.whole = old.whole /\ new.during = old.during /\ new.payment = old.payment
              /\ new.loaded = old.loaded
          BY <2>1, <3>1 DEF Viewing
        <4> QED
          BY <1>2, <4>1 DEF Shows, GatheredNear, PaymentWas
      <3>2. CASE ~old.whole
        BY <2>1, <3>2, NoViewerType DEF Shows, GatheredNear, PaymentWas
      <3> QED
        BY <3>1, <3>2
    <2>3. viewer' = [viewer EXCEPT ![v] = new]
      BY <1>2, <1>5, <2>1 DEF StatsFail
    <2> QED
      BY <1>1, <2>2, <2>3, ViewerGoesOn
  <1>6. CASE FetchSubscription(v)
    <2>1. PICK new \in Viewing : new = [old EXCEPT !.step = "answer"]
      BY DEF Viewing, ViewerSteps
    <2>2. /\ new.step = "answer" /\ new.late = old.late /\ new.figures = old.figures
          /\ new.percentage = old.percentage /\ old.step = "stripe"
          /\ new.whole = old.whole /\ new.during = old.during /\ new.payment = old.payment
          /\ new.loaded = old.loaded
      BY <1>2, <1>6, <2>1 DEF FetchSubscription, Viewing
    <2>3. Shows(new) /\ PaymentWas(new)
      BY <1>2, <2>2 DEF Shows, GatheredNear, PaymentWas
    <2>4. viewer' = [viewer EXCEPT ![v] = new]
      BY <1>2, <1>6, <2>1 DEF FetchSubscription
    <2> QED
      BY <1>1, <2>3, <2>4, ViewerGoesOn
  <1> QED
    BY <1>3, <1>4, <1>5, <1>6

\* A figure arrives, or fails: then a zero is as near as can be.
LEMMA GatherStep ==
  ASSUME StatusInv, NEW v \in Viewers, NEW f \in Figures, Gather(v, f)
  PROVE  StatusInv'
  <1>1. /\ UNCHANGED <<figure, members, account, statistics, heldFigure, heldMembers, foreign, drifts>>
    BY DEF Gather
  <1>2. PICK old \in Viewing : /\ old = viewer[v] /\ Shows(old) /\ PaymentWas(old)
                               /\ old.step = "gather" /\ f \in old.left
    BY ViewerIs DEF Gather
  <1>3. figure \in [Figures -> Counted]
    BY DEF StatusInv, StatusTyped, STypeOK
  <1>4. CASE /\ viewer' = [viewer EXCEPT ![v] = Gathered(@, f)]
             /\ UNCHANGED <<failed, sfaults>>
    <2>1. PICK new \in Viewing : new = Gathered(old, f)
      BY <1>3 DEF Gathered, Viewing
    <2>2. /\ new.step = "gather" /\ new.late = old.late /\ new.left = old.left \ {f}
          /\ new.figures[f] = figure[f] /\ \A g \in Figures \ {f} : new.figures[g] = old.figures[g]
          /\ new.whole = old.whole /\ new.during = old.during /\ new.payment = old.payment
          /\ new.loaded = old.loaded
      BY <1>2, <2>1 DEF Gathered, Viewing
    <2>3. ASSUME NEW b \in {0, 1}, GatheredNear(old, b) PROVE GatheredNear(new, b)
      <3>1. old.left \subseteq Figures
        BY DEF Viewing
      <3>2. \A g \in new.left : new.figures[g] = 0
        BY <1>2, <2>2, <2>3, <3>1 DEF GatheredNear
      <3>3. \A g \in Figures \ new.left : FigureNear(g, new.figures[g], b)
        BY <1>2, <2>2, <2>3 DEF GatheredNear, FigureNear
      <3> QED
        BY <2>2, <3>2, <3>3 DEF GatheredNear
    <2>4. Shows(new) /\ PaymentWas(new)
      BY <1>2, <2>2, <2>3 DEF Shows, PaymentWas
    <2>5. viewer' = [viewer EXCEPT ![v] = new]
      BY <1>2, <1>4, <2>1
    <2> QED
      BY <1>1, <1>4, <2>4, <2>5, ViewerGoesOn
  <1>5. CASE /\ SFault
             /\ viewer' = [viewer EXCEPT ![v].left = @ \ {f}]
             /\ failed' = [failed EXCEPT ![f] = 0]
    <2>1. PICK new \in Viewing : new = [old EXCEPT !.left = @ \ {f}]
      BY DEF Viewing
    <2>2. /\ new.step = "gather" /\ new.late = old.late /\ new.left = old.left \ {f}
          /\ new.figures = old.figures
          /\ new.whole = old.whole /\ new.during = old.during /\ new.payment = old.payment
          /\ new.loaded = old.loaded
      BY <1>2, <2>1 DEF Viewing
    <2>3. /\ failed' \in [Figures -> 0..4] /\ failed'[f] = 0
          /\ \A g \in Figures : failed'[g] <= failed[g]
          /\ sfaults' \in 0..MaxSFaults /\ foreign' \in 0..4 /\ foreign' <= foreign
      <3>1. failed \in [Figures -> 0..4] /\ sfaults \in 0..MaxSFaults /\ foreign \in 0..4
        BY ViewerIs
      <3>2. sfaults' \in 0..MaxSFaults
        BY <1>5, <3>1, StatusAssumption DEF SFault
      <3>3. failed' \in [Figures -> 0..4] /\ failed'[f] = 0 /\ \A g \in Figures \ {f} : failed'[g] = failed[g]
        BY <1>5, <3>1
      <3>4. \A g \in Figures : failed[g] \in 0..4
        BY <3>1
      <3>5. \A g \in Figures : failed'[g] <= failed[g]
        BY <3>3, <3>4
      <3> QED
        BY <1>1, <3>1, <3>2, <3>3, <3>5
    <2>4. Shows(old)'
      BY <1>1, <1>2, <2>3, StillShows DEF StatusInv
    <2>5. ASSUME NEW b \in {0, 1}, GatheredNear(old, b)' PROVE GatheredNear(new, b)'
      <3>1. old.left \subseteq Figures /\ old.figures[f] = 0
        BY <1>2, <2>5 DEF GatheredNear, Viewing
      <3>2. FigureNear(f, old.figures[f], b)'
        BY <2>3, <3>1 DEF FigureNear
      <3>3. \A g \in Figures \ new.left : FigureNear(g, new.figures[g], b)'
        BY <1>2, <2>2, <2>5, <3>2 DEF GatheredNear
      <3> QED
        BY <1>2, <2>2, <2>5, <3>1, <3>3 DEF GatheredNear
    <2>6. Shows(new)' /\ PaymentWas(new)
      BY <1>2, <2>2, <2>4, <2>5 DEF Shows, PaymentWas
    <2>7. viewer' = [viewer EXCEPT ![v] = new]
      BY <1>2, <1>5, <2>1
    <2> QED
      BY <1>1, <2>3, <2>6, <2>7, ViewerMoves
  <1> QED
    BY <1>4, <1>5 DEF Gather

\* The members are counted, of this tenant or of another one.
LEMMA CountStep == ASSUME StatusInv, NEW v \in Viewers, CountMembers(v) PROVE StatusInv'
  <1>1. UNCHANGED <<figure, members, account, statistics, heldFigure, heldMembers, failed, drifts, sfaults>>
    BY DEF CountMembers
  <1>2. PICK old \in Viewing : /\ old = viewer[v] /\ Shows(old) /\ PaymentWas(old)
                               /\ old.step = "gather" /\ old.left = {}
    BY ViewerIs DEF CountMembers
  <1>3. members \in 0..MaxMembers /\ MaxMembers \in Nat
    BY StatusAssumption DEF StatusInv, StatusTyped, STypeOK
  <1>4. PICK n \in 0..MaxMembers :
          /\ viewer' = [viewer EXCEPT ![v] = [@ EXCEPT !.step = "cache", !.percentage = Percentage(n)]]
          /\ old.foreign \/ n = members
    BY <1>2, <1>3 DEF CountMembers
  <1>5. Percentage(n) \in 0..100
    BY <1>3, PercentageType
  <1>6. PICK new \in Viewing : new = [old EXCEPT !.step = "cache", !.percentage = Percentage(n)]
    BY <1>5 DEF Viewing, ViewerSteps
  <1>7. /\ new.step = "cache" /\ new.late = old.late /\ new.figures = old.figures
        /\ new.percentage = Percentage(n)
        /\ new.whole = old.whole /\ new.during = old.during /\ new.payment = old.payment
        /\ new.loaded = old.loaded
    BY <1>6 DEF Viewing
  <1>8. foreign' \in 0..4 /\ foreign' <= foreign /\ (old.foreign => foreign' = 0)
        /\ foreign \in 0..4
    <2>1. foreign \in 0..4
      BY ViewerIs
    <2>2. foreign' = IF old.foreign THEN 0 ELSE foreign
      BY <1>2 DEF CountMembers
    <2> QED
      BY <2>1, <2>2
  <1>9. /\ failed' \in [Figures -> 0..4] /\ sfaults' \in 0..MaxSFaults
        /\ \A f \in Figures : failed'[f] <= failed[f]
    BY <1>1, ViewerIs
  <1>10. Shows(old)'
    BY <1>1, <1>2, <1>8, <1>9, StillShows DEF StatusInv
  <1>11. ASSUME NEW b \in {0, 1}, GatheredNear(old, b)' PROVE GatheredNear(new, b)'
    <2>1. \A f \in Figures : FigureNear(f, new.figures[f], b)'
      BY <1>2, <1>7, <1>11 DEF GatheredNear
    <2>2. PercentNear(new.percentage, b)'
      <3>1. CASE old.foreign
        BY <1>8, <3>1 DEF PercentNear
      <3>2. CASE ~old.foreign
        <4>1. Percentage(n)' = Percentage(n)
          BY DEF Percentage
        <4> HIDE DEF Percentage
        <4> QED
          BY <1>1, <1>4, <1>7, <3>2, <4>1 DEF PercentNear
      <3> QED
        BY <3>1, <3>2
    <2> QED
      BY <1>5, <1>7, <2>1, <2>2 DEF GatheredNear
  <1>12. Shows(new)' /\ PaymentWas(new)
    BY <1>2, <1>7, <1>10, <1>11 DEF Shows, PaymentWas
  <1>13. viewer' = [viewer EXCEPT ![v] = new]
    BY <1>2, <1>4, <1>6
  <1> QED
    BY <1>1, <1>8, <1>9, <1>12, <1>13, ViewerMoves

LEMMA CacheStep == ASSUME StatusInv, NEW v \in Viewers, CacheStatistics(v) PROVE StatusInv'
  <1>1. /\ UNCHANGED <<figure, members, account, heldFigure, heldMembers, failed, foreign, drifts, sfaults>>
    BY DEF CacheStatistics
  <1>2. PICK old \in Viewing : old = viewer[v] /\ Shows(old) /\ PaymentWas(old) /\ old.step = "cache"
    BY ViewerIs DEF CacheStatistics
  <1>3. old.percentage \in 0..100
    BY <1>2 DEF Shows, GatheredNear
  <1>4. PICK entry \in Statistic :
          entry = [figures |-> old.figures, percentage |-> old.percentage, life |-> 1]
    <2>1. old.figures \in [Figures -> Counted \cup {0}] /\ 1 \in 0..1
      BY DEF Viewing
    <2> QED
      BY <1>3, <2>1 DEF Statistic
  <1>5. PICK step \in {"stripe", "answer"} : step = AfterStats(v)
    BY DEF AfterStats
  <1>6. PICK new \in Viewing : new = [old EXCEPT !.step = step]
    BY DEF Viewing, ViewerSteps
  <1>7. statistics' = entry /\ viewer' = [viewer EXCEPT ![v] = new]
    BY <1>2, <1>4, <1>5, <1>6 DEF CacheStatistics, Life
  <1>8. /\ new.step = step /\ new.late = old.late /\ new.figures = old.figures
        /\ new.percentage = old.percentage
        /\ new.whole = old.whole /\ new.during = old.during /\ new.payment = old.payment
        /\ new.loaded = old.loaded
    BY <1>6 DEF Viewing
  <1>9. \A b, record : /\ CachedNear(record, b)' = CachedNear(record, b)
                       /\ GatheredNear(record, b)' = GatheredNear(record, b)
    BY <1>1 DEF CachedNear, GatheredNear, FigureNear, PercentNear
  <1>10. ASSUME NEW b \in 0..3, NEW c \in 0..3, b <= c, CachedNear(entry, b) PROVE CachedNear(entry, c)
    <2>1. failed' = failed /\ foreign' = foreign /\ StatusTyped
      BY <1>1 DEF StatusInv
    <2>2. CachedNear(entry, c)'
      BY <1>1, <1>10, <2>1, ViewerIs, StillCached
    <2> QED
      BY <1>9, <2>2
  <1>11. PICK b \in {0, 1} : CachedNear(entry, b) /\ (b = 1 <=> old.late)
    <2>1. entry.figures = old.figures /\ entry.percentage = old.percentage
      BY <1>4
    <2>2. old.late \in BOOLEAN
      BY DEF Viewing
    <2> QED
      BY <1>2, <2>1, <2>2 DEF Shows, GatheredNear, CachedNear
  <1>12. CachedNear(entry, 1) /\ CachedNear(entry, b + 2)
    <2>1. b \in 0..3 /\ 1 \in 0..3 /\ b + 2 \in 0..3 /\ b <= 1 /\ b <= b + 2
      OBVIOUS
    <2> QED
      BY <1>10, <1>11, <2>1
  <1>13. Shows(new) /\ PaymentWas(new)
    <2>1. GatheredNear(new, b)
      BY <1>4, <1>8, <1>12 DEF GatheredNear, CachedNear
    <2>2. new.late \in BOOLEAN
      BY DEF Viewing
    <2> QED
      BY <1>2, <1>8, <1>11, <2>1, <2>2 DEF Shows, PaymentWas
  <1>14. /\ viewer' \in [Viewers -> Viewing] /\ viewer'[v] = new
         /\ \A w \in Viewers \ {v} : viewer'[w] = viewer[w]
    BY <1>7 DEF StatusInv, StatusTyped
  <1>15. StatusTyped'
    <2>1. \A w \in Viewers : /\ viewer'[w].figures \in [Figures -> Counted \cup {0}]
                             /\ viewer'[w].left \subseteq Figures
      BY <1>14 DEF Viewing
    <2>2. statistics'.percentage \in 0..100
      BY <1>7 DEF Statistic
    <2> QED
      BY <1>1, <1>7, <1>14, <2>1, <2>2 DEF StatusInv, StatusTyped, STypeOK
  <1>16. StatisticsNear'
    <2>1. entry.life = 1 /\ CachedNear(entry, 1)'
      BY <1>4, <1>9, <1>12
    <2> QED
      BY <1>7, <2>1 DEF StatisticsNear, CachedNear
  <1>17. ASSUME NEW w \in Viewers PROVE Shows(viewer[w])' /\ PaymentWas(viewer[w])'
    <2>1. PICK record \in Viewing : record = viewer'[w] /\ Shows(record) /\ PaymentWas(record)
      <3>1. CASE w = v
        BY <1>13, <1>14, <3>1
      <3>2. CASE w # v
        <4>1. PICK record \in Viewing : record = viewer[w]
          BY ViewerIs
        <4> QED
          BY <1>14, <3>2, <4>1, ViewerIs
      <3> QED
        BY <3>1, <3>2
    <2>2. Shows(record)'
      BY <1>9, <2>1 DEF Shows
    <2> QED
      BY <1>1, <2>1, <2>2 DEF Shows, GatheredNear, PaymentWas
  <1> QED
    BY <1>15, <1>16, <1>17 DEF StatusInv

-----------------------------------------------------------------------------
(* What is shown changes: what was true is held from now on.               *)

\* All that was near is near within the same bound.
LEMMA WorldChanges ==
  ASSUME StatusInv, StatusTyped', UNCHANGED <<account, statistics, viewer>>,
         \A f \in Figures, n \in Counted \cup {0}, b \in 0..3 : FigureNear(f, n, b) => FigureNear(f, n, b)',
         \A p : \A b \in 0..3 : PercentNear(p, b) => PercentNear(p, b)'
  PROVE  StatusInv'
  <1>1. StatisticsNear'
    <2>1. ASSUME statistics # Null, NEW b \in {1, 2}, CachedNear(statistics, b)
          PROVE  CachedNear(statistics, b)'
      <3>1. statistics.figures \in [Figures -> Counted \cup {0}] /\ b \in 0..3
        BY <2>1 DEF StatusInv, StatusTyped, Statistic
      <3> QED
        BY <2>1, <3>1 DEF CachedNear
    <2> QED
      BY <2>1 DEF StatusInv, StatisticsNear
  <1>2. ASSUME NEW v \in Viewers PROVE Shows(viewer[v])' /\ PaymentWas(viewer[v])'
    <2>1. PICK record \in Viewing : record = viewer[v] /\ Shows(record) /\ PaymentWas(record)
      BY ViewerIs
    <2>2. ASSUME NEW b \in {0, 1}, GatheredNear(record, b) PROVE GatheredNear(record, b)'
      <3>1. /\ record.figures \in [Figures -> Counted \cup {0}] /\ record.left \subseteq Figures
            /\ b \in 0..3 /\ b + 2 \in 0..3
        BY DEF Viewing
      <3> QED
        BY <2>2, <3>1 DEF GatheredNear
    <2>3. Shows(record)'
      BY <2>1, <2>2 DEF Shows
    <2> QED
      BY <2>1, <2>3 DEF Shows, GatheredNear, PaymentWas
  <1> QED
    BY <1>1, <1>2 DEF StatusInv

LEMMA FigureStep == ASSUME StatusInv, NEW f \in Figures, FigureChanges(f) PROVE StatusInv'
  <1>1. UNCHANGED <<members, account, statistics, viewer, heldMembers, failed, foreign, sfaults>>
    BY DEF FigureChanges
  <1>2. PICK n \in Counted : figure' = [figure EXCEPT ![f] = n]
    BY DEF FigureChanges
  <1>3. /\ figure \in [Figures -> Counted] /\ heldFigure \in [Figures -> [Counted -> 0..4]]
        /\ drifts \in 0..MaxDrifts
    BY DEF StatusInv, StatusTyped, STypeOK
  <1>4. PICK was \in Counted : was = figure[f]
    BY <1>3
  <1>5. heldFigure' = [heldFigure EXCEPT ![f] = [heldFigure[f] EXCEPT ![was] = 0]]
    BY <1>4 DEF FigureChanges
  <1>6. [heldFigure[f] EXCEPT ![was] = 0] \in [Counted -> 0..4]
    BY <1>3
  <1>7. /\ heldFigure' \in [Figures -> [Counted -> 0..4]]
        /\ heldFigure'[f][was] = 0 /\ \A m \in Counted \ {was} : heldFigure'[f][m] = heldFigure[f][m]
        /\ \A g \in Figures \ {f} : heldFigure'[g] = heldFigure[g]
    BY <1>3, <1>5, <1>6
  <1>8. figure' \in [Figures -> Counted] /\ \A g \in Figures \ {f} : figure'[g] = figure[g]
    BY <1>2, <1>3
  <1>9. drifts' \in 0..MaxDrifts
    BY <1>3, StatusAssumption DEF FigureChanges, Drift
  <1>10. StatusTyped'
    BY <1>1, <1>7, <1>8, <1>9 DEF StatusInv, StatusTyped, STypeOK
  <1>11. ASSUME NEW g \in Figures, NEW m \in Counted \cup {0}, NEW b \in 0..3, FigureNear(g, m, b)
         PROVE  FigureNear(g, m, b)'
    <2>1. CASE g # f
      BY <1>1, <1>7, <1>8, <1>11, <2>1 DEF FigureNear
    <2>2. CASE g = f /\ m = was
      BY <1>7, <2>2 DEF FigureNear, Counted
    <2>3. CASE g = f /\ m # was
      BY <1>1, <1>4, <1>7, <1>11, <2>3 DEF FigureNear
    <2> QED
      BY <2>1, <2>2, <2>3
  <1>12. \A p : \A b \in 0..3 : PercentNear(p, b) => PercentNear(p, b)'
    BY <1>1 DEF PercentNear
  <1> QED
    BY <1>1, <1>10, <1>11, <1>12, WorldChanges

LEMMA MemberCountStep == ASSUME StatusInv, MembersChange PROVE StatusInv'
  <1>1. UNCHANGED <<figure, account, statistics, viewer, heldFigure, failed, foreign, sfaults>>
    BY DEF MembersChange
  <1>2. /\ members \in 0..MaxMembers /\ members' \in 0..MaxMembers /\ drifts \in 0..MaxDrifts
        /\ heldMembers \in [0..MaxMembers -> 0..4] /\ foreign \in 0..4
    BY DEF StatusInv, StatusTyped, STypeOK, MembersChange
  <1>3. heldMembers' = [heldMembers EXCEPT ![members] = 0]
    BY DEF MembersChange
  <1>4. /\ heldMembers' \in [0..MaxMembers -> 0..4] /\ heldMembers'[members] = 0
        /\ \A n \in 0..MaxMembers \ {members} : heldMembers'[n] = heldMembers[n]
    BY <1>2, <1>3
  <1>5. drifts' \in 0..MaxDrifts
    BY <1>2, StatusAssumption DEF MembersChange, Drift
  <1>6. StatusTyped'
    BY <1>1, <1>2, <1>4, <1>5 DEF StatusInv, StatusTyped, STypeOK
  <1>7. \A f \in Figures, n \in Counted \cup {0}, b \in 0..3 : FigureNear(f, n, b) => FigureNear(f, n, b)'
    BY <1>1 DEF FigureNear
  <1>8. ASSUME NEW p, NEW b \in 0..3, PercentNear(p, b) PROVE PercentNear(p, b)'
    <2>1. \A n : Percentage(n)' = Percentage(n)
      BY DEF Percentage
    <2> HIDE DEF Percentage
    <2>2. CASE foreign <= b
      BY <1>1, <2>2 DEF PercentNear
    <2>3. CASE \E n \in 0..MaxMembers : p = Percentage(n) /\ (n = members \/ heldMembers[n] <= b)
      <3>1. PICK n \in 0..MaxMembers : p = Percentage(n) /\ (n = members \/ heldMembers[n] <= b)
        BY <2>3
      <3>2. heldMembers'[n] <= b
        BY <1>4, <3>1
      <3> QED
        BY <2>1, <3>1, <3>2 DEF PercentNear
    <2> QED
      BY <1>8, <2>2, <2>3 DEF PercentNear
  <1> QED
    BY <1>1, <1>6, <1>7, <1>8, WorldChanges

\* The payment status changes while requests that show it are in progress.
LEMMA PaymentStep == ASSUME StatusInv, PaymentChanges PROVE StatusInv'
  <1>1. UNCHANGED <<figure, members, statistics, heldFigure, heldMembers, failed, foreign, sfaults>>
    BY DEF PaymentChanges
  <1>2. PICK p \in PaymentStatus :
          /\ account' = [account EXCEPT !.payment = p]
          /\ viewer' = [v \in Viewers |-> IF viewer[v].whole
                                           THEN [viewer[v] EXCEPT !.during = @ \cup {p}] ELSE viewer[v]]
    BY DEF PaymentChanges
  <1>3. /\ account \in [payment : PaymentStatus, trial : BOOLEAN]
        /\ drifts \in 0..MaxDrifts
    BY DEF StatusInv, StatusTyped, STypeOK
  <1>4. /\ account' \in [payment : PaymentStatus, trial : BOOLEAN] /\ account'.payment = p
        /\ account'.trial = account.trial
    BY <1>2, <1>3
  <1>5. drifts' \in 0..MaxDrifts
    BY <1>3, StatusAssumption DEF PaymentChanges, Drift
  <1>6. ASSUME NEW v \in Viewers
        PROVE  viewer'[v] \in Viewing /\ Shows(viewer'[v]) /\ PaymentWas(viewer[v])'
    <2>1. PICK old \in Viewing : old = viewer[v] /\ Shows(old) /\ PaymentWas(old)
      BY ViewerIs
    <2>2. CASE old.whole
      <3>1. PICK new \in Viewing : new = [old EXCEPT !.during = @ \cup {p}]
        BY DEF Viewing
      <3>2. viewer'[v] = new
        BY <1>2, <2>1, <2>2, <3>1
      <3>3. /\ new.step = old.step /\ new.late = old.late /\ new.figures = old.figures
            /\ new.percentage = old.percentage /\ new.left = old.left
            /\ new.during = old.during \cup {p} /\ new.payment = old.payment
            /\ new.loaded = old.loaded
        BY <3>1 DEF Viewing
      <3>4. Shows(new)
        BY <2>1, <3>3 DEF Shows, GatheredNear
      <3> QED
        BY <1>4, <2>1, <2>2, <3>2, <3>3, <3>4 DEF PaymentWas
    <2>3. CASE ~old.whole
      <3>1. viewer'[v] = old
        BY <1>2, <2>1, <2>3
      <3> QED
        BY <2>1, <2>3, <3>1 DEF PaymentWas
    <2> QED
      BY <2>2, <2>3
  <1>7. viewer' \in [Viewers -> Viewing]
    BY <1>2, <1>6
  <1>8. StatusTyped'
    <2>1. \A v \in Viewers : /\ viewer'[v].figures \in [Figures -> Counted \cup {0}]
                             /\ viewer'[v].left \subseteq Figures
      BY <1>6 DEF Viewing
    <2> QED
      BY <1>1, <1>4, <1>5, <1>7, <2>1 DEF StatusInv, StatusTyped, STypeOK
  <1>9. StatisticsNear'
    BY <1>1 DEF StatusInv, StatisticsNear, CachedNear, FigureNear, PercentNear
  <1>10. \A v \in Viewers : Shows(viewer[v])'
    <2>1. \A record : Shows(record)' = Shows(record)
      BY <1>1 DEF Shows, GatheredNear, FigureNear, PercentNear
    <2>2. ASSUME NEW v \in Viewers PROVE Shows(viewer[v])'
      <3>1. PICK record \in Viewing : record = viewer'[v] /\ Shows(record)
        BY <1>6
      <3>2. Shows(record)'
        BY <2>1, <3>1
      <3> QED
        BY <3>1, <3>2 DEF Shows, GatheredNear
    <2> QED
      BY <2>2
  <1> QED
    BY <1>6, <1>8, <1>9, <1>10 DEF StatusInv

\* A period ends: everything that was held is one period older.
LEMMA PeriodStep == ASSUME StatusInv, NextPeriod PROVE StatusInv'
  <1> DEFINE Aged(age) == IF age = 4 THEN 4 ELSE age + 1
  <1>1. /\ UNCHANGED <<figure, members, account, drifts, sfaults>>
        /\ \A v \in Viewers : ~viewer[v].late
        /\ viewer' = [v \in Viewers |-> [viewer[v] EXCEPT !.late = viewer[v].step # "idle"]]
        /\ statistics' = IF statistics = Null \/ statistics.life = 0 THEN Null
                         ELSE [statistics EXCEPT !.life = @ - 1]
    BY DEF NextPeriod
  <1>2. /\ heldFigure' = [f \in Figures |-> [n \in Counted |-> Aged(heldFigure[f][n])]]
        /\ heldMembers' = [n \in 0..MaxMembers |-> Aged(heldMembers[n])]
        /\ failed' = [f \in Figures |-> Aged(failed[f])]
        /\ foreign' = Aged(foreign)
    BY DEF NextPeriod, Old
  <1>3. /\ heldFigure \in [Figures -> [Counted -> 0..4]] /\ heldMembers \in [0..MaxMembers -> 0..4]
        /\ failed \in [Figures -> 0..4] /\ foreign \in 0..4
    BY DEF StatusInv, StatusTyped
  <1>4. \A age \in 0..4 : Aged(age) \in 0..4 /\ \A b \in 0..2 : age <= b => Aged(age) <= b + 1
    OBVIOUS
  <1> HIDE DEF Aged
  <1>5. /\ heldFigure' \in [Figures -> [Counted -> 0..4]] /\ heldMembers' \in [0..MaxMembers -> 0..4]
        /\ failed' \in [Figures -> 0..4] /\ foreign' \in 0..4
    BY <1>2, <1>3, <1>4
  <1>6. ASSUME NEW f \in Figures, NEW n \in Counted \cup {0}, NEW b \in 0..2, FigureNear(f, n, b)
        PROVE  FigureNear(f, n, b + 1)'
    <2>1. n # 0 => heldFigure'[f][n] = Aged(heldFigure[f][n]) /\ heldFigure[f][n] \in 0..4
      BY <1>2, <1>3
    <2>2. failed'[f] = Aged(failed[f]) /\ failed[f] \in 0..4
      BY <1>2, <1>3
    <2> QED
      BY <1>1, <1>4, <1>6, <2>1, <2>2 DEF FigureNear
  <1>7. ASSUME NEW p, NEW b \in 0..2, PercentNear(p, b) PROVE PercentNear(p, b + 1)'
    <2>1. \A n : Percentage(n)' = Percentage(n)
      BY DEF Percentage
    <2> HIDE DEF Percentage
    <2>2. CASE foreign <= b
      BY <1>2, <1>3, <1>4, <2>2 DEF PercentNear
    <2>3. CASE \E n \in 0..MaxMembers : p = Percentage(n) /\ (n = members \/ heldMembers[n] <= b)
      <3>1. PICK n \in 0..MaxMembers : p = Percentage(n) /\ (n = members \/ heldMembers[n] <= b)
        BY <2>3
      <3>2. heldMembers'[n] = Aged(heldMembers[n]) /\ heldMembers[n] \in 0..4
        BY <1>2, <1>3
      <3>3. n = members \/ heldMembers'[n] <= b + 1
        BY <1>4, <3>1, <3>2
      <3> QED
        BY <1>1, <2>1, <3>1, <3>3 DEF PercentNear
    <2> QED
      BY <1>7, <2>2, <2>3 DEF PercentNear
  <1>8. ASSUME NEW v \in Viewers
        PROVE  viewer'[v] \in Viewing /\ Shows(viewer[v])' /\ PaymentWas(viewer[v])'
    <2>1. PICK old \in Viewing : old = viewer[v] /\ Shows(old) /\ PaymentWas(old) /\ ~old.late
      BY <1>1, ViewerIs
    <2>2. PICK new \in Viewing : new = [old EXCEPT !.late = old.step # "idle"]
      BY DEF Viewing
    <2>3. viewer'[v] = new
      BY <1>1, <2>1, <2>2
    <2>4. /\ new.step = old.step /\ new.figures = old.figures /\ (new.late <=> old.step # "idle")
          /\ new.percentage = old.percentage /\ new.left = old.left
          /\ new.whole = old.whole /\ new.during = old.during /\ new.payment = old.payment
          /\ new.loaded = old.loaded
      BY <2>2 DEF Viewing
    <2>5. GatheredNear(old, 0)
      BY <2>1 DEF Shows
    <2>6. GatheredNear(new, 1)'
      <3>1. new.left \subseteq Figures /\ new.figures \in [Figures -> Counted \cup {0}]
        BY DEF Viewing
      <3>2. \A f \in Figures : FigureNear(f, new.figures[f], 0) => FigureNear(f, new.figures[f], 1)'
        <4>1. 0 \in 0..2 /\ 0 + 1 = 1
          OBVIOUS
        <4> QED
          BY <1>6, <3>1, <4>1
      <3>3. \A f \in Figures : FigureNear(f, new.figures[f], 2) => FigureNear(f, new.figures[f], 3)'
        <4>1. 2 \in 0..2 /\ 2 + 1 = 3
          OBVIOUS
        <4> QED
          BY <1>6, <3>1, <4>1
      <3>4. \A p : (PercentNear(p, 0) => PercentNear(p, 1)') /\ (PercentNear(p, 2) => PercentNear(p, 3)')
        <4>1. 0 \in 0..2 /\ 2 \in 0..2 /\ 0 + 1 = 1 /\ 2 + 1 = 3
          OBVIOUS
        <4> QED
          BY <1>7, <4>1
      <3>5. 0 + 2 = 2 /\ 1 + 2 = 3
        OBVIOUS
      <3> QED
        BY <2>4, <2>5, <3>1, <3>2, <3>3, <3>4, <3>5 DEF GatheredNear
    <2>7. Shows(new)'
      <3>1. old.step = "idle" => GatheredNear(new, 0)'
        BY <2>4 DEF GatheredNear
      <3> QED
        BY <2>4, <2>6, <3>1 DEF Shows
    <2> QED
      BY <1>1, <2>1, <2>3, <2>4, <2>7 DEF Shows, GatheredNear, PaymentWas
  <1>9. viewer' \in [Viewers -> Viewing]
    BY <1>1, <1>8
  <1>10. (statistics' # Null => statistics' \in Statistic) /\ StatisticsNear'
    <2>1. CASE statistics = Null \/ statistics.life = 0
      BY <1>1, <2>1 DEF StatisticsNear
    <2>2. CASE ~(statistics = Null \/ statistics.life = 0)
      <3>1. PICK entry \in Statistic : entry = statistics /\ entry.life = 1 /\ CachedNear(entry, 1)
        <4>1. statistics \in Statistic
          BY <2>2 DEF StatusInv, StatusTyped
        <4>2. statistics.life = 1
          BY <2>2, <4>1 DEF Statistic
        <4> QED
          BY <2>2, <4>1, <4>2 DEF StatusInv, StatisticsNear
      <3>2. PICK next \in Statistic : next = [entry EXCEPT !.life = @ - 1]
        <4>1. entry.life - 1 \in 0..1
          BY <3>1
        <4> QED
          BY <4>1 DEF Statistic
      <3>3. next.life = 0 /\ next.figures = entry.figures /\ next.percentage = entry.percentage
        <4>1. next.life = entry.life - 1 /\ next.figures = entry.figures
              /\ next.percentage = entry.percentage
          BY <3>2 DEF Statistic
        <4> QED
          BY <3>1, <4>1
      <3>4. statistics' = next
        BY <1>1, <2>2, <3>1, <3>2
      <3>5. CachedNear(next, 2)'
        <4>1. 1 \in 0..2 /\ 1 + 1 = 2 /\ entry.figures \in [Figures -> Counted \cup {0}]
          BY DEF Statistic
        <4>2. \A f \in Figures : FigureNear(f, entry.figures[f], 2)'
          BY <1>6, <3>1, <4>1 DEF CachedNear
        <4>3. PercentNear(entry.percentage, 2)'
          BY <1>7, <3>1, <4>1 DEF CachedNear
        <4> QED
          BY <3>3, <4>2, <4>3 DEF CachedNear
      <3> QED
        BY <3>3, <3>4, <3>5 DEF StatisticsNear, CachedNear
    <2> QED
      BY <2>1, <2>2
  <1>11. StatusTyped'
    <2>1. \A v \in Viewers : /\ viewer'[v].figures \in [Figures -> Counted \cup {0}]
                             /\ viewer'[v].left \subseteq Figures
      BY <1>8 DEF Viewing
    <2>2. statistics' # Null => statistics'.percentage \in 0..100
      BY <1>10 DEF Statistic
    <2> QED
      BY <1>1, <1>5, <1>9, <1>10, <2>1, <2>2 DEF StatusInv, StatusTyped, STypeOK
  <1> QED
    BY <1>8, <1>10, <1>11 DEF StatusInv

LEMMA StatusStep == ASSUME StatusInv, [SNext]_svars PROVE StatusInv'
  <1>1. CASE StatisticsExpire \/ UNCHANGED svars
    <2>1. /\ UNCHANGED <<figure, members, account, viewer, heldFigure, heldMembers, failed, foreign, drifts,
                         sfaults>>
          /\ statistics' = Null \/ statistics' = statistics
      BY <1>1 DEF StatisticsExpire, svars
    <2>2. StatusTyped'
      BY <2>1 DEF StatusInv, StatusTyped, STypeOK, Statistic
    <2>3. StatisticsNear'
      BY <2>1 DEF StatusInv, StatisticsNear, CachedNear, FigureNear, PercentNear
    <2>4. ASSUME NEW v \in Viewers PROVE Shows(viewer[v])' /\ PaymentWas(viewer[v])'
      <3>1. Shows(viewer[v]) /\ PaymentWas(viewer[v])
        BY DEF StatusInv
      <3>2. /\ \A f, n, b : FigureNear(f, n, b)' <=> FigureNear(f, n, b)
            /\ \A p, b : PercentNear(p, b)' <=> PercentNear(p, b)
        BY <2>1 DEF FigureNear, PercentNear
      <3>3. \A b : GatheredNear(viewer[v], b)' <=> GatheredNear(viewer[v], b)
        BY <2>1, <3>2 DEF GatheredNear
      <3>4. Shows(viewer[v])'
        BY <2>1, <3>1, <3>3 DEF Shows
      <3>5. PaymentWas(viewer[v])'
        BY <2>1, <3>1 DEF PaymentWas
      <3> QED
        BY <3>4, <3>5
    <2> QED
      BY <2>2, <2>3, <2>4 DEF StatusInv
  <1> QED
    BY <1>1, ReceivingSteps, StatisticsSteps, GatherStep, CountStep, CacheStep, FigureStep, MemberCountStep,
       PaymentStep, PeriodStep DEF SNext

LEMMA StatusHolds == SSpec => []StatusInv
  <1>1. SInit => StatusInv
    BY StatusInit
  <1>2. StatusInv /\ [SNext]_svars => StatusInv'
    BY StatusStep
  <1> QED
    BY <1>1, <1>2, PTL DEF SSpec

\* Figures, members, the cached statistics and the requests have their types; the
\* percentage is one.
THEOREM StatusTypeCorrect == SSpec => []STypeOK
  <1>1. StatusInv => STypeOK
    BY DEF StatusInv, StatusTyped
  <1> QED
    BY <1>1, StatusHolds, PTL

\* What a tenant is shown was true less than four periods ago, whatever requests
\* overlap and however late: for any services and limits.
THEOREM ShownWasTrueRecently == SSpec => []ShownIsRecent
  <1>1. ASSUME StatusInv, NEW v \in Viewers, viewer[v].step = "answer", viewer[v].percentage # Null
        PROVE  /\ \A f \in Figures :
                    \/ viewer[v].figures[f] = figure[f]
                    \/ viewer[v].figures[f] # 0 /\ Recently(heldFigure[f][viewer[v].figures[f]])
                    \/ viewer[v].figures[f] = 0 /\ Recently(failed[f])
               /\ \/ \E n \in 0..MaxMembers : /\ viewer[v].percentage = Percentage(n)
                                              /\ n = members \/ Recently(heldMembers[n])
                  \/ Recently(foreign)
    <2>1. viewer[v] \in Viewing /\ Shows(viewer[v])
      BY <1>1, ViewerIs
    <2>2. PICK b \in {2, 3} : /\ \A f \in Figures : FigureNear(f, viewer[v].figures[f], b)
                              /\ PercentNear(viewer[v].percentage, b)
      <3>1. viewer[v].late \in BOOLEAN
        BY <2>1 DEF Viewing
      <3>2. 0 + 2 \in {2, 3} /\ 1 + 2 \in {2, 3}
        OBVIOUS
      <3> QED
        BY <1>1, <2>1, <3>1, <3>2 DEF Shows, GatheredNear
    <2>3. /\ heldFigure \in [Figures -> [Counted -> 0..4]] /\ heldMembers \in [0..MaxMembers -> 0..4]
          /\ failed \in [Figures -> 0..4] /\ foreign \in 0..4
      BY <1>1 DEF StatusInv, StatusTyped
    <2>4. \A age \in 0..4 : age <= b => Recently(age)
      BY DEF Recently, Old
    <2> HIDE DEF Recently
    <2>5. ASSUME NEW f \in Figures
          PROVE  \/ viewer[v].figures[f] = figure[f]
                 \/ viewer[v].figures[f] # 0 /\ Recently(heldFigure[f][viewer[v].figures[f]])
                 \/ viewer[v].figures[f] = 0 /\ Recently(failed[f])
      <3>1. viewer[v].figures[f] \in Counted \cup {0}
        BY <2>1 DEF Viewing
      <3>2. /\ viewer[v].figures[f] # 0 => heldFigure[f][viewer[v].figures[f]] \in 0..4
            /\ failed[f] \in 0..4
        BY <2>3, <3>1
      <3> QED
        BY <2>2, <2>4, <3>2 DEF FigureNear
    <2>6. \/ \E n \in 0..MaxMembers : /\ viewer[v].percentage = Percentage(n)
                                      /\ n = members \/ Recently(heldMembers[n])
          \/ Recently(foreign)
      <3> HIDE DEF Percentage
      <3>1. \A n \in 0..MaxMembers : heldMembers[n] \in 0..4
        BY <2>3
      <3> QED
        BY <2>2, <2>3, <2>4, <3>1 DEF PercentNear
    <2> QED
      BY <2>5, <2>6
  <1>2. StatusInv => ShownIsRecent
    BY <1>1 DEF ShownIsRecent
  <1> QED
    BY <1>2, StatusHolds, PTL

\* A payment status that is shown was the tenant's during the request, or the tenant has
\* no trial end and is shown as active.
THEOREM PaymentShownWasTrue == SSpec => []PaymentShownIsTrue
  <1>1. StatusInv => PaymentShownIsTrue
    BY DEF StatusInv, PaymentWas, PaymentShownIsTrue
  <1> QED
    BY <1>1, StatusHolds, PTL

-----------------------------------------------------------------------------
(* Proofs about FeatureFlags, for any tenants, readers and administrators. *)
(*                                                                         *)
(* The row that an administrator is about to save differs from the saved   *)
(* one only where it is meant to, and for the tenants that others have     *)
(* saved since it was loaded.  This is what makes the history of those     *)
(* tenants tell which override may be lost and which answer may be wrong.  *)

Reading == [step : {"idle", "fill"}, tenant : Owners \cup {Null},
            found : BOOLEAN \cup {Null}, overtaken : BOOLEAN]

FlagEditing == [step : {"idle", "save", "forget"}, tenant : Owners \cup {Null},
            row : Flag \cup {Null}, since : SUBSET Owners]

FlagsTyped ==
  /\ GTypeOK
  /\ flag \in Flag \cup {Null}
  /\ asking \in [Readers -> Reading]
  /\ editor \in [Editors -> FlagEditing]
  /\ override \in [Owners -> BOOLEAN \cup {Null}]

\* What a reader has found is the flag's still, if no change was saved meanwhile.
Finds(a) ==
  a.step = "fill" =>
    /\ a.tenant \in Owners /\ a.found \in BOOLEAN
    /\ ~a.overtaken => a.found = Enabled(flag, a.tenant)

\* The row to be saved is the flag's but for the change, and for what others have changed.
Edits(a) ==
  /\ a.step # "idle" => a.tenant \in Owners
  /\ a.step = "save" =>
       /\ a.row \in Flag /\ flag \in Flag
       /\ a.row.default = flag.default
       /\ \A t \in Owners \ ({a.tenant} \cup a.since) : a.row.overrides[t] = flag.overrides[t]

ReadersFind == \A r \in Readers : Finds(asking[r])

EditorsEdit == \A e \in Editors : Edits(editor[e])

FlagsInv == FlagsTyped /\ ReadersFind /\ EditorsEdit /\ OverrideKept /\ FlagAgrees
-----------------------------------------------------------------------------
LEMMA Idle ==
  /\ NoReader \in Reading /\ NoReader.step = "idle"
  /\ NoEditor \in FlagEditing /\ NoEditor.step = "idle"
BY DEF NoReader, NoEditor, Reading, FlagEditing

LEMMA FlagsBegin ==
  ASSUME GInit PROVE FlagsInv
<1>1. flag \in Flag \cup {Null}
  BY DEF GInit, Flag
<1>2. GTypeOK
  BY <1>1, Idle, FlagsAssumption DEF GInit, GTypeOK, Flag
<1>3. FlagsTyped
  BY <1>1, <1>2, Idle DEF GInit, FlagsTyped
<1>4. ReadersFind /\ EditorsEdit
  BY Idle DEF GInit, ReadersFind, EditorsEdit, Finds, Edits
<1>5. OverrideKept
  <2>1. ASSUME flag # Null PROVE flag.overrides = [t \in Owners |-> Null]
    BY <2>1 DEF GInit
  <2> QED BY <2>1 DEF GInit, OverrideKept
<1>6. FlagAgrees
  BY DEF GInit, FlagAgrees
<1> QED BY <1>3, <1>4, <1>5, <1>6 DEF FlagsInv

\* An answer of the flag is on or off.
LEMMA EnabledType ==
  ASSUME NEW f \in Flag \cup {Null}, NEW t \in Owners
  PROVE  Enabled(f, t) \in BOOLEAN
BY FlagsAssumption DEF Enabled, Flag
-----------------------------------------------------------------------------
(* The readers, and the end of an answer's time to live.                   *)

\* One reader goes on, and the flag stays.
LEMMA OneReader ==
  ASSUME FlagsInv, NEW r \in Readers, NEW a \in Reading, asking' = [asking EXCEPT ![r] = a],
         Finds(a), flag' = flag
  PROVE  asking' \in [Readers -> Reading] /\ ReadersFind'
<1>1. asking' \in [Readers -> Reading]
  BY DEF FlagsInv, FlagsTyped
<1>2. ASSUME NEW q \in Readers PROVE Finds(asking[q])'
  <2>1. CASE q = r
    BY <2>1 DEF FlagsInv, FlagsTyped, Finds
  <2>2. CASE q # r
    BY <2>2 DEF FlagsInv, FlagsTyped, ReadersFind, Finds
  <2> QED BY <2>1, <2>2
<1> QED BY <1>1, <1>2 DEF ReadersFind

LEMMA FindFlagInv ==
  ASSUME FlagsInv, NEW r \in Readers, NEW t \in Owners, FindFlag(r, t) PROVE FlagsInv'
<1> DEFINE a == [NoReader EXCEPT !.step = "fill", !.tenant = t, !.found = Enabled(flag, t)]
<1>1. asking' = [asking EXCEPT ![r] = a]
      /\ UNCHANGED <<flag, answer, editor, override, clobbered, outdated, toggles, gfaults>>
  BY DEF FindFlag
<1>2. Enabled(flag, t) \in BOOLEAN
  BY EnabledType DEF FlagsInv, FlagsTyped
<1>3. a \in Reading /\ a.step = "fill" /\ a.tenant = t /\ a.found = Enabled(flag, t)
  BY <1>2 DEF NoReader, Reading
<1>4. Finds(a)
  BY <1>2, <1>3 DEF Finds
<1> HIDE DEF a
<1>5. asking' \in [Readers -> Reading] /\ ReadersFind'
  BY <1>1, <1>3, <1>4, OneReader
<1>6. FlagsTyped'
  BY <1>1, <1>5 DEF FlagsInv, FlagsTyped, GTypeOK, Reading
<1>7. EditorsEdit' /\ OverrideKept' /\ FlagAgrees'
  BY <1>1 DEF FlagsInv, EditorsEdit, Edits, OverrideKept, FlagAgrees, Enabled
<1> QED BY <1>5, <1>6, <1>7 DEF FlagsInv

\* What is cached is the flag's, or known to be outdated.
LEMMA FillAnswerInv ==
  ASSUME FlagsInv, NEW r \in Readers, FillAnswer(r) PROVE FlagsInv'
<1>1. PICK t \in Owners : t = asking[r].tenant
  BY DEF FlagsInv, ReadersFind, Finds, FillAnswer
<1>2. /\ asking[r].step = "fill"
      /\ answer' = [answer EXCEPT ![t] = asking[r].found]
      /\ outdated' = IF asking[r].overtaken THEN outdated \cup {t} ELSE outdated \ {t}
      /\ asking' = [asking EXCEPT ![r] = NoReader]
      /\ UNCHANGED <<flag, editor, override, clobbered, toggles, gfaults>>
  BY <1>1 DEF FillAnswer
<1>3. /\ asking[r].found \in BOOLEAN /\ asking[r].overtaken \in BOOLEAN
      /\ ~asking[r].overtaken => asking[r].found = Enabled(flag, t)
  BY <1>1, <1>2 DEF FlagsInv, FlagsTyped, Reading, ReadersFind, Finds
<1>4. asking' \in [Readers -> Reading] /\ ReadersFind'
  BY <1>2, Idle, OneReader DEF Finds
<1>5. FlagsTyped'
  BY <1>2, <1>3, <1>4 DEF FlagsInv, FlagsTyped, GTypeOK, Reading
<1>6. EditorsEdit' /\ OverrideKept'
  BY <1>2 DEF FlagsInv, EditorsEdit, Edits, OverrideKept
<1>7. ASSUME NEW s \in Owners \ outdated', answer'[s] # Null,
             \A e \in Editors : editor[e].step = "forget" => editor[e].tenant # s
      PROVE  answer'[s] = Enabled(flag, s)
  <2>1. CASE s = t
    BY <1>2, <1>3, <2>1 DEF FlagsInv, FlagsTyped, GTypeOK
  <2>2. CASE s # t
    <3>1. answer'[s] = answer[s] /\ s \notin outdated
      BY <1>2, <2>2 DEF FlagsInv, FlagsTyped, GTypeOK
    <3> QED BY <1>7, <3>1 DEF FlagsInv, FlagAgrees
  <2> QED BY <2>1, <2>2
<1>8. FlagAgrees'
  BY <1>2, <1>7 DEF FlagAgrees, Enabled
<1> QED BY <1>4, <1>5, <1>6, <1>8 DEF FlagsInv

LEMMA FillFailsInv ==
  ASSUME FlagsInv, NEW r \in Readers, FillFails(r) PROVE FlagsInv'
<1>1. asking' = [asking EXCEPT ![r] = NoReader] /\ gfaults' = gfaults + 1 /\ gfaults < MaxGFaults
      /\ UNCHANGED <<flag, answer, editor, override, clobbered, outdated, toggles>>
  BY DEF FillFails, GFault
<1>2. asking' \in [Readers -> Reading] /\ ReadersFind'
  BY <1>1, Idle, OneReader DEF Finds
<1>3. FlagsTyped'
  BY <1>1, <1>2, FlagsAssumption DEF FlagsInv, FlagsTyped, GTypeOK, Reading
<1>4. EditorsEdit' /\ OverrideKept' /\ FlagAgrees'
  BY <1>1 DEF FlagsInv, EditorsEdit, Edits, OverrideKept, FlagAgrees, Enabled
<1> QED BY <1>2, <1>3, <1>4 DEF FlagsInv

LEMMA AnswerExpiresInv ==
  ASSUME FlagsInv, NEW t \in Owners, AnswerExpires(t) PROVE FlagsInv'
<1>1. /\ answer' = [answer EXCEPT ![t] = Null] /\ outdated' = outdated \ {t}
      /\ UNCHANGED <<flag, asking, editor, override, clobbered, toggles, gfaults>>
  BY DEF AnswerExpires
<1>2. FlagsTyped'
  BY <1>1 DEF FlagsInv, FlagsTyped, GTypeOK
<1>3. ReadersFind' /\ EditorsEdit' /\ OverrideKept'
  BY <1>1 DEF FlagsInv, ReadersFind, Finds, EditorsEdit, Edits, OverrideKept, Enabled
<1>4. ASSUME NEW s \in Owners, answer'[s] # Null
      PROVE  s # t /\ answer'[s] = answer[s]
  BY <1>1, <1>4 DEF FlagsInv, FlagsTyped, GTypeOK
<1>5. FlagAgrees'
  BY <1>1, <1>4 DEF FlagsInv, FlagAgrees, Enabled
<1> QED BY <1>2, <1>3, <1>5 DEF FlagsInv
-----------------------------------------------------------------------------
(* The administrators.                                                     *)

LEMMA LoadFlagInv ==
  ASSUME FlagsInv, NEW e \in Editors, NEW t \in Owners,
         NEW value \in BOOLEAN \cup {Null}, LoadFlag(e, t, value)
  PROVE  FlagsInv'
<1> DEFINE a == [NoEditor EXCEPT !.step = "save", !.tenant = t, !.row = WithOverride(flag, t, value)]
<1>1. /\ flag # Null /\ toggles < MaxToggles /\ toggles' = toggles + 1
      /\ editor[e].step = "idle" /\ editor' = [editor EXCEPT ![e] = a]
      /\ UNCHANGED <<flag, answer, asking, override, clobbered, outdated, gfaults>>
  BY DEF LoadFlag
<1>2. flag \in Flag
  BY <1>1 DEF FlagsInv, FlagsTyped
<1>3. /\ WithOverride(flag, t, value) \in Flag
      /\ WithOverride(flag, t, value).default = flag.default
      /\ \A s \in Owners \ {t} : WithOverride(flag, t, value).overrides[s] = flag.overrides[s]
  BY <1>2 DEF WithOverride, Flag
<1>4. /\ a \in FlagEditing /\ a.step = "save" /\ a.tenant = t /\ a.since = {}
      /\ a.row = WithOverride(flag, t, value)
  BY <1>3 DEF NoEditor, FlagEditing
<1>5. Edits(a)
  BY <1>2, <1>3, <1>4 DEF Edits
<1> HIDE DEF a
<1>6. editor' \in [Editors -> FlagEditing]
  BY <1>1, <1>4 DEF FlagsInv, FlagsTyped
<1>7. ASSUME NEW d \in Editors PROVE Edits(editor[d])'
  <2>1. CASE d = e
    BY <1>1, <1>5, <2>1 DEF FlagsInv, FlagsTyped, Edits
  <2>2. CASE d # e
    BY <1>1, <2>2 DEF FlagsInv, FlagsTyped, EditorsEdit, Edits
  <2> QED BY <2>1, <2>2
<1>8. FlagsTyped'
  BY <1>1, <1>6, FlagsAssumption DEF FlagsInv, FlagsTyped, GTypeOK, FlagEditing
<1>9. ReadersFind' /\ OverrideKept'
  BY <1>1 DEF FlagsInv, ReadersFind, Finds, OverrideKept, Enabled
<1>10. \A d \in Editors : editor[d].step = "forget" => editor'[d] = editor[d]
  BY <1>1 DEF FlagsInv, FlagsTyped
<1>11. FlagAgrees'
  BY <1>1, <1>10 DEF FlagsInv, FlagAgrees, Enabled
<1> QED BY <1>7, <1>8, <1>9, <1>11 DEF FlagsInv, EditorsEdit

\* A save changes the answers for the tenant it is about, and for those that it
\* overwrites; for all others, and for the rows still to be saved, nothing.
LEMMA SaveFlagInv ==
  ASSUME FlagsInv, NEW e \in Editors, SaveFlag(e) PROVE FlagsInv'
<1>1. PICK t \in Owners, since \in SUBSET Owners, new \in Flag :
        t = editor[e].tenant /\ since = editor[e].since /\ new = editor[e].row
  BY DEF SaveFlag, FlagsInv, FlagsTyped, FlagEditing, EditorsEdit, Edits
<1>2. /\ editor[e].step = "save"
      /\ flag' = new
      /\ override' = [override EXCEPT ![t] = new.overrides[t]]
      /\ clobbered' = (clobbered \cup since) \ {t}
      /\ outdated' = outdated \cup since
      /\ UNCHANGED <<answer, toggles, gfaults>>
  BY <1>1 DEF SaveFlag
<1>3. asking' = [r \in Readers |-> IF asking[r].tenant \in {t} \cup since
                                    THEN [asking[r] EXCEPT !.overtaken = TRUE] ELSE asking[r]]
  BY <1>1 DEF SaveFlag
<1>4. editor' = [d \in Editors |->
         IF d = e THEN [editor[e] EXCEPT !.step = "forget"]
         ELSE [editor[d] EXCEPT !.since =
                 IF editor[d].step = "save" THEN @ \cup ({t} \cup since) ELSE @]]
  BY <1>1 DEF SaveFlag, AfterFlag
<1>5. /\ flag \in Flag /\ new.default = flag.default
      /\ \A s \in Owners \ ({t} \cup since) : new.overrides[s] = flag.overrides[s]
  BY <1>1, <1>2 DEF FlagsInv, EditorsEdit, Edits
<1>6. \A s \in Owners \ ({t} \cup since) : Enabled(flag', s) = Enabled(flag, s)
  BY <1>2, <1>5, FlagsAssumption DEF Enabled
<1>7. ASSUME NEW r \in Readers PROVE asking'[r] \in Reading /\ Finds(asking[r])'
  <2>1. asking[r] \in Reading /\ Finds(asking[r])
    BY DEF FlagsInv, FlagsTyped, ReadersFind
  <2>2. CASE asking[r].tenant \in {t} \cup since
    <3>1. /\ asking'[r] \in Reading /\ asking'[r].overtaken = TRUE
          /\ asking'[r].step = asking[r].step /\ asking'[r].tenant = asking[r].tenant
          /\ asking'[r].found = asking[r].found
      BY <1>3, <2>1, <2>2 DEF Reading
    <3> QED BY <2>1, <3>1 DEF Finds
  <2>3. CASE asking[r].tenant \notin {t} \cup since
    <3>1. asking'[r] = asking[r]
      BY <1>3, <2>3
    <3> QED BY <1>6, <2>1, <2>3, <3>1 DEF Finds
  <2> QED BY <2>2, <2>3
<1>8. /\ editor'[e] \in FlagEditing /\ editor'[e].step = "forget" /\ editor'[e].tenant = t
      /\ \A d \in Editors \ {e} :
           /\ editor'[d] \in FlagEditing
           /\ editor'[d].step = editor[d].step /\ editor'[d].tenant = editor[d].tenant
           /\ editor'[d].row = editor[d].row
           /\ editor[d].step = "save" => editor'[d].since = editor[d].since \cup ({t} \cup since)
  <2>1. \A d \in Editors : editor[d] \in FlagEditing
    BY DEF FlagsInv, FlagsTyped
  <2>2. editor'[e] \in FlagEditing /\ editor'[e].step = "forget" /\ editor'[e].tenant = t
    BY <1>1, <1>4, <2>1 DEF FlagEditing
  <2>3. ASSUME NEW d \in Editors \ {e}
        PROVE  /\ editor'[d] \in FlagEditing
               /\ editor'[d].step = editor[d].step /\ editor'[d].tenant = editor[d].tenant
               /\ editor'[d].row = editor[d].row
               /\ editor[d].step = "save" => editor'[d].since = editor[d].since \cup ({t} \cup since)
    BY <1>4, <2>1 DEF FlagEditing
  <2> QED BY <2>2, <2>3
<1>9. ASSUME NEW d \in Editors PROVE Edits(editor[d])'
  <2>1. CASE d = e
    BY <1>8, <2>1 DEF Edits
  <2>2. CASE d # e
    <3>1. Edits(editor[d])
      BY DEF FlagsInv, EditorsEdit
    <3> QED BY <1>2, <1>5, <1>8, <2>2, <3>1 DEF Edits
  <2> QED BY <2>1, <2>2
<1>10. editor' \in [Editors -> FlagEditing] /\ asking' \in [Readers -> Reading]
  BY <1>3, <1>4, <1>7, <1>8
<1>11. FlagsTyped'
  BY <1>2, <1>10 DEF FlagsInv, FlagsTyped, GTypeOK, Flag, FlagEditing, Reading
<1>12. ASSUME NEW s \in Owners \ clobbered' PROVE flag'.overrides[s] = override'[s]
  <2>1. CASE s = t
    BY <1>2, <2>1 DEF FlagsInv, FlagsTyped
  <2>2. CASE s # t
    <3>1. s \notin clobbered /\ s \notin since
      BY <1>2, <2>2
    <3>2. flag # Null
      BY <1>5, FlagsAssumption
    <3> QED BY <1>2, <1>5, <2>2, <3>1, <3>2 DEF FlagsInv, FlagsTyped, OverrideKept
  <2> QED BY <2>1, <2>2
<1>13. ASSUME NEW s \in Owners \ outdated', answer[s] # Null,
              \A d \in Editors : editor'[d].step = "forget" => editor'[d].tenant # s
       PROVE  answer[s] = Enabled(flag', s)
  <2>1. s # t /\ s \notin since /\ s \notin outdated
    BY <1>2, <1>8, <1>13
  <2>2. \A d \in Editors : editor[d].step = "forget" => editor[d].tenant # s
    BY <1>2, <1>8, <1>13
  <2> QED BY <1>6, <1>13, <2>1, <2>2 DEF FlagsInv, FlagAgrees
<1>14. FlagAgrees'
  BY <1>2, <1>13 DEF FlagAgrees
<1> QED BY <1>7, <1>9, <1>11, <1>12, <1>14 DEF FlagsInv, ReadersFind, EditorsEdit, OverrideKept

\* The answer is gone, or outdated.
LEMMA ForgetAnswerInv ==
  ASSUME FlagsInv, NEW e \in Editors, ForgetAnswer(e) PROVE FlagsInv'
<1>1. PICK t \in Owners : t = editor[e].tenant
  BY DEF ForgetAnswer, FlagsInv, EditorsEdit, Edits
<1>2. /\ \/ /\ answer' = [answer EXCEPT ![t] = Null] /\ outdated' = outdated \ {t}
            /\ gfaults' = gfaults
         \/ /\ gfaults < MaxGFaults /\ gfaults' = gfaults + 1
            /\ outdated' = outdated \cup {t} /\ answer' = answer
      /\ editor' = [editor EXCEPT ![e] = NoEditor]
      /\ UNCHANGED <<flag, asking, override, clobbered, toggles>>
  BY <1>1 DEF ForgetAnswer, GFault
<1>3. /\ editor' \in [Editors -> FlagEditing] /\ editor'[e] = NoEditor
      /\ \A d \in Editors \ {e} : editor'[d] = editor[d]
  BY <1>2, Idle DEF FlagsInv, FlagsTyped
<1>4. gfaults' \in 0..MaxGFaults /\ answer' \in [Owners -> BOOLEAN \cup {Null}]
      /\ outdated' \subseteq Owners
  BY <1>2, FlagsAssumption DEF FlagsInv, FlagsTyped, GTypeOK
<1>5. FlagsTyped'
  BY <1>2, <1>3, <1>4 DEF FlagsInv, FlagsTyped, GTypeOK, FlagEditing
<1>6. ASSUME NEW d \in Editors PROVE Edits(editor[d])'
  <2>1. CASE d = e
    BY <1>3, <2>1, Idle DEF Edits
  <2>2. CASE d # e
    BY <1>2, <1>3, <2>2 DEF FlagsInv, EditorsEdit, Edits
  <2> QED BY <2>1, <2>2
<1>7. ReadersFind' /\ OverrideKept'
  BY <1>2 DEF FlagsInv, ReadersFind, Finds, OverrideKept, Enabled
<1>8. ASSUME NEW s \in Owners \ outdated', answer'[s] # Null,
             \A d \in Editors : editor'[d].step = "forget" => editor'[d].tenant # s
      PROVE  answer'[s] = Enabled(flag, s)
  <2>1. s # t /\ s \notin outdated /\ answer'[s] = answer[s]
    BY <1>2, <1>8 DEF FlagsInv, FlagsTyped, GTypeOK
  <2>2. \A d \in Editors : editor[d].step = "forget" => editor[d].tenant # s
    BY <1>1, <1>3, <1>8, <2>1
  <2> QED BY <1>8, <2>1, <2>2 DEF FlagsInv, FlagAgrees
<1>9. FlagAgrees'
  BY <1>2, <1>8 DEF FlagAgrees, Enabled
<1> QED BY <1>5, <1>6, <1>7, <1>9 DEF FlagsInv, EditorsEdit
-----------------------------------------------------------------------------
LEMMA FlagsStep ==
  ASSUME FlagsInv, [GNext]_gvars PROVE FlagsInv'
<1>1. CASE \E r \in Readers : FillAnswer(r) \/ FillFails(r) \/ \E t \in Owners : FindFlag(r, t)
  BY <1>1, FillAnswerInv, FillFailsInv, FindFlagInv
<1>2. CASE \E t \in Owners : AnswerExpires(t)
  BY <1>2, AnswerExpiresInv
<1>3. CASE \E t \in Owners, e \in Editors : SetOverride(e, t) \/ RemoveOverride(e, t)
  <2>1. PICK t \in Owners, e \in Editors, value \in BOOLEAN \cup {Null} : LoadFlag(e, t, value)
    BY <1>3 DEF SetOverride, RemoveOverride
  <2> QED BY <2>1, LoadFlagInv
<1>4. CASE \E e \in Editors : SaveFlag(e) \/ ForgetAnswer(e)
  BY <1>4, SaveFlagInv, ForgetAnswerInv
<1>5. CASE UNCHANGED gvars
  <2>1. FlagsTyped'
    BY <1>5 DEF gvars, FlagsInv, FlagsTyped, GTypeOK
  <2>2. ReadersFind' /\ EditorsEdit'
    BY <1>5 DEF gvars, FlagsInv, ReadersFind, Finds, EditorsEdit, Edits, Enabled
  <2>3. OverrideKept' /\ FlagAgrees'
    BY <1>5 DEF gvars, FlagsInv, OverrideKept, FlagAgrees, Enabled
  <2> QED BY <2>1, <2>2, <2>3 DEF FlagsInv
<1> QED BY <1>1, <1>2, <1>3, <1>4, <1>5 DEF GNext

LEMMA FlagsHold == GSpec => []FlagsInv
<1>1. GInit => FlagsInv
  BY FlagsBegin
<1>2. FlagsInv /\ [GNext]_gvars => FlagsInv'
  BY FlagsStep
<1> QED BY <1>1, <1>2, PTL DEF GSpec

\* The row and the cached answers have their types.
THEOREM FlagsTypeCorrect == GSpec => []GTypeOK
<1>1. FlagsInv => GTypeOK
  BY DEF FlagsInv, FlagsTyped
<1> QED BY <1>1, FlagsHold, PTL

\* An override that an administrator has saved for a tenant stays whatever is saved for
\* others, unless two requests overlap: with any number of tenants and administrators.
THEOREM OverridesStay == GSpec => []OverrideKept
<1>1. FlagsInv => OverrideKept
  BY DEF FlagsInv
<1> QED BY <1>1, FlagsHold, PTL

\* A cached answer is the flag's but for the excuses that the property names.
THEOREM AnswersAreRight == GSpec => []FlagAgrees
<1>1. FlagsInv => FlagAgrees
  BY DEF FlagsInv
<1> QED BY <1>1, FlagsHold, PTL

-----------------------------------------------------------------------------
(* Preferences.  What a request will save is what was wanted, but for its  *)
(* own change and for the channels that others have saved since it loaded  *)
(* the row.                                                                *)

PreferenceRow == [Channels -> BOOLEAN \cup {Null}]

PreferenceSession ==
  [step : {"idle", "find", "insert", "save"}, change : PreferenceChange \cup {Null},
   save : PreferenceRow, since : SUBSET Channels]

PreferencesTyped ==
  /\ RTypeOK
  /\ session \in [Sessions -> PreferenceSession]
  /\ wanted \in PreferenceRow
  /\ ~row => overrides = Unset

SavesWhatWasWanted(s) ==
  session[s].step = "save" =>
    /\ row /\ session[s].change # Null
    /\ session[s].save[session[s].change.channel] = session[s].change.on
    /\ \A c \in Channels \ (overwritten \cup session[s].since) :
         c # session[s].change.channel => session[s].save[c] = wanted[c]

PreferencesInv ==
  /\ PreferencesTyped
  /\ PreferenceKept
  /\ \A s \in Sessions : SavesWhatWasWanted(s)

LEMMA NoSessionType == NoSession \in PreferenceSession /\ NoSession.step = "idle"
  BY DEF NoSession, PreferenceSession, PreferenceRow, Unset

LEMMA PreferencesInit == ASSUME RInit PROVE PreferencesInv
  <1>1. PreferencesTyped
    <2>1. Unset \in PreferenceRow
      BY DEF Unset, PreferenceRow
    <2>2. session \in [Sessions -> PreferenceSession]
          /\ \A s \in Sessions : session[s].step \in {"idle", "find", "insert", "save"}
      BY NoSessionType DEF RInit
    <2>3. updates \in 0 .. MaxUpdates /\ rfaults \in 0 .. MaxRFaults
      BY PreferencesAssumption DEF RInit
    <2> QED
      BY <2>1, <2>2, <2>3 DEF RInit, PreferencesTyped, RTypeOK, PreferenceRow
  <1>2. PreferenceKept
    BY DEF RInit, PreferenceKept
  <1>3. \A s \in Sessions : SavesWhatWasWanted(s)
    BY NoSessionType DEF RInit, SavesWhatWasWanted
  <1> QED
    BY <1>1, <1>2, <1>3 DEF PreferencesInv

\* A request takes a step, and the row stays as it is.
LEMMA SessionMoves ==
  ASSUME PreferencesInv, NEW s \in Sessions, NEW next \in PreferenceSession,
         session' = [session EXCEPT ![s] = next],
         row' \in BOOLEAN, row => row', next.step = "save" => row',
         next.step = "save" => SavesWhatWasWanted(s)',
         updates' \in 0 .. MaxUpdates, rfaults' \in 0 .. MaxRFaults,
         UNCHANGED <<overrides, wanted, overwritten>>
  PROVE  PreferencesInv'
  <1>1. session \in [Sessions -> PreferenceSession]
    BY DEF PreferencesInv, PreferencesTyped
  <1>2. PreferencesTyped'
    BY <1>1 DEF PreferencesInv, PreferencesTyped, RTypeOK, PreferenceSession
  <1>3. SavesWhatWasWanted(s)'
    BY <1>1 DEF SavesWhatWasWanted
  <1>4. ASSUME NEW r \in Sessions \ {s} PROVE SavesWhatWasWanted(r)'
    <2>1. session'[r] = session[r]
      BY <1>1
    <2> QED
      BY <2>1 DEF PreferencesInv, SavesWhatWasWanted
  <1>5. PreferenceKept'
    BY DEF PreferencesInv, PreferenceKept
  <1> QED
    BY <1>2, <1>3, <1>4, <1>5 DEF PreferencesInv

\* The row is found, or made.
LEMMA RowIsLoaded ==
  ASSUME PreferencesInv, NEW s \in Sessions,
         session[s].step \in {"find", "insert"},
         session' = [session EXCEPT ![s] = Loaded(s, overrides)], row',
         UNCHANGED <<overrides, wanted, overwritten, updates, rfaults>>
  PROVE  PreferencesInv'
  <1>1. /\ session \in [Sessions -> PreferenceSession] /\ overrides \in PreferenceRow
        /\ session[s].change \in PreferenceChange \cup {Null}
        /\ updates \in 0 .. MaxUpdates /\ rfaults \in 0 .. MaxRFaults
    BY DEF PreferencesInv, PreferencesTyped, RTypeOK, PreferenceRow, PreferenceSession
  <1>2. CASE session[s].change = Null
    <2>1. Loaded(s, overrides) = NoSession
      BY <1>2 DEF Loaded
    <2> QED
      BY <1>1, <2>1, NoSessionType, SessionMoves
  <1>3. CASE session[s].change # Null
    <2> DEFINE change == session[s].change
               next == Loaded(s, overrides)
    <2>1. change.channel \in Channels /\ change.on \in BOOLEAN
      BY <1>1, <1>3 DEF PreferenceChange
    <2>2. Merged(overrides, change) \in PreferenceRow
      BY <1>1, <2>1 DEF Merged, PreferenceRow
    <2>3. /\ next \in PreferenceSession /\ next.step = "save" /\ next.change = change
          /\ next.save = Merged(overrides, change) /\ next.since = {}
      BY <1>1, <1>3, <2>2 DEF Loaded, PreferenceSession
    <2>4. session'[s] = next
      BY <1>1
    <2>5. /\ next.save[change.channel] = change.on
          /\ \A c \in Channels : c # change.channel => next.save[c] = overrides[c]
      BY <1>1, <2>1, <2>3 DEF Merged, PreferenceRow
    <2>6. \A c \in Channels \ overwritten : overrides[c] = wanted[c]
      BY DEF PreferencesInv, PreferenceKept
    <2> HIDE DEF next
    <2>7. SavesWhatWasWanted(s)'
      BY <1>3, <2>3, <2>4, <2>5, <2>6 DEF SavesWhatWasWanted
    <2> QED
      BY <1>1, <2>3, <2>7, SessionMoves DEF next
  <1> QED
    BY <1>2, <1>3

LEMMA SaveRowInv ==
  ASSUME PreferencesInv, NEW s \in Sessions, SaveRow(s)
  PROVE  PreferencesInv'
  <1> DEFINE c0 == session[s].change.channel
             on == session[s].change.on
  <1>1. /\ session \in [Sessions -> PreferenceSession] /\ session[s] \in PreferenceSession
        /\ wanted \in PreferenceRow
    BY DEF PreferencesInv, PreferencesTyped
  <1>2. /\ session[s].step = "save" /\ row /\ session[s].change # Null
        /\ session[s].save[c0] = on
        /\ \A c \in Channels \ (overwritten \cup session[s].since) :
             c # c0 => session[s].save[c] = wanted[c]
    BY DEF SaveRow, PreferencesInv, SavesWhatWasWanted
  <1>3. c0 \in Channels /\ on \in BOOLEAN /\ session[s].save \in PreferenceRow
    BY <1>1, <1>2 DEF PreferenceSession, PreferenceChange
  <1>4. /\ overrides' = session[s].save /\ wanted' = [wanted EXCEPT ![c0] = on]
        /\ overwritten' = (overwritten \cup session[s].since) \ {c0}
        /\ UNCHANGED <<row, updates, rfaults>>
    BY DEF SaveRow
  <1>5. session'[s] = NoSession
    BY DEF SaveRow
  <1>6. ASSUME NEW r \in Sessions \ {s}
        PROVE  /\ session'[r] \in PreferenceSession
               /\ session'[r].step = session[r].step /\ session'[r].change = session[r].change
               /\ session'[r].save = session[r].save
               /\ session[r].step = "save" =>
                    session'[r].since = session[r].since \cup {c0} \cup session[s].since
    <2>1. session'[r] = [session[r] EXCEPT !.since =
            IF session[r].step = "save" THEN @ \cup {c0} \cup session[s].since ELSE @]
      BY DEF SaveRow
    <2> QED
      BY <1>1, <1>3, <2>1 DEF PreferenceSession
  <1>7. session' \in [Sessions -> PreferenceSession]
    <2>1. \A r \in Sessions : session'[r] \in PreferenceSession
      BY <1>5, <1>6, NoSessionType
    <2>2. DOMAIN session' = Sessions /\ session' = [r \in Sessions |-> session'[r]]
      BY DEF SaveRow
    <2> QED
      BY <2>1, <2>2
  <1>8. PreferencesTyped'
    <2>1. wanted' \in PreferenceRow
      BY <1>1, <1>3, <1>4 DEF PreferenceRow
    <2>2. RTypeOK'
      BY <1>3, <1>4, <1>7 DEF PreferencesInv, PreferencesTyped, RTypeOK, PreferenceRow, PreferenceSession
    <2> QED
      BY <1>2, <1>3, <1>4, <1>7, <2>1, <2>2 DEF PreferencesInv, PreferencesTyped
  <1>9. PreferenceKept'
    BY <1>1, <1>2, <1>3, <1>4 DEF PreferenceKept, PreferenceRow
  <1>10. ASSUME NEW r \in Sessions PROVE SavesWhatWasWanted(r)'
    <2>1. CASE r = s
      BY <1>5, <2>1, NoSessionType DEF SavesWhatWasWanted
    <2>2. CASE r # s
      BY <1>1, <1>3, <1>4, <1>6, <2>2 DEF PreferencesInv, SavesWhatWasWanted, PreferenceRow
    <2> QED
      BY <2>1, <2>2
  <1> QED
    BY <1>8, <1>9, <1>10 DEF PreferencesInv

LEMMA PreferencesStep == ASSUME PreferencesInv, [RNext]_rvars PROVE PreferencesInv'
  <1>1. /\ session \in [Sessions -> PreferenceSession] /\ row \in BOOLEAN
        /\ updates \in 0 .. MaxUpdates /\ rfaults \in 0 .. MaxRFaults
        /\ ~row => overrides = Unset
    BY DEF PreferencesInv, PreferencesTyped, RTypeOK
  <1>2. ASSUME NEW s \in Sessions, GetMyPreferences(s) \/ UpdateMyPreferences(s) PROVE PreferencesInv'
    <2>1. PICK change \in PreferenceChange \cup {Null} : RBegin(s, change)
      BY <1>2 DEF GetMyPreferences, UpdateMyPreferences, PreferenceChange
    <2>2. [NoSession EXCEPT !.step = "find", !.change = change] \in PreferenceSession
          /\ [NoSession EXCEPT !.step = "find", !.change = change].step = "find"
      BY NoSessionType DEF PreferenceSession
    <2>3. updates' \in 0 .. MaxUpdates
      BY <1>1, <2>1, PreferencesAssumption DEF RBegin
    <2> QED
      BY <1>1, <2>1, <2>2, <2>3, SessionMoves DEF RBegin
  <1>3. ASSUME NEW s \in Sessions, FindRow(s) PROVE PreferencesInv'
    <2>1. CASE row
      BY <1>1, <1>3, <2>1, RowIsLoaded DEF FindRow
    <2>2. CASE ~row
      <3>1. [session[s] EXCEPT !.step = "insert"] \in PreferenceSession
            /\ [session[s] EXCEPT !.step = "insert"].step = "insert"
        BY <1>1 DEF PreferenceSession
      <3> QED
        BY <1>1, <1>3, <2>2, <3>1, SessionMoves DEF FindRow
    <2> QED
      BY <2>1, <2>2
  <1>4. ASSUME NEW s \in Sessions, InsertRow(s) PROVE PreferencesInv'
    <2>1. CASE row
      BY <1>1, <1>4, <2>1, NoSessionType, SessionMoves DEF InsertRow
    <2>2. CASE ~row
      BY <1>1, <1>4, <2>2, RowIsLoaded DEF InsertRow
    <2> QED
      BY <2>1, <2>2
  <1>5. ASSUME NEW s \in Sessions, RequestFails(s) PROVE PreferencesInv'
    <2>1. rfaults' \in 0 .. MaxRFaults
      BY <1>1, <1>5, PreferencesAssumption DEF RequestFails, RFault
    <2> QED
      BY <1>1, <1>5, <2>1, NoSessionType, SessionMoves DEF RequestFails
  <1>6. CASE UNCHANGED rvars
    BY <1>6 DEF rvars, PreferencesInv, PreferencesTyped, RTypeOK, PreferenceKept,
                SavesWhatWasWanted
  <1> QED
    BY <1>2, <1>3, <1>4, <1>5, <1>6, SaveRowInv DEF RNext

LEMMA PreferencesHold == RSpec => []PreferencesInv
  <1>1. RInit => PreferencesInv
    BY PreferencesInit
  <1>2. PreferencesInv /\ [RNext]_rvars => PreferencesInv'
    BY PreferencesStep
  <1> QED
    BY <1>1, <1>2, PTL DEF RSpec

\* The row and the requests have their types.
THEOREM PreferencesTypeCorrect == RSpec => []RTypeOK
  <1>1. PreferencesInv => RTypeOK
    BY DEF PreferencesInv, PreferencesTyped
  <1> QED
    BY <1>1, PreferencesHold, PTL

\* What a user has asked for on one channel stays, whatever is changed on others, unless
\* two requests overlap: for any channels and requests.
THEOREM PreferencesStay == RSpec => []PreferenceKept
  <1>1. PreferencesInv => PreferenceKept
    BY DEF PreferencesInv
  <1> QED
    BY <1>1, PreferencesHold, PTL
=============================================================================
