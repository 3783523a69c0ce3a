--------------------------- MODULE PaymentMethods ---------------------------
(***************************************************************************)
(* The cards and invoices of the tenants.  Stripe keeps them, under the    *)
(* customer that the last checkout of the tenant has made, and under its   *)
(* subscription.  A request loads the customer and then talks to Stripe,   *)
(* call by call; a browser adds a card with the secret of a setup intent.  *)
(***************************************************************************)
EXTENDS Integers, FiniteSets, Absence

CONSTANTS
  Tenants,
  Customers,       \* Stripe's
  Cards,
  Askers,          \* requests in progress at the same time
  MaxAsked         \* requests and checkouts (bound)

ASSUME CardsAssumption == Null \notin Tenants \cup Customers /\ MaxAsked \in Nat

VARIABLES
  customer,        \* per tenant: the customer of its billing row, or Null
  intents,         \* setup intents, and (history) for which tenant each was made
  holder,          \* per card: the customer it is attached to, or Null
  default,         \* per customer: its default card, or Null
  asker,           \* per request: next step, what it is about, and what it has learned
  owner,           \* (history) per card: the tenant whose intent it was added with
  maker,           \* (history) per customer: the tenant whose checkout made it
  touched,         \* (history) <<tenant, card>>: who has listed, detached, preferred what
  billed,          \* (history) <<tenant, customer>>: who was shown whose invoices
  asked            \* budget spent

cvars == <<customer, intents, holder, default, asker, owner, maker, touched, billed, asked>>

NoAsker == [step |-> "idle", tenant |-> Null, customer |-> Null, card |-> Null, default |-> Null]

CInit ==
  /\ customer = [t \in Tenants |-> Null]
  /\ intents = {}
  /\ holder = [c \in Cards |-> Null]
  /\ default = [u \in Customers |-> Null]
  /\ asker = [r \in Askers |-> NoAsker]
  /\ owner = [c \in Cards |-> Null]
  /\ maker = [u \in Customers |-> Null]
  /\ touched = {} /\ billed = {}
  /\ asked = 0

\* Each checkout makes a customer of its own, and the webhook puts it into the row.
CheckoutCompletes(t) ==
  /\ asked < MaxAsked /\ asked' = asked + 1
  /\ \E u \in Customers :
       /\ maker[u] = Null
       /\ maker' = [maker EXCEPT ![u] = t]
       /\ customer' = [customer EXCEPT ![t] = u]
  /\ UNCHANGED <<intents, holder, default, asker, owner, touched, billed>>

-----------------------------------------------------------------------------
(* Requests.  Without a customer there is nothing to ask for.              *)

Ask(r, t, step, card) ==
  /\ asker[r].step = "idle" /\ customer[t] # Null
  /\ asked < MaxAsked /\ asked' = asked + 1
  /\ asker' = [asker EXCEPT ![r] =
       [NoAsker EXCEPT !.step = step, !.tenant = t, !.customer = customer[t], !.card = card]]
  /\ UNCHANGED <<customer, intents, holder, default, owner, maker, touched, billed>>

CreatePaymentMethodSetupIntent(r, t) == Ask(r, t, "create intent", Null)

ListPaymentMethods(r, t) == Ask(r, t, "retrieve customer", Null)

DeletePaymentMethod(r, t, c) == Ask(r, t, "retrieve to detach", c)

SetDefaultPaymentMethod(r, t, c) == Ask(r, t, "retrieve to prefer", c)

ListInvoices(r, t) == Ask(r, t, "invoices", Null)

GetUpcomingInvoice(r, t) == Ask(r, t, "upcoming", Null)

\* What an upgrade would cost.  The subscription of the row comes from the checkout
\* that made the customer.
PreviewSubscriptionUpgrade(r, t) == Ask(r, t, "retrieve subscription", Null)

Answered(r) == asker' = [asker EXCEPT ![r] = NoAsker]

-----------------------------------------------------------------------------
(* The calls of Stripe.                                                    *)

CreateSetupIntent(r) ==
  /\ asker[r].step = "create intent"
  /\ intents' = intents \cup {[customer |-> asker[r].customer, tenant |-> asker[r].tenant]}
  /\ Answered(r)
  /\ UNCHANGED <<customer, holder, default, owner, maker, touched, billed, asked>>

\* The browser confirms an intent with a new card.
Confirm(i, c) ==
  /\ owner[c] = Null
  /\ holder' = [holder EXCEPT ![c] = i.customer]
  /\ owner' = [owner EXCEPT ![c] = i.tenant]
  /\ intents' = intents \ {i}
  /\ UNCHANGED <<customer, default, asker, maker, touched, billed, asked>>

RetrieveCustomer(r) ==
  /\ asker[r].step = "retrieve customer"
  /\ asker' = [asker EXCEPT ![r].step = "list", ![r].default = default[asker[r].customer]]
  /\ UNCHANGED <<customer, intents, holder, default, owner, maker, touched, billed, asked>>

ListCards(r) ==
  /\ asker[r].step = "list"
  /\ touched' = touched \cup {<<asker[r].tenant, c>> : c \in {d \in Cards : holder[d] = asker[r].customer}}
  /\ Answered(r)
  /\ UNCHANGED <<customer, intents, holder, default, owner, maker, billed, asked>>

\* Faulty variant: whose card it is does not matter.
IsOf_Any(card, u) == holder[card] # Null

IsOf(card, u) == holder[card] = u

\* Another customer's card, or a detached one, is not found.
Retrieve(r, from, to) ==
  /\ asker[r].step = from
  /\ IF IsOf(asker[r].card, asker[r].customer)
     THEN asker' = [asker EXCEPT ![r].step = to] ELSE Answered(r)
  /\ UNCHANGED <<customer, intents, holder, default, owner, maker, touched, billed, asked>>

\* Stripe refuses to detach a card that has been detached meanwhile.
Detach(r) ==
  LET c == asker[r].card IN
  /\ asker[r].step = "detach"
  /\ IF holder[c] = Null THEN UNCHANGED <<holder, default, touched>>
     ELSE /\ holder' = [holder EXCEPT ![c] = Null]
          /\ default' = [u \in Customers |-> IF default[u] = c THEN Null ELSE default[u]]
          /\ touched' = touched \cup {<<asker[r].tenant, c>>}
  /\ Answered(r)
  /\ UNCHANGED <<customer, intents, owner, maker, billed, asked>>

\* Stripe refuses a default card that is not attached to the customer.
Prefer(r) ==
  LET c == asker[r].card IN
  /\ asker[r].step = "prefer"
  /\ IF holder[c] # asker[r].customer THEN UNCHANGED <<default, touched>>
     ELSE /\ default' = [default EXCEPT ![asker[r].customer] = c]
          /\ touched' = touched \cup {<<asker[r].tenant, c>>}
  /\ Answered(r)
  /\ UNCHANGED <<customer, intents, holder, owner, maker, billed, asked>>

\* The invoices, or the next one, as Stripe computes it for the customer.
ListInvoicesForCustomer(r) ==
  /\ asker[r].step = "invoices"
  /\ billed' = billed \cup {<<asker[r].tenant, asker[r].customer>>}
  /\ Answered(r)
  /\ UNCHANGED <<customer, intents, holder, default, owner, maker, touched, asked>>

\* The subscription tells its customer.
RetrieveSubscription(r) ==
  /\ asker[r].step = "retrieve subscription"
  /\ asker' = [asker EXCEPT ![r].step = "preview"]
  /\ UNCHANGED <<customer, intents, holder, default, owner, maker, touched, billed, asked>>

RetrieveUpcomingInvoice(r) ==
  /\ asker[r].step \in {"upcoming", "preview"}
  /\ billed' = billed \cup {<<asker[r].tenant, asker[r].customer>>}
  /\ Answered(r)
  /\ UNCHANGED <<customer, intents, holder, default, owner, maker, touched, asked>>

\* A call of Stripe fails, or the process dies.
StripeFails(r) ==
  /\ asker[r].step # "idle"
  /\ Answered(r)
  /\ UNCHANGED <<customer, intents, holder, default, owner, maker, touched, billed, asked>>

-----------------------------------------------------------------------------
CNext ==
  \/ \E t \in Tenants :
       \/ CheckoutCompletes(t)
       \/ \E r \in Askers :
            \/ CreatePaymentMethodSetupIntent(r, t) \/ ListPaymentMethods(r, t)
            \/ ListInvoices(r, t) \/ GetUpcomingInvoice(r, t) \/ PreviewSubscriptionUpgrade(r, t)
            \/ \E c \in Cards : DeletePaymentMethod(r, t, c) \/ SetDefaultPaymentMethod(r, t, c)
  \/ \E i \in intents, c \in Cards : Confirm(i, c)
  \/ \E r \in Askers :
       \/ CreateSetupIntent(r) \/ RetrieveCustomer(r) \/ ListCards(r) \/ RetrieveSubscription(r)
       \/ Retrieve(r, "retrieve to detach", "detach") \/ Retrieve(r, "retrieve to prefer", "prefer")
       \/ Detach(r) \/ Prefer(r)
       \/ ListInvoicesForCustomer(r) \/ RetrieveUpcomingInvoice(r) \/ StripeFails(r)

CSpec == CInit /\ [][CNext]_cvars

-----------------------------------------------------------------------------
CTypeOK ==
  /\ customer \in [Tenants -> Customers \cup {Null}]
  /\ holder \in [Cards -> Customers \cup {Null}]
  /\ default \in [Customers -> Cards \cup {Null}]
  /\ owner \in [Cards -> Tenants \cup {Null}]
  /\ maker \in [Customers -> Tenants \cup {Null}]
  /\ touched \subseteq Tenants \X Cards /\ billed \subseteq Tenants \X Customers
  /\ asked \in 0..MaxAsked

\* What a tenant lists, detaches or prefers is a card that was added for this tenant,
\* and the invoices it is shown are those of a customer that its own checkout made: also
\* when the customer of the row is replaced, or the card is detached or added, between
\* two calls of a request.
OwnCardsOnly ==
  /\ \A act \in touched : owner[act[2]] = act[1]
  /\ \A act \in billed : maker[act[2]] = act[1]
=============================================================================
