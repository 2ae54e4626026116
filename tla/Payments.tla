------------------------------ MODULE Payments ------------------------------
(***************************************************************************)
(* createInvoice, cryptoWebhook and paymentStore of internal/api/server.go *)
(* with the provider behind InvoiceProvider: handlers of several requests  *)
(* run side by side and take the mutex of the store one call at a time;    *)
(* the provider, which is outside the repository, knows an invoice before  *)
(* the store registers it, and sends an update again until it is accepted. *)
(* An update has an ID of its own beside that of the invoice it is about,  *)
(* and nothing in the repository says that an invoice has only one.        *)
(* Signatures and the lookup of the account are not modelled: a request    *)
(* that fails them changes nothing.                                        *)
(***************************************************************************)
EXTENDS Integers, FiniteSets, FiniteSetsExt, Sequences

CONSTANTS
  Accounts,
  Invoices,    \* invoice IDs of the provider, one for each request
  Updates,     \* external: update IDs of the provider
  InvoiceOf,   \* external: the invoice each update is about
  Credit,      \* length of an entitlement: 30 days
  MaxTime      \* bound: the clock

ASSUME PaymentsAssumption ==
  /\ IsFiniteSet(Updates) /\ InvoiceOf \in [Updates -> Invoices]
  /\ Credit \in Nat \ {0} /\ MaxTime \in Nat \ {0}

VARIABLES
  now,          \* the clock
  request,      \* the createInvoice request of each invoice
  account,      \* draft.Account, and the account in the payload
  paid,         \* external: what the provider was paid
  pending,      \* external: updates the provider still delivers
  invoices,     \* paymentStore.invoices: registered ones
  processed,    \* paymentStore.processed: update IDs
  entitlements, \* paymentStore.entitlements; 0 is the zero time
  credits,      \* history: the times at which each update was credited
  restarted     \* history: the process restarted

store == <<invoices, processed, entitlements>>
provider == <<paid, pending>>
history == <<credits, restarted>>
vars == <<now, request, account, provider, store, history>>

Init ==
  /\ now = 1
  /\ request = [i \in Invoices |-> "none"]
  /\ account \in [Invoices -> Accounts]
  /\ paid = {}
  /\ pending = {}
  /\ invoices = {}
  /\ processed = {}
  /\ entitlements = [a \in Accounts |-> 0]
  /\ credits = [u \in Updates |-> <<>>]
  /\ restarted = FALSE

-----------------------------------------------------------------------------
\* The request of i, in the handler createInvoice, gets from one stage to the next.
Moves(i, from, to) ==
  /\ request[i] \in from
  /\ request' = [request EXCEPT ![i] = to]

\* createDraft: account and payload of the request, nothing in the store.
CreateDraft(i) ==
  /\ Moves(i, {"none"}, "draft")
  /\ UNCHANGED <<now, account, provider, store, history>>

\* CreateInvoice reaches the provider; the answer is still on its way.
ProviderCreates(i) ==
  /\ Moves(i, {"draft"}, "created")
  /\ UNCHANGED <<now, account, provider, store, history>>

\* Mutant of Register: an answer without an invoice ID is registered too.
RegisterUnchecked(i) ==
  /\ Moves(i, {"created"}, "registered")
  /\ invoices' = invoices \cup {0}
  /\ UNCHANGED <<now, account, provider, processed, entitlements, history>>

\* register, in the handler that got the answer.
Register(i) ==
  /\ Moves(i, {"created"}, "registered")
  /\ invoices' = invoices \cup {i}
  /\ UNCHANGED <<now, account, provider, processed, entitlements, history>>

\* Mutant of Answer: the invoice is answered before it is registered.
AnswerEarly(i) ==
  /\ Moves(i, {"created", "registered"}, "answered")
  /\ UNCHANGED <<now, account, provider, store, history>>

\* The answer to the customer, with the address to pay at.
Answer(i) ==
  /\ Moves(i, {"registered"}, "answered")
  /\ UNCHANGED <<now, account, provider, store, history>>

\* CreateInvoice returns an error, before or after the provider made the invoice.
CreateFails(i) ==
  /\ Moves(i, {"draft", "created"}, "failed")
  /\ UNCHANGED <<now, account, provider, store, history>>

\* A customer who was shown the invoice pays it, and the provider has an update
\* for it.
Pay(u) ==
  LET i == InvoiceOf[u] IN
  /\ request[i] = "answered"
  /\ i \notin paid
  /\ paid' = paid \cup {i}
  /\ pending' = pending \cup {u}
  /\ UNCHANGED <<now, request, account, store, history>>

\* The provider sends an update of a paid invoice: one that was accepted before and
\* was still on its way, or another ID for the same payment.
Announce(u) ==
  /\ InvoiceOf[u] \in paid
  /\ u \notin pending
  /\ pending' = pending \cup {u}
  /\ UNCHANGED <<now, request, account, paid, store, history>>

-----------------------------------------------------------------------------
\* Mutant of StartOf: a new entitlement starts now, whatever still runs.
StartNow(old) == now

\* Where a new entitlement starts: now, or at the end of the one that still runs.
StartOf(old) == IF old > now THEN old ELSE now

\* markPaid under the mutex.  An update processed before is acknowledged again.
AcknowledgeAgain(u) ==
  /\ u \in processed
  /\ UNCHANGED <<processed, entitlements, credits>>

\* Mutant of CreditUpdate: update IDs are not looked up.
CreditAgain(u) ==
  /\ InvoiceOf[u] \in invoices
  /\ entitlements' = [entitlements EXCEPT ![account[InvoiceOf[u]]] = StartOf(@) + Credit]
  /\ processed' = processed \cup {u}
  /\ credits' = [credits EXCEPT ![u] = Append(@, now)]

\* The update of an invoice the store does not know is a conflict and changes
\* nothing.  Only the update is marked: the invoice stays as it was registered.
CreditUpdate(u) ==
  /\ u \notin processed
  /\ InvoiceOf[u] \in invoices
  /\ entitlements' = [entitlements EXCEPT ![account[InvoiceOf[u]]] = StartOf(@) + Credit]
  /\ processed' = processed \cup {u}
  /\ credits' = [credits EXCEPT ![u] = Append(@, now)]

\* A delivery of the update; the answer may be lost, and then it comes again.
Webhook(u) ==
  /\ u \in pending
  /\ AcknowledgeAgain(u) \/ CreditUpdate(u)
  /\ pending' \in {pending, pending \ {u}}
  /\ UNCHANGED <<now, request, account, paid, invoices, restarted>>

\* The API process restarts: its maps are gone, its handlers too.
Restart ==
  /\ restarted' = TRUE
  /\ invoices' = {}
  /\ processed' = {}
  /\ entitlements' = [a \in Accounts |-> 0]
  /\ request' = [i \in Invoices |->
                   IF request[i] \in {"draft", "created", "registered"}
                     THEN "failed" ELSE request[i]]
  /\ UNCHANGED <<now, account, provider, credits>>

Tick ==
  /\ now < MaxTime
  /\ now' = now + 1
  /\ UNCHANGED <<request, account, provider, store, history>>

Next ==
  \/ \E i \in Invoices :
       \/ CreateDraft(i) \/ ProviderCreates(i) \/ Register(i)
       \/ Answer(i) \/ CreateFails(i)
  \/ \E u \in Updates : Pay(u) \/ Announce(u) \/ Webhook(u)
  \/ Restart \/ Tick

Spec == Init /\ [][Next]_vars

\* The provider delivers an update again until it is accepted: its side of the
\* protocol, without which nothing of a payment reaches the code.
FairSpec == Spec /\ \A u \in Updates : WF_vars(Webhook(u))

-----------------------------------------------------------------------------
\* The values each variable may take; in particular the store registers only
\* invoices the provider made.
TypeOK ==
  /\ now \in 1..MaxTime
  /\ request \in [Invoices ->
       {"none", "draft", "created", "registered", "answered", "failed"}]
  /\ account \in [Invoices -> Accounts]
  /\ paid \subseteq Invoices
  /\ pending \subseteq {u \in Updates : InvoiceOf[u] \in paid}
  /\ invoices \subseteq Invoices
  /\ processed \subseteq Updates
  /\ entitlements \in [Accounts -> Nat]
  /\ credits \in [Updates -> Seq(1..MaxTime)]
  /\ restarted \in BOOLEAN

\* However often the provider delivers an update, and even when the process restarts
\* in between, markPaid credits it at most once.  This is once for each update ID: a
\* second ID for the same invoice is credited as a payment of its own.
CreditedOnce == \A u \in Updates : Len(credits[u]) <= 1

\* What account a was credited since the process started: updates that were
\* processed, of which an invoice may have several.
Bought(a) == {u \in processed : account[InvoiceOf[u]] = a}
CreditTimes(a) == {credits[u][Len(credits[u])] : u \in Bought(a)}

\* Updates that overlap add up: an account has the whole of every period it was
\* credited, counted from the first of its updates, and no more than all of them
\* counted from the last, whatever order they were delivered in (markPaid).
EntitlementIsWhatWasBought ==
  \A a \in Accounts :
    IF Bought(a) = {}
      THEN entitlements[a] = 0
      ELSE /\ entitlements[a] >= Min(CreditTimes(a)) + Credit * Cardinality(Bought(a))
           /\ entitlements[a] <= Max(CreditTimes(a)) + Credit * Cardinality(Bought(a))

\* A payment is credited in the end unless the process restarts: an invoice is
\* registered before its address is answered, so its update is never a conflict.
PaidIsCredited ==
  \A i \in Invoices :
    i \in paid ~> (\E u \in Updates : InvoiceOf[u] = i /\ credits[u] # <<>>) \/ restarted
=============================================================================
