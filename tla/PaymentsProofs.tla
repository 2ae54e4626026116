--------------------------- MODULE PaymentsProofs ---------------------------
(* Updates are credited once and add up, for any accounts and invoices.   *)
EXTENDS Payments, FiniteSetTheorems, TLAPS

\* An update the store would still credit has never been credited: only the request
\* that is about to register its invoice, before any payment, can put that there.
UncreditedInv ==
  /\ \A u \in Updates \ processed : InvoiceOf[u] \in invoices => credits[u] = <<>>
  /\ \A u \in Updates :
       credits[u] # <<>> => request[InvoiceOf[u]] \notin {"none", "draft", "created"}
  /\ \A i \in paid : request[i] \notin {"none", "draft", "created"}

PaymentsInv == TypeOK /\ UncreditedInv /\ CreditedOnce

LEMMA InitEstablishes == Init => PaymentsInv
<1> SUFFICES ASSUME Init PROVE PaymentsInv
  OBVIOUS
<1>1. TypeOK
  <2>1. restarted \in BOOLEAN
    BY DEF Init
  <2>2. credits \in [Updates -> Seq(1..MaxTime)] /\ entitlements \in [Accounts -> Nat]
    BY DEF Init
  <2>3. now \in 1..MaxTime
    BY PaymentsAssumption DEF Init
  <2> QED BY <2>1, <2>2, <2>3 DEF Init, TypeOK
<1>2. UncreditedInv /\ CreditedOnce
  BY DEF Init, UncreditedInv, CreditedOnce
<1> QED BY <1>1, <1>2 DEF PaymentsInv

LEMMA TypeIsKept == TypeOK /\ [Next]_vars => TypeOK'
<1> SUFFICES ASSUME TypeOK, [Next]_vars PROVE TypeOK'
  OBVIOUS
<1> USE PaymentsAssumption DEF TypeOK, vars, store, provider, history
<1>1. ASSUME NEW i \in Invoices,
             CreateDraft(i) \/ ProviderCreates(i) \/ Answer(i) \/ CreateFails(i)
      PROVE  TypeOK'
  BY <1>1 DEF CreateDraft, ProviderCreates, Answer, CreateFails, Moves
<1>2. ASSUME NEW i \in Invoices, Register(i) PROVE TypeOK'
  BY <1>2 DEF Register, Moves
<1>3. ASSUME NEW u \in Updates, Pay(u) \/ Announce(u) PROVE TypeOK'
  BY <1>3 DEF Pay, Announce
<1>4. ASSUME NEW u \in Updates, Webhook(u) PROVE TypeOK'
  <2>1. CASE AcknowledgeAgain(u)
    BY <1>4, <2>1 DEF Webhook, AcknowledgeAgain
  <2>2. CASE CreditUpdate(u)
    <3>1. entitlements' \in [Accounts -> Nat]
      BY <2>2 DEF CreditUpdate, StartOf
    <3>2. credits' \in [Updates -> Seq(1..MaxTime)]
      BY <2>2 DEF CreditUpdate
    <3> QED BY <1>4, <2>2, <3>1, <3>2 DEF Webhook, CreditUpdate
  <2> QED BY <1>4, <2>1, <2>2 DEF Webhook
<1>5. CASE Restart
  BY <1>5 DEF Restart
<1>6. CASE Tick
  BY <1>6 DEF Tick
<1>7. CASE UNCHANGED vars
  BY <1>7
<1> QED BY <1>1, <1>2, <1>3, <1>4, <1>5, <1>6, <1>7 DEF Next

LEMMA CreditIsKept == PaymentsInv /\ [Next]_vars => (UncreditedInv /\ CreditedOnce)'
<1> SUFFICES ASSUME TypeOK, UncreditedInv, CreditedOnce, [Next]_vars
             PROVE  (UncreditedInv /\ CreditedOnce)'
  BY DEF PaymentsInv
<1> USE PaymentsAssumption DEF TypeOK, UncreditedInv, CreditedOnce, vars, store, provider, history
<1>1. ASSUME NEW i \in Invoices,
             CreateDraft(i) \/ ProviderCreates(i) \/ Answer(i) \/ CreateFails(i)
      PROVE  (UncreditedInv /\ CreditedOnce)'
  BY <1>1 DEF CreateDraft, ProviderCreates, Answer, CreateFails, Moves
<1>2. ASSUME NEW i \in Invoices, Register(i) PROVE (UncreditedInv /\ CreditedOnce)'
  BY <1>2 DEF Register, Moves
<1>3. ASSUME NEW u \in Updates, Pay(u) \/ Announce(u)
      PROVE  (UncreditedInv /\ CreditedOnce)'
  BY <1>3 DEF Pay, Announce
<1>4. ASSUME NEW u \in Updates, Webhook(u) PROVE (UncreditedInv /\ CreditedOnce)'
  <2>1. CASE AcknowledgeAgain(u)
    BY <1>4, <2>1 DEF Webhook, AcknowledgeAgain
  <2>2. CASE CreditUpdate(u)
    <3>1. credits[u] = <<>>
      BY <2>2 DEF CreditUpdate
    <3>2. Len(credits'[u]) <= 1
      BY <2>2, <3>1 DEF CreditUpdate
    <3>3. \A v \in Updates \ {u} : credits'[v] = credits[v]
      BY <2>2 DEF CreditUpdate
    <3>4. InvoiceOf[u] \in paid /\ processed' = processed \cup {u}
      BY <1>4, <2>2 DEF Webhook, CreditUpdate
    <3>5. UNCHANGED <<request, paid, invoices>>
      BY <1>4 DEF Webhook
    <3>6. request[InvoiceOf[u]] \notin {"none", "draft", "created"}
      BY <3>4
    <3>7. UncreditedInv'
      BY <3>3, <3>4, <3>5, <3>6
    <3>8. ASSUME NEW v \in Updates PROVE Len(credits'[v]) <= 1
      <4>1. CASE v = u
        BY <3>2, <4>1
      <4>2. CASE v # u
        <5>1. credits'[v] = credits[v]
          BY <3>3, <4>2
        <5> QED BY <5>1
      <4> QED BY <4>1, <4>2
    <3> QED BY <3>7, <3>8
  <2> QED BY <1>4, <2>1, <2>2 DEF Webhook
<1>5. CASE Restart
  BY <1>5 DEF Restart
<1>6. CASE Tick
  BY <1>6 DEF Tick
<1>7. CASE UNCHANGED vars
  BY <1>7
<1> QED BY <1>1, <1>2, <1>3, <1>4, <1>5, <1>6, <1>7 DEF Next

\* UncreditedInv with the type invariant and CreditedOnce is kept by every step.
THEOREM PaymentsInvHolds == Spec => []PaymentsInv
<1>1. PaymentsInv /\ [Next]_vars => PaymentsInv'
  BY TypeIsKept, CreditIsKept DEF PaymentsInv
<1> QED BY InitEstablishes, <1>1, PTL DEF Spec

\* The variables of Payments keep their types; the store registers only
\* invoices the provider made, and a pending update is of a paid invoice.
THEOREM PaymentsTypeCorrect == Spec => []TypeOK
<1>1. PaymentsInv => TypeOK
  BY DEF PaymentsInv
<1> QED BY PaymentsInvHolds, <1>1, PTL

\* Whatever the number of invoices, updates, deliveries and restarts, markPaid credits
\* an update at most once.
THEOREM PaymentsCreditedOnce == Spec => []CreditedOnce
<1>1. PaymentsInv => CreditedOnce
  BY DEF PaymentsInv
<1> QED BY PaymentsInvHolds, <1>1, PTL

-----------------------------------------------------------------------------
LastCredit(u) == credits[u][Len(credits[u])]

\* What was processed was credited, and nothing in the future.
TimesInv ==
  \A u \in Updates :
    /\ u \in processed => credits[u] # <<>>
    /\ credits[u] # <<>> => LastCredit(u) \in 1..now

\* An entitlement reaches at least from the first credit, and at most from the last.
Spans(a, from, to) ==
  /\ from \in CreditTimes(a) /\ to \in CreditTimes(a)
  /\ \A t \in CreditTimes(a) : from <= t /\ t <= to
  /\ entitlements[a] >= from + Credit * Cardinality(Bought(a))
  /\ entitlements[a] <= to + Credit * Cardinality(Bought(a))

SpanInv ==
  \A a \in Accounts :
    IF Bought(a) = {} THEN entitlements[a] = 0
    ELSE \E from, to \in CreditTimes(a) : Spans(a, from, to)

LEMMA TimesAreNumbers ==
  ASSUME TypeOK, TimesInv, NEW a \in Accounts
  PROVE  /\ \A t \in CreditTimes(a) : t \in Nat /\ t <= now
         /\ IsFiniteSet(Bought(a)) /\ Cardinality(Bought(a)) \in Nat
<1>1. \A t \in CreditTimes(a) : t \in Nat /\ t <= now
  BY DEF CreditTimes, Bought, TimesInv, TypeOK, LastCredit
<1>2. Bought(a) \subseteq Updates
  BY DEF Bought, TypeOK
<1> QED BY <1>1, <1>2, PaymentsAssumption, FS_Subset, FS_CardinalityType

\* A step that leaves the updates processed and the credits alone.
LEMMA SpansStay ==
  ASSUME TypeOK, TimesInv, SpanInv, UNCHANGED <<account, processed, entitlements, credits>>,
         now' \in Nat, now <= now'
  PROVE  TimesInv' /\ SpanInv'
<1>1. TimesInv'
  BY DEF TimesInv, LastCredit, TypeOK
<1>2. \A a \in Accounts : Bought(a)' = Bought(a) /\ CreditTimes(a)' = CreditTimes(a)
  BY DEF Bought, CreditTimes
<1>3. SpanInv'
  BY <1>2 DEF SpanInv, Spans
<1> QED BY <1>1, <1>3

LEMMA LastOfAppend ==
  ASSUME NEW S, NEW s \in Seq(S), NEW e \in S
  PROVE  Append(s, e) # <<>> /\ Append(s, e)[Len(Append(s, e))] = e
OBVIOUS

\* An update makes its account's entitlement longer by one period, from the end of the
\* one that runs or from now, which no earlier credit is after.
LEMMA CreditSpans ==
  ASSUME TypeOK, TimesInv, SpanInv, NEW u \in Updates, CreditUpdate(u),
         UNCHANGED <<now, account>>
  PROVE  TimesInv' /\ SpanInv'
<1> USE PaymentsAssumption
<1>1. /\ processed' = processed \cup {u} /\ u \notin processed
      /\ credits' = [credits EXCEPT ![u] = Append(@, now)]
      /\ credits \in [Updates -> Seq(1..MaxTime)]
      /\ now \in Nat /\ now >= 1
  BY DEF CreditUpdate, TypeOK
<1>2. LastCredit(u)' = now /\ credits'[u] # <<>>
  <2>1. credits'[u] = Append(credits[u], now) /\ credits[u] \in Seq(1..MaxTime)
    BY <1>1
  <2>2. now \in 1..MaxTime
    BY DEF TypeOK
  <2>3. /\ Append(credits[u], now) # <<>>
        /\ Append(credits[u], now)[Len(Append(credits[u], now))] = now
    BY <2>1, <2>2, LastOfAppend
  <2> QED BY <2>1, <2>3 DEF LastCredit
<1>3. \A v \in Updates \ {u} : credits'[v] = credits[v] /\ LastCredit(v)' = LastCredit(v)
  BY <1>1 DEF LastCredit
<1>4. TimesInv'
  BY <1>1, <1>2, <1>3 DEF TimesInv
<1>5. ASSUME NEW a \in Accounts, a # account[InvoiceOf[u]]
      PROVE  /\ Bought(a)' = Bought(a) /\ CreditTimes(a)' = CreditTimes(a)
             /\ entitlements'[a] = entitlements[a]
  <2>1. Bought(a)' = Bought(a)
    BY <1>1, <1>5 DEF Bought
  <2>2. \A v \in Bought(a) : credits'[v] = credits[v]
    BY <1>3, <1>5 DEF Bought, TypeOK
  <2>3. entitlements'[a] = entitlements[a]
    BY <1>5 DEF CreditUpdate, TypeOK
  <2> QED BY <2>1, <2>2, <2>3 DEF CreditTimes
<1>a. PICK a \in Accounts : a = account[InvoiceOf[u]]
  BY DEF TypeOK
<1> DEFINE n == Cardinality(Bought(a))
           start == StartOf(entitlements[a])
<1>6. a \in Accounts /\ entitlements[a] \in Nat
  BY DEF TypeOK
<1>7. Bought(a)' = Bought(a) \cup {u} /\ u \notin Bought(a)
  BY <1>1, <1>a DEF Bought
<1>8. CreditTimes(a)' = CreditTimes(a) \cup {now}
  <2>1. \A v \in Bought(a) : credits'[v] = credits[v]
    BY <1>3, <1>7 DEF Bought, TypeOK
  <2>2. credits'[u][Len(credits'[u])] = now
    BY <1>2 DEF LastCredit
  <2> QED BY <1>7, <2>1, <2>2 DEF CreditTimes
<1>9. /\ \A t \in CreditTimes(a) : t \in Nat /\ t <= now
      /\ IsFiniteSet(Bought(a)) /\ n \in Nat
  BY <1>6, TimesAreNumbers
<1>10. Cardinality(Bought(a)') = n + 1
  BY <1>7, <1>9, FS_AddElement
<1>11. entitlements'[a] = start + Credit
  BY <1>6, <1>a DEF CreditUpdate, TypeOK
<1>12. start \in Nat /\ start >= now /\ start >= entitlements[a]
       /\ (start = now \/ start = entitlements[a])
  BY <1>1, <1>6 DEF StartOf
<1>13. Credit * (n + 1) = Credit * n + Credit /\ Credit * n \in Nat
  BY <1>9
<1>14. \E from, to \in CreditTimes(a)' : Spans(a, from, to)'
  <2>1. CASE Bought(a) = {}
    <3>1. entitlements[a] = 0
      BY <1>6, <2>1 DEF SpanInv
    <3>2. start = now
      BY <1>1, <3>1 DEF StartOf
    <3>3. CreditTimes(a)' = {now} /\ n = 0
      BY <1>8, <2>1, FS_EmptySet DEF CreditTimes
    <3>4. Credit * 0 = 0
      OBVIOUS
    <3>5. entitlements'[a] = now + Credit * Cardinality(Bought(a)')
      BY <1>10, <1>11, <1>13, <3>2, <3>3, <3>4
    <3>6. Credit * Cardinality(Bought(a)') \in Nat
      BY <1>9, <1>10, <1>13
    <3>7. Spans(a, now, now)'
      BY <1>1, <3>3, <3>5, <3>6 DEF Spans
    <3> QED BY <3>3, <3>7
  <2>2. CASE Bought(a) # {}
    <3>1. PICK from \in CreditTimes(a), to \in CreditTimes(a) : Spans(a, from, to)
      BY <1>6, <2>2 DEF SpanInv
    <3>2. entitlements'[a] >= from + Credit * Cardinality(Bought(a)')
      BY <1>6, <1>9, <1>10, <1>11, <1>12, <1>13, <3>1 DEF Spans
    <3>3. entitlements'[a] <= now + Credit * Cardinality(Bought(a)')
      <4>1. entitlements[a] <= to + Credit * n /\ to \in Nat /\ to <= now
        BY <1>9, <3>1 DEF Spans
      <4>2. start <= now + Credit * n
        <5> HIDE DEF n, start
        <5> QED BY <1>1, <1>6, <1>12, <1>13, <4>1
      <4>3. Credit * Cardinality(Bought(a)') = Credit * n + Credit
        BY <1>10, <1>13
      <4> HIDE DEF n, start
      <4> QED BY <1>1, <1>11, <1>12, <1>13, <4>2, <4>3
    <3>4. \A t \in CreditTimes(a)' : from <= t /\ t <= now
      BY <1>1, <1>8, <1>9, <3>1 DEF Spans
    <3>5. from \in CreditTimes(a)' /\ now \in CreditTimes(a)'
      BY <1>8
    <3>6. Spans(a, from, now)'
      BY <1>1, <3>2, <3>3, <3>4, <3>5 DEF Spans
    <3> QED BY <3>5, <3>6
  <2> QED BY <2>1, <2>2
<1>15. ASSUME NEW b \in Accounts, b # a
       PROVE  IF Bought(b)' = {} THEN entitlements'[b] = 0
              ELSE \E from, to \in CreditTimes(b)' : Spans(b, from, to)'
  BY <1>5, <1>15, <1>a DEF SpanInv, Spans
<1>16. SpanInv'
  <2> SUFFICES ASSUME NEW b \in Accounts
               PROVE  IF Bought(b)' = {} THEN entitlements'[b] = 0
                      ELSE \E from, to \in CreditTimes(b)' : Spans(b, from, to)'
    BY DEF SpanInv
  <2>1. CASE b = a
    BY <1>7, <1>14, <2>1
  <2>2. CASE b # a
    BY <1>15, <2>2
  <2> QED BY <2>1, <2>2
<1> QED BY <1>4, <1>16

LEMMA SpanStep == PaymentsInv /\ TimesInv /\ SpanInv /\ [Next]_vars => (TimesInv /\ SpanInv)'
<1> SUFFICES ASSUME TypeOK, TimesInv, SpanInv, [Next]_vars PROVE (TimesInv /\ SpanInv)'
  BY DEF PaymentsInv
<1>1. CASE UNCHANGED <<account, processed, entitlements, credits>> /\ now' \in Nat /\ now <= now'
  BY <1>1, SpansStay
<1>2. ASSUME NEW u \in Updates, CreditUpdate(u), UNCHANGED <<now, account>>
      PROVE  (TimesInv /\ SpanInv)'
  BY <1>2, CreditSpans
<1>3. CASE Restart
  <2>1. /\ processed' = {} /\ entitlements' = [a \in Accounts |-> 0]
        /\ UNCHANGED <<now, credits>>
    BY <1>3 DEF Restart
  <2>2. TimesInv'
    BY <2>1 DEF TimesInv, LastCredit
  <2>3. SpanInv'
    BY <2>1 DEF SpanInv, Bought
  <2> QED BY <2>2, <2>3
<1>4. now \in Nat /\ now' \in Nat /\ now <= now'
  BY DEF Next, TypeOK, vars, CreateDraft, ProviderCreates, Register, Answer, CreateFails,
         Pay, Announce, Webhook, Restart, Tick
<1>5. \/ UNCHANGED <<account, processed, entitlements, credits>>
      \/ \E u \in Updates : CreditUpdate(u) /\ UNCHANGED <<now, account>>
      \/ Restart
  BY DEF Next, vars, store, provider, history, CreateDraft, ProviderCreates, Register,
         Answer, CreateFails, Pay, Announce, Webhook, AcknowledgeAgain, Tick
<1> QED BY <1>1, <1>2, <1>3, <1>4, <1>5

\* Updates that overlap add up, in whatever order they arrive: an account has every
\* period it was credited since the process started, and no more.
THEOREM PaymentsAddUp == Spec => []EntitlementIsWhatWasBought
<1>1. Init => TimesInv /\ SpanInv
  BY DEF Init, TimesInv, SpanInv, Bought
<1>2. PaymentsInv /\ TimesInv /\ SpanInv => EntitlementIsWhatWasBought
  <2> SUFFICES ASSUME TypeOK, TimesInv, SpanInv, NEW a \in Accounts, Bought(a) # {}
               PROVE  /\ entitlements[a] >= Min(CreditTimes(a)) + Credit * Cardinality(Bought(a))
                      /\ entitlements[a] <= Max(CreditTimes(a)) + Credit * Cardinality(Bought(a))
    BY DEF PaymentsInv, EntitlementIsWhatWasBought, SpanInv
  <2>1. PICK from \in CreditTimes(a), to \in CreditTimes(a) : Spans(a, from, to)
    BY DEF SpanInv
  <2>2. \A t \in CreditTimes(a) : t \in Nat
    BY TimesAreNumbers
  <2>3. Min(CreditTimes(a)) = from /\ Max(CreditTimes(a)) = to
    BY <2>1, <2>2 DEF Min, Max, Spans
  <2> QED BY <2>1, <2>3 DEF Spans
<1> QED BY <1>1, <1>2, SpanStep, PaymentsInvHolds, PTL DEF Spec
=============================================================================
