\* Three invoices of two accounts, one of them with two updates, retries, and restarts
\* in between.
CONSTANTS
  i1 = i1
  i2 = i2
  i3 = i3
  u1 = u1
  u2 = u2
  u3 = u3
  u4 = u4
  Accounts = {alice, bob}
  Invoices = {i1, i2, i3}
  Updates = {u1, u2, u3, u4}
  InvoiceOf <- FirstHasTwo
  Credit = 2
  MaxTime = 3
SPECIFICATION FairSpec
INVARIANTS TypeOK CreditedOnce EntitlementIsWhatWasBought
PROPERTIES PaidIsCredited
CHECK_DEADLOCK FALSE
