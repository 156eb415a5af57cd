\* Unordered, repeated deliveries to two workers, one of which may die once.
CONSTANTS
    payer = payer
    bystander = bystander
    Tenants = {payer, bystander}
    Workers = {w1, w2}
    Customers = {customer}
    TenantOf <- PaidByPayer
    Subscriptions = {bought, added}
    CustomerOf <- OneCustomer
    None = None
    Statuses = {"canceled"}
    MaxEvents = 3
    MaxCrashes = 1
SPECIFICATION Spec
CHECK_DEADLOCK FALSE
INVARIANTS
    TypeOK
    TenantIsolation
    CheckoutLinksTenant
PROPERTY EventuallyAcknowledged
