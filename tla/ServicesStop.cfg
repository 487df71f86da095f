CONSTANTS
  r1 = r1
  r2 = r2
  cycle = cycle
  renewal = renewal
  c1 = c1
  c2 = c2
  t1 = t1
  t2 = t2
  hook = hook
  u1 = u1
  u2 = u2
  None = None
  Requests <- MCRequests
  Cycle <- cycle
  Renewal <- renewal
  Tasks <- MCTasks
  Conns <- OneConn
  Tenants <- MCTenants
  Users <- MCUsers
  Memberships <- MCMemberships
  WorkerTenant <- t1
  WebhookTenant <- hook
  MaxSessions = 2
  MaxLate = 1
  MaxFaults = 2
SPECIFICATION FairSpec
CHECK_DEADLOCK FALSE
INVARIANT TypeOK
INVARIANT SessionsIsolated
INVARIANT MembersOnly
INVARIANT StopsGracefully
PROPERTY NothingHangs
