SPECIFICATION SafetySpec
CONSTANTS
  s1 = s1
  s2 = s2
  c1 = c1
  c2 = c2
  None = None
  Servers = {s1, s2, s3}
  Clients = {c1, c2}
  Keys = {"k", "q"}
  Namespaces = {1}
  KeyOf <- TwoKeys
  NamespaceOf <- OneNamespace
  Legacy = {s1}
  Datagram = {s2, s3}
  Faulty = {s1, c1, c2}
  MaxRegister = 2
  MaxServices = 2
  MaxStreams = 2
  QueueCap = 2
  MaxConnId = 3
INVARIANTS SendersAreSelectable StreamOfLastAttempt SlotsAreOwned
 StreamOfSubscribedService SlotsAreCounted
PROPERTY NeverReselected
CHECK_DEADLOCK FALSE
