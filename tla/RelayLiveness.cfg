SPECIFICATION FairSpec
CONSTANTS
  s1 = s1
  s2 = s2
  c1 = c1
  c2 = c2
  None = None
  Servers = {s1, s2}
  Clients = {c1}
  Keys = {"k"}
  Namespaces = {1}
  KeyOf <- OneKey
  NamespaceOf <- OneNamespace
  Legacy = {}
  Datagram = {s1}
  Faulty = {s1, c1}
  MaxRegister = 2
  MaxServices = 1
  MaxStreams = 1
  QueueCap = 1
  MaxConnId = 4
INVARIANT TypeOK
PROPERTIES SubcribeCompletes NothingIsLeftBehind UnreachableServerCloses
CHECK_DEADLOCK FALSE
