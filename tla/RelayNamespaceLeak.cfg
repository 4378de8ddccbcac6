SPECIFICATION RegisteredSpec
CONSTANTS
  s1 = s1
  s2 = s2
  c1 = c1
  c2 = c2
  None = None
  Servers = {s1, s2}
  Clients = {c1, c2}
  Keys = {"k", "q"}
  Namespaces = {1, 2}
  KeyOf <- TwoKeys
  NamespaceOf <- TwoNamespaces
  Legacy = {}
  Datagram = {}
  Faulty = {}
  MaxRegister = 1
  MaxServices = 2
  MaxStreams = 1
  QueueCap = 2
  MaxConnId = 3
INVARIANT CountsAreReleased
CHECK_DEADLOCK FALSE
