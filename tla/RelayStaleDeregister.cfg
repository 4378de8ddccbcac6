SPECIFICATION Spec
CONSTANTS
  s1 = s1
  s2 = s2
  c1 = c1
  c2 = c2
  None = None
  Servers = {s1, s2}
  Clients = {c1}
  Keys = {"k"}
  Namespaces = {1}
  KeyOf <- OneKey
  NamespaceOf <- OneNamespace
  Legacy = {}
  Datagram = {}
  Faulty = {c1}
  MaxRegister = 2
  MaxServices = 1
  MaxStreams = 2
  QueueCap = 2
  MaxConnId = 5
PROPERTY StaleDeregistrationIsHarmless
CHECK_DEADLOCK FALSE
