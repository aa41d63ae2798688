SPECIFICATION Spec
CONSTANTS
  a = a
  b = b
  c = c
  s1 = s1
  s2 = s2
  Tasks = {a, b, c}
  Root = Root
  Parent <- MCParent
  Depth <- MCDepth
  route2 = route2
  chat1 = chat1
  chat2 = chat2
  Keys = {s1, s2, route2}
  SessionOf <- MCSessionOf
  Chats = {chat1, chat2}
  ChatOf <- MCChatOf
  KeyOf <- MCKeyOf
  MaxRunning = 2
  MaxChildren = 1
  MaxDepth = 3
  QueueMax = 1
  MaxBusy = 1
  MaxFaults = 1
INVARIANTS RecordsTell ResultsAgree StopIsFinal
PROPERTY SubagentsSettle
CHECK_DEADLOCK FALSE
