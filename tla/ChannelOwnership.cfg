SPECIFICATION FairSpec
CONSTANTS
  p1 = p1
  p2 = p2
  s1 = s1
  n1 = n1
  n2 = n2
  w1 = w1
  w2 = w2
  w3 = w3
  r1 = r1
  r2 = r2
  t1 = t1
  t2 = t2
  Null = Null
  MaxCloses = 1
  Publishers = {p1, p2}
  Subscribers = {s1}
  Names = {n1, n2}
  channel_name <- TwoNames
  Topics = {t1, t2}
  Writers = {w1, w2, w3}
  Readers = {r1, r2}
INVARIANTS
  NoEndpointLeak
  EndpointNotShared
  MapCoherent
  NoLostTopic
  OnOwnTopic
  NoFreedUse
PROPERTIES
  TopicBecomesShared
CHECK_DEADLOCK FALSE
