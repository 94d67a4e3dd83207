\* The entity subscription and the holder of package events: two peers that may be lost
\* and a last one, four subscription ids, three changes and three events.
\* Control messages: two peers with three frames each; two assemblies and five units fit,
\* which two messages of two chunks would exceed.
\* The channel: four messages, two of them in two chunks, and two misuses.
CONSTANTS
  MaxGen = 3
  MaxId = 4
  MaxSeq = 3
  FaultSets <- EntityWorlds
  MaxEvents = 3
  EventFaultSets <- EventWorlds
  Short = {short, close}
  Long = {long}
  Closing = {close}
  MaxAssemblies = 2
  MaxBytes = 5
  MaxCompleted = 1
  MaxQueued = 2
  MaxPeers = 2
  MaxSent = 3
  MaxMessages = 4
  LongMessages = {2, 3}
  MaxMessagesQueued = 3
  MaxMessagesCompleted = 2
  MaxFaults = 2
SPECIFICATION TransportSpec
INVARIANTS TypesOK ViewIsPrefix OneChannel PeerIsServed HeardOnceInOrder ControlIsAccounted ChunksAreWhole
PROPERTIES NothingIsForgotten WaitsEnd
CHECK_DEADLOCK FALSE
