SPECIFICATION Spec
CONSTANTS
  Socks = {1, 2}
  Timers = {1, 2}
  Wants = {{"IN"}}
  Types = {"ABSOLUTE", "PERIODIC"}
  Delays = {1}
  MaxTime = 2
  MaxCalls = 1
  EngineSet = {"poll", "select", "kqueue", "devpoll"}
  Structs = {1, 2}
  Fds = {1, 2}
  Calls = 1
  Contexts = {1, 2}
  QIds = {1, 2, 3}
  Sends = {TRUE}
  Forms <- LookupForms
  Clients = {1, 2}
  Pings = {1, 2}
  Counts = {1, 3}
INVARIANTS EventsHold TableIsKernels SendQueuesHold InputHolds TablesHold ParserHolds MotdHolds
           PingsAreOwned CountsHold AuthHolds
PROPERTIES AnsweredOnce Settled
CHECK_DEADLOCK FALSE
