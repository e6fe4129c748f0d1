SPECIFICATION AppSpec
CONSTANTS
  App = App
  None = None
  Callers = {c1, c2}
  Forwarders = {f1, f2}
  Calls = {"autoConnect", "Connect", "Disconnect", "shutdown", "StartScanning", "StopScanning", "GetStatus", "SetBandEnabled", "SetGain", "EnableMQTT", "DisableMQTT", "mqttEvent", "apiStart", "apiStop", "apiBands"}
  AutoStart = FALSE
  MaxCalls = 3
  MaxRunners = 2
INVARIANTS
  ForwardedOnce
PROPERTY
  DisciplinedCallsEnd
CHECK_DEADLOCK FALSE
