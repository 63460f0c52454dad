SPECIFICATION Spec
CONSTANTS
  Thrown = Thrown  Absent = Absent  Gap = Gap
  l1 = l1  l2 = l2  l3 = l3  f1 = f1  f2 = f2
  Unencodable = {}  Abbreviations <- mcAbbreviations
  Calls = {2, 3}  Inviters <- mcInviters  MaxFaults = 1
  Listeners = {l1, l2, l3}  EventNames = {"MESSAGE", "CONNECTION"}  MaxEntries = 5
  Flows = {f1, f2}  OfferAt <- mcOfferAt  Issuers <- mcIssuers  AuthServers <- mcAuthServers
  ClientId = Absent  MaxLosses = 1
  Scenarios <- mcScenarios
INVARIANTS AnswersAreRead GrantedIsUsable ListenersHearOnce RequestsBelongTogether
CHECK_DEADLOCK FALSE
