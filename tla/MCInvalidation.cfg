\* Three of four requests, one instance, pages of one record and one fault.
SPECIFICATION Spec
CONSTANTS
  Keys <- ThreeKeys
  Requests <- FourRequests
  Nodes = {n1}
  None = None
  PageSize = 1
  MaxEvents = 3
  MaxFaults = 1
INVARIANTS AuditMatchesPublished  
