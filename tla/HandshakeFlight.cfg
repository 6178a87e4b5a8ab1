SPECIFICATION RSpec
CONSTANTS
  Requests = {TRUE, FALSE}
  Retries = {TRUE, FALSE}
  MaxRecords = 3
  MaxApp = 2
INVARIANTS
  TranscriptRight
  NotaryReadsAligned
  GuestReadsAligned
  
