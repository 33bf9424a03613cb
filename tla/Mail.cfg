\* One mail over every transport, mail server and sequence of failures.
SPECIFICATION Spec
CONSTANTS
  Lossy = TRUE
  None = None
INVARIANTS
  MailTypeOK
  AtMostOneCopy
  DeliveredButFailed
  FailsForAReason
PROPERTIES
  MailServiceSpec
