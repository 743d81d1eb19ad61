SPECIFICATION Spec
INVARIANTS
  WireExact
  ScramMutual
  MessagesIntact
  QueryReadsBack
  PoliciesKept
  PoliciesShown
  CodecExact
  AdaptersAgree
  SignInsSound
  TokensSound
CHECK_DEADLOCK FALSE
