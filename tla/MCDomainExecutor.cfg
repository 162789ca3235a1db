SPECIFICATION FairSpec
CONSTANTS
  shutdown = shutdown
  begin = begin
  again = again
  h1 = h1
  h2 = h2
  Threads = {t1, t2}
  Workers = {w1}
  NoOne = NoOne
  Invalid = {}
  Proposals <- MCProposals
  Signatures <- MCSignatures
  SigOf <- MCSigOf
  Confirm <- MCConfirm
  AllowedIn <- MCAllowedIn
  Effect <- MCEffect
INVARIANTS NoLostConfirmation HonestAnswers
PROPERTIES ImplementsGate EveryCallReturns
