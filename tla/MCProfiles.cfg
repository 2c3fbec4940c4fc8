SPECIFICATION Spec
CONSTANTS
  AccountTypes = {traveler}
  Emails = {e1, e2}
  Files = {f1, f2}
  Devices = {d1}
  CallIds = {c1, c2}
  External = External
  Nothing = Nothing
  Omitted = Omitted
SYMMETRY Symmetry
INVARIANTS
  CompletedHasType
  WizardNeverStuck
  
  VerifiedIsCurrent
PROPERTY OnlyFailedTokensGo
