SPECIFICATION Spec
CONSTANTS
  c1 = c1
  c2 = c2
  c3 = c3
  c4 = c4
  hello = hello
  other = other
  Call = {c1, c2, c3, c4}
  Fingerprint = {hello, other}
  FpOf <- ThreeRetriesAndAnother
  None = None
  MaxExpiries = 2
SYMMETRY Symmetry
INVARIANTS
  ReplayIsStored
  NoCrossReplay
  NoTimeoutNoDuplicate
