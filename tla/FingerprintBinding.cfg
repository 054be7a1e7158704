SPECIFICATION Spec
INVARIANTS
  FingerprintBindsCall
