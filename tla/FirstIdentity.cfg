SPECIFICATION Spec
CONSTANTS
  BYTES = 2
  Receivers = {0, 1}
  Dials = {1, 2}
  PPM_prot <- DialsOfDevo
  MaxCreated = 3
  MaxAnswers = 2
INVARIANT FirstIdentityIsUsed
