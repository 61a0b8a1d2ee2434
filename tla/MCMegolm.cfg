SPECIFICATION Spec
CONSTANT Radix = 4
INVARIANTS
  JumpIsWalk
  HashesBounded
CHECK_DEADLOCK FALSE
