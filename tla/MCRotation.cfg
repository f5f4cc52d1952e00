\* Up to three rotations, each failing or killed anywhere, with any repair.
SPECIFICATION Spec
CONSTANTS
  MaxRotations = 3
INVARIANTS
  TypeOK
  NotLockedOut
  BundlesKept
  InLineWhenDone
  HintWorks
