\* Two threads, each with a clone of its own, learn two keys from many signatures.
CONSTANTS
  t1 = t1
  t2 = t2
  c1 = c1
  c2 = c2
  P = 19
  N = 13
  Generator <- MCGenerator
  W = 2
  DIGITS = 2
  Thread = {t1, t2}
  Clone = {c1, c2}
  Using <- MCUsing
  Inputs <- MCInputs
  Options <- MCOptions
  Preloaded <- MCPreloaded
SPECIFICATION VerifierSpec
INVARIANTS
  VerifierTypeOK
  OneKeyPerSigner
  TablesForSigners
  FixedKeyAgrees
PROPERTIES
  ImplementsAcceptance
  KnownIsRecognised
