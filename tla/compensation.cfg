SPECIFICATION Spec
CONSTANTS
  r1 = r1
  r2 = r2
  r3 = r3
  v1 = v1
  t1 = t1
  t2 = t2
  Unbound = Unbound
  NoManifest = NoManifest
  Runner <- ThreeRunners
  Recoverer <- Nobody
  Txn <- Txns
  Content <- Contents
  InitialContent = "a"
  Before <- ThereAndBack
  Replacement <- BackAndThere
  EditorContent <- Foreign
  ContentAddressed = FALSE
  StorageFaults = TRUE
  OpenFaults = TRUE
  Crashing <- ThreeRunners
SYMMETRY Symmetric
INVARIANTS
  CompletedIsProven
PROPERTIES
  ImplementsAtomicPatch
