SPECIFICATION Spec
CONSTANTS
  Generators <- MCGenerators
  MaxVersion = 2
INVARIANTS
  TestsReadFreshFiles
  OneVersionOnDisk
  ResultsMatchFiles
