SPECIFICATION ElementsSpec
CONSTANTS
  Order = 5
  Names = {"x", "y"}
  Objects = {"o1", "o2"}
  Ints = {5, 7}
INVARIANTS
  TypeOK
  EqualsIffSameInt
PROPERTY
  ImplementsField
