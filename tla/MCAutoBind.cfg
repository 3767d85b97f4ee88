SPECIFICATION BindingsSpec
CONSTANTS
  Holders = {"root", "ann"}
  Spellings = {"main", "Main", "alt"}
  KeyOf <- BindingKey
  Phones = {"d1", "d2"}
  NoPhone = "none"
  MaxSaves = 3
CHECK_DEADLOCK FALSE
PROPERTY AutoBindAddsOnly
