CONSTANT MaxWrites = 3
SPECIFICATION Spec
INVARIANT TypeOK
INVARIANT SlotsDisjoint
PROPERTY ImplementsSlot
PROPERTY SwappedValueRead
