SPECIFICATION UtilSpec
CONSTANTS
  Keys <- MCKeys
  Vals = {u, v}
  Cmp <- FormCmp
  Word = 8
  InitialCapacity = 1
  Nothing = Nothing
  Names = {tags, forms}
  Items = {u, v}
  NoItem = NoItem
  MaxItems = 3
INVARIANTS
  TypeOK
  KeysAscend
  ListTypeOK
PROPERTIES
  IsKeyedStore
  IsSequence
