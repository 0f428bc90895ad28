CONSTANT NameUniverse = {0, 1, 2, 3, 4}
SPECIFICATION Spec
INVARIANT SearchMatchesReference
