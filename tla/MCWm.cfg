SPECIFICATION Spec
CONSTANTS
  paint = paint
  sq = sq
  con = con
  None = None
  Windows = {paint, sq, con}
  Kind <- MCKind
  Z0 <- MCZ0
  Frame0 <- MCFrame0
  Lazy <- MCLazy
  Users = {0, 1}
  Heights = {3, 4}
  Height0 = 3
  Side = 1
  Step = 1
  MaxDamage = 6
INVARIANTS TypeOK SeenIsHit ScreenIsCovered OneGesture
PROPERTY DamageCovers
