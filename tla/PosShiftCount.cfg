CONSTANTS
  o1 = o1
  o2 = o2
  c1 = c1
  c2 = c2
  cash1 = cash1
  card = card
  x1 = x1
  Nobody = Nobody
  Openers <- MCOpeners
  Closers <- MCClosers
  CashSales <- OneSale
  OtherSales <- OneCard
  Cancels <- OneCancel
SPECIFICATION Spec
SYMMETRY ShiftSymmetry
INVARIANTS
  CountIsSound
  NoSaleAfterClose
