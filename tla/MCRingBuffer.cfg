SPECIFICATION Spec
CONSTANTS
  a = a
  b = b
  irq = irq
  core1 = core1
  main = main
  NoItem = NoItem
  Free = Free
  Item <- MCItem
  Producers <- MCProducers
  Consumers <- MCConsumers
  N = 4
  MaxBlock = 2
INVARIANTS TypeOK RingInv
PROPERTY FifoSpec
SYMMETRY ItemSymmetry
