\* Four ticks of true time, up to three readings, a clock one tick off;
\* loads below and above half a step, memory that doubles and halves.
SPECIFICATION Spec
CONSTANTS
  MaxLoad = 2
  LoadStep = 2
  MinMemory = 1
  MaxMemory = 2
  FlatDraw = 1
  Digit = 3
  MaxTicks = 4
  MaxStep = 1
  MaxReadings = 3
INVARIANTS
  MeterTypeOK
  CostIsNotOverstated
  DrawIsAccountedFor
