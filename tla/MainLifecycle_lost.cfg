CONSTANT MaxSignals = 4
SPECIFICATION Spec
PROPERTY SignalShutsDown
