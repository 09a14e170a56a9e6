CONSTANT MaxSignals = 4
SPECIFICATION Spec
INVARIANT HandlerStopsLiveIo
