SPECIFICATION Spec
CONSTANT Backends = {"native", "pyrowave"}
INVARIANTS SessionOK WatcherOK
PROPERTY SessionMoves
