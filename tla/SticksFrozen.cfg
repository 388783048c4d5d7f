CONSTANT Kinds = {"radio"}
SPECIFICATION SticksSpec
PROPERTY QuietSourceStops
CHECK_DEADLOCK FALSE
