SPECIFICATION CodecSpec
INVARIANTS EveryBitHasOneOwner ValuesAreWhole LengthsDoNotMix DecodesAsItsForm
CHECK_DEADLOCK FALSE
