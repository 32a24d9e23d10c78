CONSTANT Scripts <- MCScripts
CONSTANT FreeCalls <- MCFreeCalls
CONSTANT MaxFree = 3
CONSTANT SmallDatabase = 3
SPECIFICATION Spec
INVARIANT CreatesWhatIsDescribed
INVARIANT ReadsWhatIsThere
PROPERTY ReadingEnds
CHECK_DEADLOCK FALSE
