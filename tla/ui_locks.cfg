SPECIFICATION Spec
INVARIANTS TypeOK FreesOwn OneAtATime
PROPERTIES Ends
