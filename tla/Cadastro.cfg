SPECIFICATION Spec
CONSTANT Digits = {"0"}
INVARIANTS TypeOK Correctable OnlyValidSent BackspaceDeletes
