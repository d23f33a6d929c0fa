SPECIFICATION Spec
CONSTANTS
 Settings<-BoundarySettings
 MaxReplacements=1
INVARIANTS StartupTypeOK ServingIsEquipped PanicsExplained ValidatedStarts
