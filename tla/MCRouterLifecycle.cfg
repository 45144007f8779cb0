SPECIFICATION LifeSpec
CONSTANT Volumes <- SomeVolumes
INVARIANTS LifeTypeOK NoUseAfterFree AllOrNothing
PROPERTY CallsReturn
