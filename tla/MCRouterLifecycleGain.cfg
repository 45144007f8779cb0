SPECIFICATION LifeSpec
CONSTANT Volumes <- SomeVolumes
INVARIANT NeverLouderThanStarted
