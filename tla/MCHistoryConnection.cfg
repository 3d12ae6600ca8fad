SPECIFICATION FairSpec
CONSTANTS
  MaxResets = 3
  MaxFaults = 4
INVARIANT TypeOK ListensToOpen ReplacedDestroyed
PROPERTY Recovers
