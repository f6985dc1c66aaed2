SPECIFICATION Spec
CONSTANTS
  None = None
  Hosts <- MCHosts
  Environments <- MCEnvironments
  Configurations <- MCConfigurations
  MaxLoops = 2
INVARIANTS
  TypeOK
  
  Encrypted
  Released
