CONSTANTS
  Configs <- MCConfigs
  Page = 2
  TopAddress = 32
SPECIFICATION Spec
INVARIANT DirectConnectionIgnored
