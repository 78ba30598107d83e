SPECIFICATION ProfileSpec
CONSTANTS
  Stacks <- TwoStacks
  InitialLayers <- TwoProfiles
  SettingValues = {1, 2}
  MaxChanges = 0
PROPERTIES
  NoCrossedValues
