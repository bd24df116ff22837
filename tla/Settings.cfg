SPECIFICATION SettingsSpec
CONSTANTS
  AllPorts <- ThreePorts
  Pictures <- Logos
  Webp <- NotReally
  MaxRuns = 3
CHECK_DEADLOCK FALSE
INVARIANT PortIsRemembered
INVARIANT LogoSurvivesRestart
 
