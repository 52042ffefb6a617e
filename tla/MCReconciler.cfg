CONSTANTS
  kitchen = kitchen  bath = bath  radio = radio  idle = idle
  Target = {kitchen, bath}
  Route = {radio, idle}
  IdleRoute = idle
  NoRoute = NoRoute
  MaxVersion = 2
  MaxDisturbances = 2
SPECIFICATION FairSpec
INVARIANTS TypeOK VersionPinsIntent ReadyUnlessOvertaken
PROPERTIES ImplementsIntent Converges
