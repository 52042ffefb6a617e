CONSTANTS
  kitchen = kitchen  bath = bath  panel = panel
  Target = {kitchen, bath}
  Reader = {panel}
  Capacity = 2
  MaxEvents = 4
SPECIFICATION FairSpec
INVARIANTS TypeOK EventsInOrder NeverSilentlyStale
PROPERTIES ImplementsFeed
