CONSTANTS
  kitchen = kitchen  bath = bath  garden = garden
  idle = idle  radio = radio  g1 = g1  g2 = g2
  spotify = spotify  alarm = alarm  sensor = sensor  doorbell = doorbell
  a1 = a1  a2 = a2  r1 = r1  r2 = r2  phone = phone  tablet = tablet  panel = panel  admin = admin
  Text = {kitchen, bath, garden, idle, radio, g1, g2, spotify, alarm, sensor, doorbell}
  Token = {a1, a2, r1, r2, panel, admin}
  Blank = Blank
  NoToken = NoToken
  Asked = {kitchen, garden}
  Conn = {phone, tablet}
  MaxRequests = 3
  Configs <- MCConfigs
SPECIFICATION FairSpec
INVARIANTS TypeOK RolesSeparate OneVoice AnswersAreDocumented MetricsAddUp
PROPERTIES ShutdownEnds
CHECK_DEADLOCK FALSE
