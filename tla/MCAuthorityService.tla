------------------------- MODULE MCAuthorityService ------------------------
(* The service with one sound configuration and five that must be refused. *)
EXTENDS AuthorityService

CONSTANTS
  kitchen, bath, garden, idle, radio, g1, g2, spotify, alarm, sensor, doorbell,
  a1, a2, r1, r2, panel, admin,
  phone, tablet

Room(name, group) == [name |-> name, idleRoute |-> idle, group |-> group]
Player(token, source, rooms) ==
  [token |-> token, source |-> source, targets |-> rooms, routes |-> {radio},
   minTtl |-> 1, maxTtl |-> 2]
Voice(token, reporter, rooms) == [token |-> token, reporter |-> reporter, targets |-> rooms]

Sound ==
  [targets |-> <<Room(kitchen, g1), Room(bath, g2)>>,
   adapters |-> <<Player(a1, spotify, {kitchen}), Player(a2, alarm, {kitchen, bath})>>,
   reporters |-> <<Voice(r1, sensor, {kitchen}), Voice(r2, doorbell, {bath})>>,
   readers |-> <<panel>>, admins |-> <<admin>>, urlOk |-> TRUE]

MCConfigs ==
  {Sound,
   \* one token in two roles
   [Sound EXCEPT !.readers = <<panel, a1>>],
   [Sound EXCEPT !.reporters = <<Voice(a1, sensor, {kitchen, bath})>>],
   [Sound EXCEPT !.readers = <<panel, admin>>],
   \* a second voice for the kitchen
   [Sound EXCEPT !.reporters[2] = Voice(r2, doorbell, {kitchen, bath})],
   \* two credentials of one source
   [Sound EXCEPT !.adapters[2] = Player(a2, spotify, {kitchen, bath})]}
=============================================================================
