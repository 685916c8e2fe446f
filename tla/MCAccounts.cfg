SPECIFICATION Spec
CONSTANTS
  Users = {u1, u2}
  Keys = {k1}
  Groups = {g1}
  Custom = {r1}
  Providers = {p1}
  Subjects = {s1, s2}
  Hashes = {1, 2}
  MaxFlows = 1
  MaxFailures = 2
  MaxSecrets = 3
SYMMETRY Alike
VIEW Seen
CONSTRAINT OneHalf
INVARIANTS TypeOK EveryAccountHasAWayIn NoSessionOutlivesTheSwitch HeldRolesExist
PROPERTIES SomebodyAdministers AnAddressIsNotAnAccount RetiredSecretsStayShut
CHECK_DEADLOCK FALSE
