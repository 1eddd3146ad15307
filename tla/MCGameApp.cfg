\* The game with and without a session cookie: menus, worlds, a server that
\* connects, changes the world and disconnects, the server list.
SPECIFICATION Spec
CONSTANTS
  Cookies = {TRUE, FALSE}
  MaxRunners = 9
INVARIANTS TypeOK OnlyPartDeletesTwice NothingLeft OneOwner NoneForgotten InputGoesToTop OneTurnEach
PROPERTY RunnersLive
CHECK_DEADLOCK FALSE
