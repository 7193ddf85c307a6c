\* Two requests at a time, two passwords, two sessions, two password writes.
CONSTANTS
  Handlers = {h1, h2}
  Passwords = {p1, p2}
  Initial = Initial
  Unset = Unset
  MaxSessions = 2
  MaxWrites = 2
SPECIFICATION Spec
INVARIANT OnlySessionsOfThePassword
