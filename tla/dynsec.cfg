SPECIFICATION Spec
CONSTANTS
  alice = alice
  demo = demo
  viewers = viewers
  team = team
  s1 = s1
  k1 = k1
  toAlice = toAlice
  toTeam = toTeam
  toLink = toLink
  l1 = l1
  None = None
  Users = {alice, demo}
  Demo = demo
  Groups = {viewers, team}
  Viewers = viewers
  Scanners = {s1}
  Folders = {k1}
  Grants = {toAlice, toTeam, toLink}
  GrantOf <- MCGrantOf
  Links = {l1}
  FirstGrants = {toAlice, toTeam, toLink}
  FirstBaseline = FALSE
  MaxToken = 1
  MaxEvents = 2
INVARIANTS
  AnnouncedMirrored
  SyncMirrors
  ScopeMirrored
  WritersMayRead
PROPERTY ReadKept
CHECK_DEADLOCK FALSE
