SPECIFICATION FairMigrations
CONSTANTS
  m1 = m1
  m2 = m2
  s1 = s1
  s2 = s2
  Migrators = {m1, m2}
  Servers = {s1, s2}
  Checksums <- MCChecksums
  Build <- MCBuild
  Databases <- MCDatabases
  MaxCrashes = 2
  Null = Null
PROPERTIES
  StartsOnExactlyItsSchema
  EventuallyServes
