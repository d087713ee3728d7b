SPECIFICATION AllSpec
CONSTANTS
 a1=a1
 a2=a2
 w1=w1
 w2=w2
 c1=c1
 c2=c2
 i1=i1
 i2=i2
 e1=e1
 e2=e2
 z1=z1
 z2=z2
 b1=b1
 b2=b2
 r1=r1
 v1=v1
 v2=v2
 m1=m1
 m2=m2
 d1=d1
 f1=f1
 None=None
 Nobody=Nobody
 Admins <- TwoAdmins
 Workers <- TwoWorkers
 Clients <- TwoClients
 Owner <- OwnBrowsers
 Passwords <- TwoPasswords
 ZoneNames <- TwoZoneNames
 MaxRevoked = 2
 Backups <- TwoBackups
 Releasers <- OneReleaser
 Releases <- TwoReleases
 First = v1
 Media <- TwoMedia
 Documents <- OneDocument
 Folders <- OneFolder
 Day = 2
 MaxTime = 2
 MaxKills = 1
INVARIANTS AccountsHold UpgradeKeepsData BackupsRestore
CHECK_DEADLOCK FALSE
