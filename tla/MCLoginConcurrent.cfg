SPECIFICATION Spec
CONSTANTS
    t1 = t1
    t2 = t2
    t3 = t3
    ann = ann
    ben = ben
    eve = eve
    Tabs <- TwoTabs
    Users <- MCUsers
    AllowedEmails <- MCAllowed
    AdminEmails <- MCAdmins
    RolesClaim <- ValueClaim
    MaxVerifiers = 2
    Expiry = 1
    MaxTime = 0
    Keep = Keep
PROPERTIES
    LoginsDoNotDisturb
